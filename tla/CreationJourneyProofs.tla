------------------------- MODULE CreationJourneyProofs -------------------------
(***************************************************************************)
(* Why the pages, the cookie and the tables agree, for any number of tabs, *)
(* calls, names, tickets and key sets, and any loss or reload.  The        *)
(* argument follows a creation: every record on its way (cookie, call,     *)
(* page, row) is accounted for by what the person did, and what the person *)
(* did only grows.                                                         *)
(***************************************************************************)
EXTENDS CreationJourney, FiniteSetTheorems, TLAPS

------------------------------------------------------------------------------
(* What each record shows, given e: what was entered; k: the backups;       *)
(* b: whom key sets were generated for; a: the accounts.                    *)

JarOk(s, e, a) == s # NoSession =>
  /\ << s.name, s.ticket >> \in e
  /\ s.created => a[s.name] # NoRow /\ a[s.name].ticket = s.ticket

CallOk(q, e, k, b, a) ==
  /\ q.kind \in {"session", "recovery"} => q.ticket \in Ticket /\ << q.name, q.ticket >> \in e
  /\ q.kind # "session" => q.keys \in Keys /\ b[q.keys] = q.name
  /\ q.kind = "account" => q.keys \in k
  /\ JarOk(q.jar, e, a)
  /\ q.phase \in {"checked", "working"} =>
       q.kind = "account" /\ SessionAllows(q.jar, q.name, q.keys)
  /\ q.kind = "account" /\ q.phase = "answered" /\ q.ok =>
       /\ SessionAllows(q.jar, q.name, q.keys)
       /\ a[q.name] = [ticket |-> q.jar.ticket, keys |-> q.keys]

PageOk(p, e, k, b, a) ==
  /\ p.page # "form" => p.name \in Name
  /\ p.page = "details" =>
       /\ p.ticket \in Ticket /\ << p.name, p.ticket >> \in e
       /\ p.keys \in Keys /\ b[p.keys] = p.name
       /\ p.saved => p.keys \in k
  /\ p.page = "success" => a[p.name] # NoRow

(* An attempt or an account of name n.                                      *)
RowOk(n, r, e, k, b) == r.keys # NoKeys =>
  r.keys \in k /\ b[r.keys] = n /\ << n, r.ticket >> \in e

(* A page waits for a call of its own; a session is asked for by a page     *)
(* that is there.                                                           *)
AtPage(q, tb) ==
  /\ q.kind \in {"session", "recovery"} => q.tab \in Tab
  /\ q.tab \in Tab =>
       IF q.kind = "session" THEN tb[q.tab].page = "form"
       ELSE tb[q.tab].page = "details" /\ tb[q.tab].name = q.name /\ tb[q.tab].keys = q.keys

CallsInv ==
  \A c \in Call : calls[c] # Idle => CallOk(calls[c], entered, backups, born, accounts)
WaitInv ==
  /\ \A c \in Call : calls[c] # Idle => AtPage(calls[c], tabs)
  /\ \A c, d \in Call : calls[c].tab = calls[d].tab /\ calls[c].tab \in Tab => c = d
BrowserInv ==
  /\ \A b \in Tab : PageOk(tabs[b], entered, backups, born, accounts)
  /\ JarOk(jar, entered, accounts)
  /\ \A n \in pass : accounts[n] # NoRow
RowsInv == \A n \in Name :
  /\ RowOk(n, attempts[n], entered, backups, born)
  /\ RowOk(n, accounts[n], entered, backups, born)

(* A use is on its ticket, or held by one attempt, or spent on one account. *)
Has(r, t) == r.ticket = t
TicketInv == \A t \in Ticket :
  /\ \A n \in Name : Has(attempts[n], t) \/ Has(accounts[n], t) => uses[t] = 0
  /\ \A n, m \in Name : Has(attempts[n], t) /\ Has(attempts[m], t) => n = m
  /\ \A n, m \in Name : Has(accounts[n], t) /\ Has(accounts[m], t) => n = m
  /\ \A n, m \in Name : ~(Has(attempts[n], t) /\ Has(accounts[m], t))
GrantInv ==
  /\ \A t \in InviteTicket : grants[t] = Nobody =>
       /\ uses[t] = 0
       /\ \A n \in Name : ~Has(attempts[n], t) /\ ~Has(accounts[n], t)
  /\ \A t, v \in InviteTicket : grants[t] = grants[v] /\ grants[t] # Nobody => t = v

(* Only its owner spends an invitation, and what holds its use was paid.    *)
PaidInv == \A t \in InviteTicket :
  /\ paidBy[t] \subseteq {grants[t]}
  /\ grants[t] = Nobody => paidBy[t] = {}
  /\ \A n \in Name : Has(attempts[n], t) \/ Has(accounts[n], t) => paidBy[t] # {}

(* Only the call that opened an attempt concludes it, while it works on it. *)
HeldInv == \A n \in Name, c \in Call : attempts[n].by = c =>
  /\ Phase(c, "working")
  /\ calls[c].name = n
  /\ SameAttempt(calls[c])

TablesInv == RowsInv /\ TicketInv /\ GrantInv /\ PaidInv /\ HeldInv
JourneyInv == JourneyTypeOK /\ CallsInv /\ WaitInv /\ BrowserInv /\ TablesInv

------------------------------------------------------------------------------
(* What the person did only grows, and records stay accounted for.          *)

Grows(e, e2, k, k2, b, b2, a, a2) ==
  /\ e \subseteq e2 /\ k \subseteq k2
  /\ \A x \in Keys : b[x] # NoName => b2[x] = b[x]
  /\ \A n \in Name : a[n] # NoRow => a2[n] = a[n]

LEMMA GrowthKeeps ==
  ASSUME NEW e, NEW e2, NEW k \in SUBSET Keys, NEW k2, NEW b, NEW b2, NEW a, NEW a2,
         Grows(e, e2, k, k2, b, b2, a, a2)
  PROVE  /\ \A s \in Session \cup {NoSession} : JarOk(s, e, a) => JarOk(s, e2, a2)
         /\ \A q \in CallRow : CallOk(q, e, k, b, a) => CallOk(q, e2, k2, b2, a2)
         /\ \A p \in PageRow : PageOk(p, e, k, b, a) => PageOk(p, e2, k2, b2, a2)
         /\ \A n \in Name : \A r : RowOk(n, r, e, k, b) => RowOk(n, r, e2, k2, b2)
<1>1. ASSUME NEW s \in Session \cup {NoSession}, JarOk(s, e, a) PROVE JarOk(s, e2, a2)
  BY <1>1 DEF JarOk, Grows, Session
<1>2. ASSUME NEW q \in CallRow, CallOk(q, e, k, b, a) PROVE CallOk(q, e2, k2, b2, a2)
  <2>1. q.jar \in Session \cup {NoSession} /\ q.name \in Name
    BY DEF CallRow
  <2>2. q.name # NoName BY <2>1, JourneyAssumption
  <2>3. JarOk(q.jar, e2, a2) BY <2>1, <1>1, <1>2 DEF CallOk
  <2>4. a[q.name] = [ticket |-> q.jar.ticket, keys |-> q.keys] /\ q.keys \in Keys
          => a2[q.name] = a[q.name]
    BY <2>1, SessionAssumption DEF Grows, NoRow
  <2> QED BY <1>2, <2>1, <2>2, <2>3, <2>4 DEF CallOk, Grows
<1>3. ASSUME NEW p \in PageRow, PageOk(p, e, k, b, a) PROVE PageOk(p, e2, k2, b2, a2)
  <2>1. p.name \in Name => p.name # NoName BY JourneyAssumption
  <2> QED BY <1>3, <2>1 DEF PageOk, Grows
<1>4. ASSUME NEW n \in Name, NEW r, RowOk(n, r, e, k, b) PROVE RowOk(n, r, e2, k2, b2)
  <2>1. n # NoName BY JourneyAssumption
  <2>2. r.keys \in k => r.keys \in Keys OBVIOUS
  <2> QED BY <1>4, <2>1, <2>2 DEF RowOk, Grows
<1> QED BY <1>1, <1>2, <1>3, <1>4

Growth == Grows(entered, entered', backups, backups', born, born', accounts, accounts')

LEMMA Keeps ==
  ASSUME JourneyTypeOK, Growth
  PROVE  /\ \A s \in Session \cup {NoSession} :
              JarOk(s, entered, accounts) => JarOk(s, entered', accounts')
         /\ \A q \in CallRow : CallOk(q, entered, backups, born, accounts)
              => CallOk(q, entered', backups', born', accounts')
         /\ \A p \in PageRow : PageOk(p, entered, backups, born, accounts)
              => PageOk(p, entered', backups', born', accounts')
         /\ \A n \in Name : \A r : RowOk(n, r, entered, backups, born)
              => RowOk(n, r, entered', backups', born')
BY GrowthKeeps DEF Growth, JourneyTypeOK

LEMMA StandsStill ==
  ASSUME UNCHANGED << entered, backups, born, accounts >>
  PROVE  Growth
BY DEF Growth, Grows

LEMMA CallRowOrIdle ==
  ASSUME JourneyTypeOK, NEW c \in Call
  PROVE  /\ calls[c] # Idle => calls[c] \in CallRow
         /\ ~Free(c) => calls[c] # Idle
         /\ Free(c) => calls[c] = Idle
BY DEF JourneyTypeOK, CallRow, Idle, Free

(* One call is written.                                                     *)
LEMMA OneCall ==
  ASSUME JourneyTypeOK, CallsInv, Growth, NEW c \in Call, NEW r,
         calls' = [calls EXCEPT ![c] = r],
         r # Idle => r \in CallRow /\ CallOk(r, entered', backups', born', accounts')
  PROVE  CallsInv' /\ calls' \in [Call -> CallRow \cup {Idle}]
<1>1. calls' \in [Call -> CallRow \cup {Idle}] BY DEF JourneyTypeOK
<1>2. ASSUME NEW d \in Call, calls'[d] # Idle
      PROVE  CallOk(calls'[d], entered', backups', born', accounts')
  <2>1. CASE d = c BY <2>1, <1>2 DEF JourneyTypeOK
  <2>2. CASE d # c
    <3>1. calls'[d] = calls[d] BY <2>2 DEF JourneyTypeOK
    <3>2. calls[d] \in CallRow BY <3>1, <1>2, CallRowOrIdle
    <3> QED BY <3>1, <3>2, <1>2, Keeps DEF CallsInv
  <2> QED BY <2>1, <2>2
<1> QED BY <1>1, <1>2 DEF CallsInv

(* Calls are left alone, or forgotten by their page.                        *)
LEMMA SameCalls ==
  ASSUME JourneyTypeOK, CallsInv, Growth, UNCHANGED calls
  PROVE  CallsInv'
<1>1. ASSUME NEW d \in Call, calls'[d] # Idle
      PROVE  CallOk(calls'[d], entered', backups', born', accounts')
  <2>1. calls[d] \in CallRow BY <1>1, CallRowOrIdle
  <2> QED BY <2>1, <1>1, Keeps DEF CallsInv
<1> QED BY <1>1 DEF CallsInv

(* What becomes of a call whose page is reloaded, left, or cut off.          *)
Dropped(q) == {Abandoned(q), LeftBehind(q)}

LEMMA DroppedOk ==
  ASSUME JourneyTypeOK, CallsInv, NEW c \in Call, calls[c] # Idle, NEW r \in Dropped(calls[c])
  PROVE  /\ r.tab \in {NoTab, NoBrowser}
         /\ r # Idle => /\ r \in CallRow
                        /\ r.kind \notin {"session", "recovery"}
                        /\ CallOk(r, entered, backups, born, accounts)
                        /\ r.phase = calls[c].phase /\ r.jar = calls[c].jar
                        /\ r.name = calls[c].name /\ r.keys = calls[c].keys
         /\ Phase(c, "working") => r # Idle
<1>1. calls[c] \in CallRow BY CallRowOrIdle
<1>2. CASE r # Idle
  <2>1. PICK x \in {NoTab, NoBrowser} : r = [calls[c] EXCEPT !.tab = x]
    BY <1>2 DEF Dropped, Abandoned, LeftBehind
  <2>2. /\ r \in CallRow /\ r.tab = x /\ r.kind = calls[c].kind /\ r.name = calls[c].name
        /\ r.ticket = calls[c].ticket /\ r.keys = calls[c].keys /\ r.jar = calls[c].jar
        /\ r.phase = calls[c].phase /\ r.ok = calls[c].ok
    BY <1>1, <2>1 DEF CallRow
  <2>3. CallOk(calls[c], entered, backups, born, accounts) BY DEF CallsInv
  <2>4. CallOk(r, entered, backups, born, accounts) BY <2>2, <2>3 DEF CallOk
  <2>5. calls[c].kind \notin {"session", "recovery"}
    BY <1>2 DEF Dropped, Abandoned, LeftBehind
  <2> QED BY <1>2, <2>2, <2>4, <2>5
<1>3. CASE r = Idle
  <2>1. Phase(c, "working") => calls[c].kind = "account" /\ calls[c].phase = "working"
    BY DEF CallsInv, CallOk, Phase
  <2>2. \A x : [calls[c] EXCEPT !.tab = x].phase = calls[c].phase
    BY <1>1 DEF CallRow
  <2>3. ~Phase(c, "working")
    BY <1>3, <2>1, <2>2 DEF Dropped, Abandoned, LeftBehind, Idle
  <2> QED BY <1>3, <2>3 DEF Idle
<1> QED BY <1>2, <1>3

(* Steps of the pages leave the tables as they are, and the calls at work.  *)
QuietCalls ==
  \A c \in Call :
    /\ Phase(c, "working")' => Phase(c, "working")
    /\ Phase(c, "working") =>
         /\ Phase(c, "working")' /\ calls'[c].name = calls[c].name
         /\ calls'[c].keys = calls[c].keys /\ calls'[c].jar = calls[c].jar

LEMMA QuietTables ==
  ASSUME JourneyTypeOK, TablesInv, Growth, UNCHANGED << serverVars, paidBy, grants >>, QuietCalls
  PROVE  TablesInv'
<1>1. RowsInv' BY Keeps DEF TablesInv, RowsInv, serverVars
<1>2. TicketInv' /\ GrantInv' BY DEF TablesInv, TicketInv, GrantInv, serverVars
<1>3. PaidInv' BY DEF TablesInv, PaidInv, serverVars
<1>4. HeldInv'
  <2>1. ASSUME NEW n \in Name, NEW c \in Call, attempts'[n].by = c
        PROVE  /\ Phase(c, "working")' /\ calls'[c].name = n
               /\ SameAttempt(calls[c])'
    <3>1. attempts' = attempts BY DEF serverVars
    <3>2. Phase(c, "working") /\ calls[c].name = n /\ SameAttempt(calls[c])
      BY <2>1, <3>1 DEF TablesInv, HeldInv
    <3> QED BY <3>1, <3>2 DEF QuietCalls, SameAttempt
  <2> QED BY <2>1 DEF HeldInv
<1> QED BY <1>1, <1>2, <1>3, <1>4 DEF TablesInv

(* At most one call of a tab is written, with the page it belongs to.       *)
LEMMA WaitStep ==
  ASSUME JourneyTypeOK, WaitInv, NEW c \in Call, NEW r, NEW b \in Tab \cup {NoTab, NoBrowser},
         calls' = [calls EXCEPT ![c] = r],
         \A x \in Tab \ {b} : tabs'[x] = tabs[x],
         b \in Tab => \A d \in Call \ {c} : calls[d].tab # b,
         r.tab \in {NoTab, NoBrowser, b},
         r # Idle => AtPage(r, tabs')
  PROVE  WaitInv'
<1>1. \A d \in Call \ {c} : calls'[d] = calls[d] /\ calls[d].tab \in Tab \cup {NoTab, NoBrowser}
  BY DEF JourneyTypeOK, CallRow, Idle
<1>2. calls'[c] = r BY DEF JourneyTypeOK
<1>3. ASSUME NEW d \in Call, calls'[d] # Idle PROVE AtPage(calls'[d], tabs')
  <2>1. CASE d = c BY <2>1, <1>2, <1>3
  <2>2. CASE d # c
    <3>1. calls'[d] = calls[d] /\ AtPage(calls[d], tabs) BY <2>2, <1>1, <1>3 DEF WaitInv
    <3>2. calls[d].tab \in Tab => tabs'[calls[d].tab] = tabs[calls[d].tab]
      BY <2>2, <1>1, JourneyAssumption
    <3> QED BY <3>1, <3>2 DEF AtPage
  <2> QED BY <2>1, <2>2
<1>4. ASSUME NEW d \in Call, NEW x \in Call, calls'[d].tab = calls'[x].tab, calls'[d].tab \in Tab
      PROVE  d = x
  BY <1>1, <1>2, <1>4, JourneyAssumption DEF WaitInv
<1> QED BY <1>3, <1>4 DEF WaitInv

LEMMA NobodyElse ==
  ASSUME JourneyTypeOK, NEW b \in Tab, ~Waiting(b)
  PROVE  \A d \in Call : calls[d].tab # b
BY JourneyAssumption, CallRowOrIdle DEF Waiting, Idle

LEMMA OnlyThisCall ==
  ASSUME WaitInv, NEW c \in Call, calls[c].tab \in Tab
  PROVE  \A d \in Call \ {c} : calls[d].tab # calls[c].tab
BY DEF WaitInv

LEMMA TurnWithoutCalls ==
  ASSUME JourneyTypeOK, WaitInv, NEW b \in Tab, NEW p, ~Waiting(b), Turn(b, p), UNCHANGED calls
  PROVE  WaitInv'
<1>1. ASSUME NEW d \in Call, calls'[d] # Idle PROVE AtPage(calls'[d], tabs')
  <2>1. calls[d].tab \in Tab => tabs'[calls[d].tab] = tabs[calls[d].tab]
    BY NobodyElse DEF Turn, JourneyTypeOK
  <2>2. calls'[d] = calls[d] OBVIOUS
  <2> QED BY <1>1, <2>1, <2>2 DEF AtPage, WaitInv
<1> QED BY <1>1 DEF WaitInv

(* One page is turned, the cookie may change.                               *)
LEMMA TurnStep ==
  ASSUME JourneyTypeOK, BrowserInv, Growth, NEW b \in Tab, NEW p \in PageRow,
         tabs' = [tabs EXCEPT ![b] = p],
         PageOk(p, entered', backups', born', accounts'),
         JarOk(jar', entered', accounts'),
         \A n \in pass' : n \in pass \/ accounts'[n] # NoRow
  PROVE  BrowserInv' /\ tabs' \in [Tab -> PageRow]
<1>1. tabs' \in [Tab -> PageRow] BY DEF JourneyTypeOK
<1>2. ASSUME NEW x \in Tab PROVE PageOk(tabs'[x], entered', backups', born', accounts')
  <2>1. CASE x = b BY <2>1 DEF JourneyTypeOK
  <2>2. CASE x # b
    <3>1. tabs'[x] = tabs[x] /\ tabs[x] \in PageRow BY <2>2 DEF JourneyTypeOK
    <3> QED BY <3>1, Keeps DEF BrowserInv
  <2> QED BY <2>1, <2>2
<1>3. \A n \in pass' : accounts'[n] # NoRow
  BY DEF BrowserInv, Growth, Grows, JourneyTypeOK
<1> QED BY <1>1, <1>2, <1>3 DEF BrowserInv

LEMMA StayStep ==
  ASSUME JourneyTypeOK, BrowserInv, Growth, UNCHANGED << tabs, pass >>,
         JarOk(jar', entered', accounts')
  PROVE  BrowserInv'
<1>1. ASSUME NEW x \in Tab PROVE PageOk(tabs'[x], entered', backups', born', accounts')
  <2>1. tabs'[x] = tabs[x] /\ tabs[x] \in PageRow BY DEF JourneyTypeOK
  <2> QED BY <2>1, Keeps DEF BrowserInv
<1>2. \A n \in pass' : accounts'[n] # NoRow
  BY DEF BrowserInv, Growth, Grows, JourneyTypeOK
<1> QED BY <1>1, <1>2 DEF BrowserInv

LEMMA SameJar ==
  ASSUME JourneyTypeOK, BrowserInv, Growth, UNCHANGED jar
  PROVE  JarOk(jar', entered', accounts')
BY Keeps DEF BrowserInv, JourneyTypeOK

LEMMA FormPageOk ==
  /\ FormPage \in PageRow
  /\ \A e, k, b, a : PageOk(FormPage, e, k, b, a)
BY DEF FormPage, PageRow, PageOk

(* The pages between form and success, with nothing but a name.             *)
LEMMA NamedPage ==
  ASSUME NEW n \in Name, NEW p \in {"opening", "leaving"}
  PROVE  LET r == [FormPage EXCEPT !.page = p, !.name = n] IN
         r \in PageRow /\ r.page = p /\ \A e, k, b, a : PageOk(r, e, k, b, a)
BY DEF FormPage, PageRow, PageOk

------------------------------------------------------------------------------
(* The steps of the pages.                                                  *)

LEMMA SubmitFormStep ==
  ASSUME JourneyInv, NEW b \in Tab, NEW c \in Call, NEW u \in Visitor, NEW n \in Name,
         NEW t \in Ticket, SubmitForm(b, c, u, n, t)
  PROVE  JourneyInv'
<1> DEFINE r == Request(b, "session", n, t, NoKeys, jar, SignedIn(t, u))
<1>0. JourneyTypeOK /\ CallsInv /\ WaitInv /\ BrowserInv /\ TablesInv BY DEF JourneyInv
<1>1. Growth BY DEF SubmitForm, Growth, Grows, serverVars
<1>2. r \in CallRow /\ r.tab = b /\ r.kind = "session" /\ r.name = n /\ r.ticket = t
      /\ r.jar = jar /\ r.phase = "sent" /\ ~r.ok
  <2>1. SignedIn(t, u) \in Visitor BY DEF SignedIn, Visitor
  <2> QED BY <1>0, <2>1 DEF Request, CallRow, CallKind, JourneyTypeOK
<1>3. calls' = [calls EXCEPT ![c] = r] /\ Free(c) BY DEF SubmitForm, Send
<1> HIDE DEF r
<1>4. JarOk(jar', entered', accounts') BY <1>0, <1>1, SameJar DEF SubmitForm, pageVars
<1>5. CallOk(r, entered', backups', born', accounts')
  BY <1>2, <1>4 DEF CallOk, SubmitForm, pageVars
<1>6. CallsInv' /\ calls' \in [Call -> CallRow \cup {Idle}]
  BY <1>0, <1>1, <1>2, <1>3, <1>5, OneCall
<1>7. JourneyTypeOK'
  BY <1>0, <1>6 DEF JourneyTypeOK, SubmitForm, pageVars, serverVars, InviteTypeOK
<1>8. tabs' = tabs /\ tabs[b].page = "form" /\ ~Waiting(b) BY DEF SubmitForm, At, pageVars
<1>9. WaitInv'
  <2>1. AtPage(r, tabs') BY <1>2, <1>8 DEF AtPage
  <2> QED BY <1>0, <1>2, <1>3, <1>8, <2>1, NobodyElse, WaitStep
<1>10. BrowserInv' BY <1>0, <1>1, <1>4, StayStep DEF SubmitForm, pageVars
<1>11. TablesInv'
  <2>1. QuietCalls BY <1>0, <1>2, <1>3 DEF QuietCalls, Free, Phase, JourneyTypeOK
  <2> QED BY <1>0, <1>1, <2>1, QuietTables DEF SubmitForm
<1> QED BY <1>6, <1>7, <1>9, <1>10, <1>11 DEF JourneyInv

LEMMA OpenDetailsStep ==
  ASSUME JourneyInv, NEW b \in Tab, NEW k \in Keys, OpenDetails(b, k)
  PROVE  JourneyInv'
<1> DEFINE p == [page |-> "details", name |-> jar.name, ticket |-> jar.ticket, keys |-> k,
                 saved |-> FALSE, confirmed |-> FALSE]
<1>0. JourneyTypeOK /\ CallsInv /\ WaitInv /\ BrowserInv /\ TablesInv BY DEF JourneyInv
<1>1. Growth BY <1>0 DEF OpenDetails, Growth, Grows, serverVars, JourneyTypeOK
<1>2. jar \in Session BY <1>0 DEF OpenDetails, SessionOf, JourneyTypeOK
<1>3. p \in PageRow /\ p.page = "details" BY <1>2 DEF PageRow, Session
<1>4. tabs' = [tabs EXCEPT ![b] = p] BY DEF OpenDetails, Turn
<1>5. JarOk(jar', entered', accounts') BY <1>0, <1>1, SameJar DEF OpenDetails
<1>6. PageOk(p, entered', backups', born', accounts')
  <2>1. << jar.name, jar.ticket >> \in entered'
    BY <1>0, <1>2 DEF BrowserInv, JarOk, OpenDetails, SessionOf
  <2>2. born'[k] = jar.name BY <1>0 DEF OpenDetails, JourneyTypeOK
  <2> QED BY <2>1, <2>2, <1>2 DEF PageOk, Session
<1> HIDE DEF p
<1>7. BrowserInv' /\ tabs' \in [Tab -> PageRow]
  BY <1>0, <1>1, <1>3, <1>4, <1>5, <1>6, TurnStep DEF OpenDetails
<1>8. JourneyTypeOK'
  <2>1. born' \in [Keys -> Name \cup {NoName}]
    BY <1>0, <1>2 DEF OpenDetails, JourneyTypeOK, Session
  <2> QED BY <2>1, <1>0, <1>7 DEF OpenDetails, JourneyTypeOK, serverVars, InviteTypeOK
<1>9. WaitInv' BY <1>0, <1>4, TurnWithoutCalls DEF OpenDetails, At, Turn
<1>10. CallsInv' BY <1>0, <1>1, SameCalls DEF OpenDetails
<1>11. TablesInv' BY <1>0, <1>1, QuietTables DEF QuietCalls, Phase, OpenDetails
<1> QED BY <1>7, <1>8, <1>9, <1>10, <1>11 DEF JourneyInv

LEMMA TurnAwayStep ==
  ASSUME JourneyInv, NEW b \in Tab, TurnAway(b)
  PROVE  JourneyInv'
<1>0. JourneyTypeOK /\ CallsInv /\ WaitInv /\ BrowserInv /\ TablesInv BY DEF JourneyInv
<1>1. Growth BY StandsStill DEF TurnAway, serverVars, historyVars
<1>2. PICK p \in PageRow : Turn(b, p) /\ PageOk(p, entered', backups', born', accounts')
  <2>1. tabs[b].name \in Name BY <1>0 DEF BrowserInv, PageOk, TurnAway, At
  <2> QED BY <2>1, FormPageOk, NamedPage DEF TurnAway
<1>3. JarOk(jar', entered', accounts') BY <1>0, <1>1, SameJar DEF TurnAway
<1>4. BrowserInv' /\ tabs' \in [Tab -> PageRow]
  BY <1>0, <1>1, <1>2, <1>3, TurnStep DEF TurnAway, Turn
<1>5. JourneyTypeOK'
  BY <1>0, <1>4 DEF TurnAway, JourneyTypeOK, serverVars, historyVars, InviteTypeOK
<1>6. WaitInv' BY <1>0, <1>2, TurnWithoutCalls DEF TurnAway, At
<1>7. CallsInv' BY <1>0, <1>1, SameCalls DEF TurnAway
<1>8. TablesInv' BY <1>0, <1>1, QuietTables DEF QuietCalls, Phase, historyVars, TurnAway
<1> QED BY <1>4, <1>5, <1>6, <1>7, <1>8 DEF JourneyInv

(* What a page sends about its own keys.                                    *)
LEMMA OwnKeysCall ==
  ASSUME JourneyTypeOK, BrowserInv, NEW b \in Tab, tabs[b].page = "details", tabs[b].saved,
         NEW u \in Visitor, NEW kind \in {"keys", "account"}
  PROVE  LET r == Request(b, kind, tabs[b].name, NoTicket, tabs[b].keys, jar, u) IN
         /\ r \in CallRow /\ r.tab = b /\ r.phase = "sent" /\ r.kind = kind
         /\ r.name = tabs[b].name /\ r.keys = tabs[b].keys
         /\ CallOk(r, entered, backups, born, accounts)
<1> DEFINE r == Request(b, kind, tabs[b].name, NoTicket, tabs[b].keys, jar, u)
<1>1. tabs[b].name \in Name /\ tabs[b].keys \in Keys /\ born[tabs[b].keys] = tabs[b].name
      /\ tabs[b].keys \in backups /\ JarOk(jar, entered, accounts)
  BY DEF BrowserInv, PageOk
<1>2. r \in CallRow /\ r.tab = b /\ r.phase = "sent" /\ r.kind = kind
      /\ r.name = tabs[b].name /\ r.keys = tabs[b].keys /\ r.jar = jar
  BY <1>1 DEF CallRow, CallKind, JourneyTypeOK, Visitor, Request
<1> HIDE DEF r
<1>3. CallOk(r, entered, backups, born, accounts) BY <1>1, <1>2 DEF CallOk
<1> QED BY <1>2, <1>3 DEF r

(* RetryConfirmation and SubmitAccount: the page stays.                     *)
LEMMA SendStep ==
  ASSUME JourneyInv, NEW b \in Tab, NEW c \in Call, NEW u \in Visitor,
         NEW kind \in {"keys", "account"}, At(b, "details"), tabs[b].saved,
         Send(c, Request(b, kind, tabs[b].name, NoTicket, tabs[b].keys, jar, u)),
         UNCHANGED << pageVars, serverVars, setbacks, historyVars, grants >>
  PROVE  JourneyInv'
<1> DEFINE r == Request(b, kind, tabs[b].name, NoTicket, tabs[b].keys, jar, u)
<1>0. JourneyTypeOK /\ CallsInv /\ WaitInv /\ BrowserInv /\ TablesInv BY DEF JourneyInv
<1>1. Growth BY StandsStill DEF serverVars, historyVars
<1>2. /\ r \in CallRow /\ r.tab = b /\ r.phase = "sent" /\ r.kind = kind
      /\ r.name = tabs[b].name /\ r.keys = tabs[b].keys
      /\ CallOk(r, entered, backups, born, accounts)
  BY <1>0, OwnKeysCall DEF At
<1>3. calls' = [calls EXCEPT ![c] = r] /\ Free(c) BY DEF Send
<1> HIDE DEF r
<1>4. CallsInv' /\ calls' \in [Call -> CallRow \cup {Idle}]
  BY <1>0, <1>1, <1>2, <1>3, OneCall DEF serverVars, historyVars
<1>5. JourneyTypeOK'
  BY <1>0, <1>4 DEF JourneyTypeOK, pageVars, serverVars, historyVars, InviteTypeOK
<1>6. WaitInv'
  <2>1. AtPage(r, tabs') BY <1>2 DEF AtPage, At, pageVars
  <2> QED BY <1>0, <1>2, <1>3, <2>1, NobodyElse, WaitStep DEF At, pageVars
<1>7. BrowserInv'
  BY <1>0, <1>1, SameJar, StayStep DEF pageVars
<1>8. TablesInv'
  <2>1. QuietCalls BY <1>0, <1>2, <1>3 DEF QuietCalls, Free, Phase, JourneyTypeOK
  <2> QED BY <1>0, <1>1, <2>1, QuietTables DEF historyVars
<1> QED BY <1>4, <1>5, <1>6, <1>7, <1>8 DEF JourneyInv

LEMMA RetryConfirmationStep ==
  ASSUME JourneyInv, NEW b \in Tab, NEW c \in Call, RetryConfirmation(b, c)
  PROVE  JourneyInv'
BY SendStep DEF RetryConfirmation, KeysCall, Visitor

LEMMA SubmitAccountStep ==
  ASSUME JourneyInv, NEW b \in Tab, NEW c \in Call, NEW u \in Visitor, SubmitAccount(b, c, u)
  PROVE  JourneyInv'
<1>1. SignedIn(TicketOf(jar), u) \in Visitor BY DEF SignedIn, Visitor
<1> QED BY <1>1, SendStep DEF SubmitAccount

LEMMA DownloadStep ==
  ASSUME JourneyInv, NEW b \in Tab, NEW c \in Call, Download(b, c)
  PROVE  JourneyInv'
<1> DEFINE p == [tabs[b] EXCEPT !.saved = TRUE]
           r == KeysCall(b)
<1>0. JourneyTypeOK /\ CallsInv /\ WaitInv /\ BrowserInv /\ TablesInv BY DEF JourneyInv
<1>1. Growth BY DEF Download, Growth, Grows, serverVars
<1>2. /\ tabs[b] \in PageRow /\ tabs[b].page = "details"
      /\ PageOk(tabs[b], entered', backups', born', accounts')
  BY <1>0, <1>1, Keeps DEF BrowserInv, JourneyTypeOK, Download, At
<1>3. /\ p \in PageRow /\ p.page = "details" /\ p.name = tabs[b].name
      /\ p.ticket = tabs[b].ticket /\ p.keys = tabs[b].keys /\ p.saved
  BY <1>2 DEF PageRow
<1>4. tabs' = [tabs EXCEPT ![b] = p] BY DEF Download, Turn
<1>5. calls' = [calls EXCEPT ![c] = r] BY DEF Download, Send
<1> HIDE DEF p
<1>6. PageOk(p, entered', backups', born', accounts')
  BY <1>2, <1>3 DEF PageOk, Download
<1>7. JarOk(jar', entered', accounts') BY <1>0, <1>1, SameJar DEF Download
<1>8. BrowserInv' /\ tabs' \in [Tab -> PageRow]
  BY <1>0, <1>1, <1>3, <1>4, <1>6, <1>7, TurnStep DEF Download
<1>9. r \in CallRow /\ r.tab = b /\ r.kind = "keys" /\ r.name = tabs[b].name
      /\ r.keys = tabs[b].keys /\ r.jar = jar /\ r.phase = "sent"
  BY <1>0, <1>2 DEF KeysCall, Request, CallRow, CallKind, JourneyTypeOK, PageOk, Visitor
<1> HIDE DEF r
<1>10. CallOk(r, entered', backups', born', accounts')
  BY <1>2, <1>7, <1>9 DEF CallOk, PageOk, Download
<1>11. CallsInv' /\ calls' \in [Call -> CallRow \cup {Idle}]
  BY <1>0, <1>1, <1>5, <1>9, <1>10, OneCall
<1>12. JourneyTypeOK'
  <2>1. backups' \subseteq Keys BY <1>0, <1>2 DEF Download, JourneyTypeOK, PageOk
  <2> QED BY <2>1, <1>0, <1>8, <1>11 DEF JourneyTypeOK, Download, serverVars, InviteTypeOK
<1>13. WaitInv'
  <2>1. AtPage(r, tabs') BY <1>0, <1>3, <1>4, <1>9 DEF AtPage, JourneyTypeOK
  <2>2. \A x \in Tab \ {b} : tabs'[x] = tabs[x] BY <1>0, <1>4 DEF JourneyTypeOK
  <2> QED BY <1>0, <1>5, <1>9, <2>1, <2>2, NobodyElse, WaitStep DEF Download, At
<1>14. TablesInv'
  <2>1. QuietCalls
    BY <1>0, <1>5, <1>9 DEF QuietCalls, Free, Phase, Download, Send, JourneyTypeOK
  <2> QED BY <1>0, <1>1, <2>1, QuietTables DEF Download
<1> QED BY <1>8, <1>11, <1>12, <1>13, <1>14 DEF JourneyInv

LEMMA LoadSuccessStep ==
  ASSUME JourneyInv, NEW b \in Tab, LoadSuccess(b)
  PROVE  JourneyInv'
<1> DEFINE n == tabs[b].name
<1>0. JourneyTypeOK /\ CallsInv /\ WaitInv /\ BrowserInv /\ TablesInv BY DEF JourneyInv
<1>1. Growth BY StandsStill DEF LoadSuccess, serverVars, historyVars
<1>2. n \in Name BY <1>0 DEF BrowserInv, PageOk, LoadSuccess, At
<1>3. Finished(n) => accounts[n] # NoRow
  BY <1>0 DEF Finished, SessionOf, BrowserInv, JarOk
<1>4. pass' \subseteq Name /\ \A m \in pass' : m \in pass \/ accounts'[m] # NoRow
  BY <1>0, <1>2, <1>3 DEF LoadSuccess, serverVars, JourneyTypeOK
<1>5. jar' \in Session \cup {NoSession} /\ JarOk(jar', entered', accounts')
  <2>1. JarOk(jar, entered', accounts') BY <1>0, <1>1, Keeps DEF BrowserInv, JourneyTypeOK
  <2> QED BY <2>1, <1>0 DEF LoadSuccess, JarOk, JourneyTypeOK
<1>6. PICK p \in PageRow : Turn(b, p) /\ PageOk(p, entered', backups', born', accounts')
  <2> DEFINE s == [FormPage EXCEPT !.page = "success", !.name = n]
  <2>1. CASE Finished(n) \/ n \in pass
    <3>1. s \in PageRow /\ s.page = "success" /\ s.name = n
      BY <1>2 DEF FormPage, PageRow
    <3>2. accounts'[n] # NoRow
      BY <2>1, <1>3, <1>0 DEF BrowserInv, LoadSuccess, serverVars
    <3>3. Turn(b, s) BY <2>1 DEF LoadSuccess
    <3> HIDE DEF s
    <3> QED BY <3>1, <3>2, <3>3, <1>2 DEF PageOk
  <2>2. CASE ~(Finished(n) \/ n \in pass)
    BY <2>2, FormPageOk DEF LoadSuccess
  <2> QED BY <2>1, <2>2
<1>7. BrowserInv' /\ tabs' \in [Tab -> PageRow]
  BY <1>0, <1>1, <1>4, <1>5, <1>6, TurnStep DEF Turn
<1>8. JourneyTypeOK'
  BY <1>0, <1>4, <1>5, <1>7
  DEF LoadSuccess, JourneyTypeOK, serverVars, historyVars, InviteTypeOK
<1>9. WaitInv' BY <1>0, <1>6, TurnWithoutCalls DEF LoadSuccess, At
<1>10. CallsInv' BY <1>0, <1>1, SameCalls DEF LoadSuccess
<1>11. TablesInv' BY <1>0, <1>1, QuietTables DEF QuietCalls, Phase, historyVars, LoadSuccess
<1> QED BY <1>7, <1>8, <1>9, <1>10, <1>11 DEF JourneyInv

LEMMA SessionExpiresStep ==
  ASSUME JourneyInv, SessionExpires
  PROVE  JourneyInv'
<1>0. JourneyTypeOK /\ CallsInv /\ WaitInv /\ BrowserInv /\ TablesInv BY DEF JourneyInv
<1>1. Growth BY StandsStill DEF SessionExpires, serverVars, historyVars
<1>2. BrowserInv' BY <1>0, <1>1, StayStep DEF SessionExpires, JarOk
<1>3. JourneyTypeOK'
  BY <1>0, JourneyAssumption
  DEF SessionExpires, Setback, JourneyTypeOK, serverVars, historyVars, InviteTypeOK
<1>4. WaitInv' BY <1>0 DEF WaitInv, SessionExpires
<1>5. CallsInv' BY <1>0, <1>1, SameCalls DEF SessionExpires
<1>6. TablesInv' BY <1>0, <1>1, QuietTables DEF QuietCalls, Phase, historyVars, SessionExpires
<1> QED BY <1>2, <1>3, <1>4, <1>5, <1>6 DEF JourneyInv

(* A page is left, by a reload or by a navigation.                          *)
LEMMA LeaveStep ==
  ASSUME JourneyInv, NEW b \in Tab, LeavePage(b),
         calls' = [c \in Call |-> IF c \in CallsOf(b) THEN calls'[c] ELSE calls[c]],
         \A c \in CallsOf(b) : calls'[c] \in Dropped(calls[c])
  PROVE  JourneyInv'
<1>0. JourneyTypeOK /\ CallsInv /\ WaitInv /\ BrowserInv /\ TablesInv BY DEF JourneyInv
<1>1. Growth BY StandsStill DEF LeavePage, serverVars, historyVars
<1>2. PICK p \in PageRow : Turn(b, p) /\ PageOk(p, entered', backups', born', accounts')
  <2>1. CASE tabs[b].page = "details"
    <3>1. tabs[b].name \in Name BY <2>1, <1>0 DEF BrowserInv, PageOk
    <3> QED BY <3>1, <2>1, FormPageOk, NamedPage DEF LeavePage
  <2>2. CASE tabs[b].page # "details" BY <2>2, FormPageOk DEF LeavePage
  <2> QED BY <2>1, <2>2
<1>3. BrowserInv' /\ tabs' \in [Tab -> PageRow]
  BY <1>0, <1>1, <1>2, SameJar, TurnStep DEF LeavePage, Turn
<1>4. ASSUME NEW d \in Call
      PROVE  \/ calls'[d] = calls[d] /\ (calls[d] # Idle => calls[d].tab # b)
             \/ calls[d] # Idle /\ calls'[d] \in Dropped(calls[d])
  BY <1>0, CallRowOrIdle DEF CallsOf, Free, Idle
<1>5. ASSUME NEW d \in Call, calls'[d] # Idle
      PROVE  /\ calls'[d] \in CallRow
             /\ CallOk(calls'[d], entered, backups, born, accounts)
             /\ \/ calls'[d].tab \in {NoTab, NoBrowser} /\ calls'[d].kind \notin {"session", "recovery"}
                \/ calls'[d] = calls[d] /\ calls[d].tab # b
             /\ calls'[d].phase = calls[d].phase /\ calls'[d].jar = calls[d].jar
             /\ calls'[d].name = calls[d].name /\ calls'[d].keys = calls[d].keys
  <2>1. CASE calls'[d] = calls[d] /\ (calls[d] # Idle => calls[d].tab # b)
    BY <2>1, <1>5, <1>0, CallRowOrIdle DEF CallsInv
  <2>2. CASE calls[d] # Idle /\ calls'[d] \in Dropped(calls[d])
    BY <2>2, <1>5, <1>0, DroppedOk, JourneyAssumption
  <2> QED BY <2>1, <2>2, <1>4
<1>6. calls' \in [Call -> CallRow \cup {Idle}]
  <2>1. \A d \in Call : calls'[d] \in CallRow \cup {Idle} BY <1>5
  <2>2. calls' = [d \in Call |-> calls'[d]] OBVIOUS
  <2> QED BY <2>1, <2>2
<1>7. CallsInv' BY <1>5, <1>6 DEF CallsInv, LeavePage, serverVars, historyVars
<1>8. JourneyTypeOK'
  BY <1>0, <1>3, <1>6, JourneyAssumption
  DEF LeavePage, Setback, JourneyTypeOK, serverVars, historyVars, InviteTypeOK
<1>9. WaitInv'
  <2>1. ASSUME NEW d \in Call, calls'[d] # Idle PROVE AtPage(calls'[d], tabs')
    <3>1. CASE /\ calls'[d].tab \in {NoTab, NoBrowser}
               /\ calls'[d].kind \notin {"session", "recovery"}
      BY <3>1, JourneyAssumption DEF AtPage
    <3>2. CASE calls'[d] = calls[d] /\ calls[d].tab # b
      <4>1. AtPage(calls[d], tabs) BY <3>2, <2>1, <1>0 DEF WaitInv
      <4>2. calls[d].tab \in Tab => tabs'[calls[d].tab] = tabs[calls[d].tab]
        BY <3>2, <1>0, <1>2 DEF Turn, JourneyTypeOK
      <4> QED BY <3>2, <4>1, <4>2 DEF AtPage
    <3> QED BY <3>1, <3>2, <2>1, <1>5
  <2>2. ASSUME NEW d \in Call, NEW x \in Call, calls'[d].tab = calls'[x].tab,
               calls'[d].tab \in Tab
        PROVE  d = x
    <3>1. calls'[d] # Idle /\ calls'[x] # Idle BY <2>2, JourneyAssumption DEF Idle
    <3>2. calls'[d] = calls[d] /\ calls'[x] = calls[x]
      BY <3>1, <2>2, <1>5, JourneyAssumption
    <3> QED BY <3>2, <2>2, <1>0 DEF WaitInv
  <2> QED BY <2>1, <2>2 DEF WaitInv
<1>10. TablesInv'
  <2>1. ASSUME NEW d \in Call
        PROVE  /\ Phase(d, "working")' => Phase(d, "working")
               /\ Phase(d, "working") =>
                    /\ Phase(d, "working")' /\ calls'[d].name = calls[d].name
                    /\ calls'[d].keys = calls[d].keys /\ calls'[d].jar = calls[d].jar
    <3>1. CASE calls'[d] = Idle
      <4>1. calls[d] # Idle => ~Phase(d, "working") BY <3>1, <1>0, <1>4, DroppedOk
      <4> QED BY <3>1, <4>1 DEF Phase, Idle
    <3>2. CASE calls'[d] # Idle BY <3>2, <1>5 DEF Phase
    <3> QED BY <3>1, <3>2
  <2> QED BY <1>0, <1>1, <2>1, QuietTables DEF LeavePage, QuietCalls, historyVars
<1> QED BY <1>3, <1>7, <1>8, <1>9, <1>10 DEF JourneyInv

LEMMA ReloadStep ==
  ASSUME JourneyInv, NEW b \in Tab, Reload(b) \/ Navigate(b)
  PROVE  JourneyInv'
<1>1. /\ calls' = [c \in Call |-> IF c \in CallsOf(b) THEN calls'[c] ELSE calls[c]]
      /\ \A c \in CallsOf(b) : calls'[c] \in Dropped(calls[c])
  BY DEF Reload, Navigate, CallsOf, Dropped
<1> QED BY <1>1, LeaveStep DEF Reload, Navigate

(* A call is dropped, or goes on without its page.                          *)
LEMMA DropStep ==
  ASSUME JourneyInv, NEW c \in Call, calls[c] # Idle, NEW r,
         (r = Idle /\ ~Phase(c, "working")) \/ r = Abandoned(calls[c]),
         calls' = [calls EXCEPT ![c] = r], setbacks' \in 0..MaxSetbacks,
         UNCHANGED << pageVars, serverVars, historyVars, grants >>
  PROVE  JourneyInv'
<1>0. JourneyTypeOK /\ CallsInv /\ WaitInv /\ BrowserInv /\ TablesInv BY DEF JourneyInv
<1>1. Growth BY StandsStill DEF serverVars, historyVars
<1>2. /\ r.tab \in {NoTab, NoBrowser}
      /\ r # Idle => /\ r \in CallRow /\ CallOk(r, entered, backups, born, accounts)
                     /\ r.kind \notin {"session", "recovery"}
                     /\ r.phase = calls[c].phase /\ r.jar = calls[c].jar
                     /\ r.name = calls[c].name /\ r.keys = calls[c].keys
      /\ Phase(c, "working") => r # Idle
  BY <1>0, DroppedOk DEF Idle, Dropped
<1>3. CallsInv' /\ calls' \in [Call -> CallRow \cup {Idle}]
  BY <1>0, <1>1, <1>2, OneCall DEF serverVars, historyVars
<1>4. JourneyTypeOK'
  BY <1>0, <1>3 DEF JourneyTypeOK, pageVars, serverVars, historyVars, InviteTypeOK
<1>5. WaitInv'
  <2>1. r # Idle => AtPage(r, tabs') BY <1>2, JourneyAssumption DEF AtPage
  <2>2. \A x \in Tab \ {NoTab} : tabs'[x] = tabs[x] BY DEF pageVars
  <2> QED BY <1>0, <1>2, <2>1, <2>2, WaitStep, JourneyAssumption
<1>6. BrowserInv' BY <1>0, <1>1, SameJar, StayStep DEF pageVars
<1>7. TablesInv'
  <2>1. calls'[c] = r /\ \A d \in Call \ {c} : calls'[d] = calls[d]
    BY <1>0 DEF JourneyTypeOK
  <2>2. QuietCalls BY <1>2, <2>1 DEF QuietCalls, Phase, Idle
  <2> QED BY <1>0, <1>1, <2>2, QuietTables DEF historyVars
<1> QED BY <1>3, <1>4, <1>5, <1>6, <1>7 DEF JourneyInv

LEMMA LoseStep ==
  ASSUME JourneyInv, NEW c \in Call, Lose(c)
  PROVE  JourneyInv'
<1>1. setbacks' \in 0..MaxSetbacks
  BY JourneyAssumption DEF JourneyInv, JourneyTypeOK, Lose, Setback
<1> QED BY <1>1, DropStep, CallRowOrIdle DEF Lose, JourneyInv

------------------------------------------------------------------------------
(* The steps of the server.                                                 *)

(* A call is answered or advanced: the page, if any, goes on waiting.       *)
LEMMA ServerStep ==
  ASSUME JourneyInv, Growth, NEW c \in Call, calls[c] # Idle, NEW r,
         r # Idle =>
           /\ r \in CallRow /\ r.tab = calls[c].tab /\ r.kind = calls[c].kind
           /\ r.name = calls[c].name /\ r.ticket = calls[c].ticket /\ r.keys = calls[c].keys
           /\ r.jar \in {calls[c].jar, NoSession}
           /\ r.phase \in {"checked", "working"} =>
                r.kind = "account" /\ SessionAllows(r.jar, r.name, r.keys)
           /\ r.kind = "account" /\ r.phase = "answered" /\ r.ok =>
                /\ SessionAllows(r.jar, r.name, r.keys)
                /\ accounts'[r.name] = [ticket |-> r.jar.ticket, keys |-> r.keys],
         calls' = [calls EXCEPT ![c] = r],
         UNCHANGED << pageVars, born, backups, entered >>
  PROVE  /\ CallsInv' /\ WaitInv' /\ BrowserInv'
         /\ calls' \in [Call -> CallRow \cup {Idle}]
         /\ calls'[c] = r /\ \A d \in Call \ {c} : calls'[d] = calls[d]
<1>0. JourneyTypeOK /\ CallsInv /\ WaitInv /\ BrowserInv BY DEF JourneyInv
<1>1. calls[c] \in CallRow BY <1>0, CallRowOrIdle
<1>2. CallOk(calls[c], entered', backups', born', accounts')
  BY <1>0, <1>1, Keeps DEF CallsInv
<1>3. r # Idle => CallOk(r, entered', backups', born', accounts')
  BY <1>2 DEF CallOk, JarOk
<1>4. CallsInv' /\ calls' \in [Call -> CallRow \cup {Idle}]
  BY <1>0, <1>3, OneCall
<1>5. WaitInv'
  <2>1. r # Idle => AtPage(r, tabs') BY <1>0 DEF WaitInv, AtPage, pageVars
  <2>2. calls[c].tab \in Tab \cup {NoTab, NoBrowser} BY <1>1 DEF CallRow
  <2>3. \A x \in Tab \ {calls[c].tab} : tabs'[x] = tabs[x] BY DEF pageVars
  <2>4. calls[c].tab \in Tab => \A d \in Call \ {c} : calls[d].tab # calls[c].tab
    BY <1>0, OnlyThisCall
  <2>5. r.tab \in {NoTab, NoBrowser, calls[c].tab} BY DEF Idle
  <2> QED BY <1>0, <2>1, <2>2, <2>3, <2>4, <2>5, WaitStep
<1>6. BrowserInv' BY <1>0, SameJar, StayStep DEF pageVars
<1>7. (\A d \in Call \ {c} : calls'[d] = calls[d]) /\ calls'[c] = r
  BY <1>0 DEF JourneyTypeOK
<1> QED BY <1>4, <1>5, <1>6, <1>7

(* It is at work afterwards, or not.                                        *)
Served(c, working) ==
  /\ CallsInv' /\ WaitInv' /\ BrowserInv'
  /\ calls' \in [Call -> CallRow \cup {Idle}]
  /\ \A d \in Call \ {c} : calls'[d] = calls[d]
  /\ (calls'[c].phase = "working") = working
  /\ working => /\ calls'[c].jar = calls[c].jar
                /\ calls'[c].name = calls[c].name /\ calls'[c].keys = calls[c].keys

LEMMA AnswerServes ==
  ASSUME JourneyInv, Growth, NEW c \in Call, calls[c] # Idle, NEW ok \in BOOLEAN,
         Answer(c, ok),
         calls[c].kind = "account" /\ ok =>
           /\ SessionAllows(calls[c].jar, calls[c].name, calls[c].keys)
           /\ accounts'[calls[c].name] = [ticket |-> calls[c].jar.ticket, keys |-> calls[c].keys],
         UNCHANGED << pageVars, born, backups, entered >>
  PROVE  Served(c, FALSE)
<1> DEFINE q == Answered(calls[c], ok)
           r == IF calls[c].tab = NoBrowser THEN Idle ELSE q
<1>1. calls[c] \in CallRow BY CallRowOrIdle DEF JourneyInv
<1>2. /\ q \in CallRow /\ q.tab = calls[c].tab /\ q.kind = calls[c].kind
      /\ q.name = calls[c].name /\ q.ticket = calls[c].ticket /\ q.keys = calls[c].keys
      /\ q.jar = (IF ok THEN calls[c].jar ELSE NoSession)
      /\ q.phase = "answered" /\ q.ok = ok
  BY <1>1 DEF CallRow, Answered, Visitor
<1>3. calls' = [calls EXCEPT ![c] = r] BY DEF Answer, JourneyInv, JourneyTypeOK
<1>4. r # Idle => r = q OBVIOUS
<1>5. r.phase # "working"
  <2>1. r = Idle \/ r = q OBVIOUS
  <2> HIDE DEF q, r
  <2> QED BY <2>1, <1>2 DEF Idle
<1> HIDE DEF q, r
<1>6. /\ CallsInv' /\ WaitInv' /\ BrowserInv'
      /\ calls' \in [Call -> CallRow \cup {Idle}]
      /\ calls'[c] = r /\ \A d \in Call \ {c} : calls'[d] = calls[d]
  BY <1>2, <1>3, <1>4, ServerStep
<1> QED BY <1>5, <1>6 DEF Served

LEMMA AdvanceServes ==
  ASSUME JourneyInv, Growth, NEW c \in Call, calls[c] # Idle, NEW p \in {"checked", "working"},
         Advance(c, p), calls[c].kind = "account",
         SessionAllows(calls[c].jar, calls[c].name, calls[c].keys),
         UNCHANGED << pageVars, born, backups, entered >>
  PROVE  Served(c, p = "working")
<1> DEFINE r == [calls[c] EXCEPT !.phase = p]
<1>1. calls[c] \in CallRow BY CallRowOrIdle DEF JourneyInv
<1>2. /\ r \in CallRow /\ r.tab = calls[c].tab /\ r.kind = calls[c].kind
      /\ r.name = calls[c].name /\ r.ticket = calls[c].ticket /\ r.keys = calls[c].keys
      /\ r.jar = calls[c].jar /\ r.phase = p
  BY <1>1 DEF CallRow
<1>3. calls' = [calls EXCEPT ![c] = r] BY DEF Advance, JourneyInv, JourneyTypeOK
<1> HIDE DEF r
<1>4. /\ CallsInv' /\ WaitInv' /\ BrowserInv'
      /\ calls' \in [Call -> CallRow \cup {Idle}]
      /\ calls'[c] = r /\ \A d \in Call \ {c} : calls'[d] = calls[d]
  BY <1>2, <1>3, ServerStep
<1> QED BY <1>2, <1>4 DEF Served

ServerTypes ==
  /\ uses \in [Ticket -> 0..1]
  /\ attempts \in [Name -> AttemptRow \cup {NoAttempt}]
  /\ accounts \in [Name -> AccountRow \cup {NoRow}]
  /\ paidBy \in [InviteTicket -> SUBSET Visitor]

(* What an open attempt becomes.                                            *)
LEMMA CompleteTables ==
  ASSUME JourneyTypeOK, TablesInv, NEW n \in Name, attempts[n] # NoAttempt, Complete(n),
         UNCHANGED << historyVars, grants >>
  PROVE  /\ Growth /\ ServerTypes' /\ RowsInv' /\ TicketInv' /\ GrantInv' /\ PaidInv'
         /\ accounts'[n] = [ticket |-> attempts[n].ticket, keys |-> attempts[n].keys]
<1>1. attempts[n] \in AttemptRow BY DEF JourneyTypeOK
<1> DEFINE a == [ticket |-> attempts[n].ticket, keys |-> attempts[n].keys]
<1>2. a \in AccountRow /\ a.ticket = attempts[n].ticket /\ a.keys = attempts[n].keys
  BY <1>1 DEF AttemptRow, AccountRow
<1>3. accounts' = [accounts EXCEPT ![n] = a] /\ attempts' = [attempts EXCEPT ![n] = NoAttempt]
      /\ uses' = uses /\ accounts[n] = NoRow
  BY DEF Complete
<1> HIDE DEF a
<1>4. /\ accounts'[n] = a /\ attempts'[n] = NoAttempt
      /\ \A m \in Name \ {n} : accounts'[m] = accounts[m] /\ attempts'[m] = attempts[m]
  BY <1>3 DEF JourneyTypeOK
<1>5. NoAttempt.ticket = NoTicket /\ NoAttempt.keys = NoKeys
      /\ NoRow.ticket = NoTicket /\ NoTicket \notin Ticket
  BY JourneyAssumption DEF NoAttempt, NoRow
<1>6. Growth BY <1>3, <1>4 DEF Growth, Grows, historyVars
<1>7. ServerTypes' BY <1>2, <1>3 DEF ServerTypes, JourneyTypeOK, historyVars
<1>8. RowsInv'
  <2>1. \A m \in Name : /\ RowOk(m, attempts[m], entered, backups, born)
                        /\ RowOk(m, accounts[m], entered, backups, born)
    BY DEF TablesInv, RowsInv
  <2>2. RowOk(n, a, entered, backups, born) BY <2>1, <1>2 DEF RowOk
  <2>3. RowOk(n, NoAttempt, entered, backups, born) BY <1>5 DEF RowOk
  <2> QED BY <2>1, <2>2, <2>3, <1>4 DEF RowsInv, historyVars
<1>9. TicketInv'
  BY <1>2, <1>3, <1>4, <1>5 DEF TablesInv, TicketInv, Has
<1>10. GrantInv'
  BY <1>2, <1>3, <1>4, <1>5, JourneyAssumption DEF TablesInv, GrantInv, Has
<1>11. PaidInv'
  BY <1>2, <1>4, <1>5, JourneyAssumption DEF TablesInv, PaidInv, Has, historyVars
<1> QED BY <1>4, <1>6, <1>7, <1>8, <1>9, <1>10, <1>11 DEF a

LEMMA RollBackTables ==
  ASSUME JourneyTypeOK, TablesInv, NEW n \in Name, attempts[n] # NoAttempt, RollBack(n),
         UNCHANGED << historyVars, grants >>
  PROVE  Growth /\ ServerTypes' /\ RowsInv' /\ TicketInv' /\ GrantInv' /\ PaidInv'
<1> DEFINE t == attempts[n].ticket
<1>1. t \in Ticket BY DEF JourneyTypeOK, AttemptRow
<1>2. uses[t] = 0 BY <1>1 DEF TablesInv, TicketInv, Has
<1>3. /\ uses' = [uses EXCEPT ![t] = 1] /\ accounts' = accounts
      /\ attempts' = [attempts EXCEPT ![n] = NoAttempt]
  BY <1>1, <1>2 DEF RollBack, JourneyTypeOK
<1>4. /\ attempts'[n] = NoAttempt /\ \A m \in Name \ {n} : attempts'[m] = attempts[m]
      /\ uses'[t] = 1 /\ \A v \in Ticket \ {t} : uses'[v] = uses[v]
  BY <1>1, <1>3 DEF JourneyTypeOK
<1>5. NoAttempt.ticket = NoTicket /\ NoAttempt.keys = NoKeys /\ NoTicket \notin Ticket
  BY JourneyAssumption DEF NoAttempt
<1>6. Growth BY <1>3, StandsStill DEF historyVars
<1>7. ServerTypes' BY <1>1, <1>3 DEF ServerTypes, JourneyTypeOK, historyVars
<1>8. RowsInv'
  <2>1. \A m \in Name : /\ RowOk(m, attempts[m], entered, backups, born)
                        /\ RowOk(m, accounts[m], entered, backups, born)
    BY DEF TablesInv, RowsInv
  <2>2. RowOk(n, NoAttempt, entered, backups, born) BY <1>5 DEF RowOk
  <2> QED BY <2>1, <2>2, <1>3, <1>4 DEF RowsInv, historyVars
<1>9. TicketInv' BY <1>1, <1>3, <1>4, <1>5 DEF TablesInv, TicketInv, Has
<1>10. GrantInv'
  BY <1>1, <1>3, <1>4, <1>5, JourneyAssumption DEF TablesInv, GrantInv, Has
<1>11. PaidInv'
  BY <1>3, <1>4, <1>5, JourneyAssumption DEF TablesInv, PaidInv, Has, historyVars
<1> QED BY <1>6, <1>7, <1>8, <1>9, <1>10, <1>11

(* One use becomes an attempt of call c, which came with u's sign-in.       *)
LEMMA OpenTables ==
  ASSUME JourneyTypeOK, TablesInv, NEW c \in Call, NEW n \in Name, NEW t \in Ticket,
         NEW k \in Keys, NEW u \in Visitor, CanUse(t, u), attempts[n] = NoAttempt, uses[t] > 0,
         attempts' = [attempts EXCEPT ![n] = [ticket |-> t, keys |-> k, by |-> c]],
         uses' = [uses EXCEPT ![t] = @ - 1],
         paidBy' = [v \in InviteTicket |-> paidBy[v] \cup IF v = t THEN {u} ELSE {}],
         k \in backups, born[k] = n, << n, t >> \in entered,
         UNCHANGED << accounts, born, backups, entered, grants >>
  PROVE  Growth /\ ServerTypes' /\ RowsInv' /\ TicketInv' /\ GrantInv' /\ PaidInv'
<1> DEFINE r == [ticket |-> t, keys |-> k, by |-> c]
<1>1. uses[t] = 1 BY DEF JourneyTypeOK
<1>2. uses' = [uses EXCEPT ![t] = 0] BY <1>1
<1>3. r \in AttemptRow /\ r.ticket = t /\ r.keys = k BY DEF AttemptRow
<1>4. attempts' = [attempts EXCEPT ![n] = r] OBVIOUS
<1> HIDE DEF r
<1>5. /\ attempts'[n] = r /\ \A m \in Name \ {n} : attempts'[m] = attempts[m]
      /\ uses'[t] = 0 /\ \A v \in Ticket \ {t} : uses'[v] = uses[v]
  BY <1>2, <1>4 DEF JourneyTypeOK
<1>6. \A m \in Name : ~Has(attempts[m], t) /\ ~Has(accounts[m], t)
  BY <1>1 DEF TablesInv, TicketInv
<1>7. Growth BY StandsStill
<1>8. ServerTypes' BY <1>2, <1>3, <1>4 DEF ServerTypes, JourneyTypeOK
<1>9. RowsInv'
  <2>1. \A m \in Name : /\ RowOk(m, attempts[m], entered, backups, born)
                        /\ RowOk(m, accounts[m], entered, backups, born)
    BY DEF TablesInv, RowsInv
  <2>2. RowOk(n, r, entered, backups, born) BY <1>3 DEF RowOk
  <2> QED BY <2>1, <2>2, <1>5 DEF RowsInv
<1>10. TicketInv'
  <2>1. ASSUME NEW v \in Ticket, v # t
        PROVE  /\ \A m \in Name : Has(attempts[m], v)' => Has(attempts[m], v)
               /\ \A m \in Name : Has(accounts[m], v)' = Has(accounts[m], v)
               /\ uses'[v] = uses[v]
    BY <2>1, <1>3, <1>5 DEF Has
  <2>2. \A m \in Name : /\ Has(attempts[m], t)' => m = n
                        /\ ~Has(accounts[m], t)'
    BY <1>5, <1>6 DEF Has
  <2>3. ASSUME NEW v \in Ticket
        PROVE  /\ \A m \in Name : Has(attempts[m], v)' \/ Has(accounts[m], v)' => uses'[v] = 0
               /\ \A l, m \in Name : Has(attempts[l], v)' /\ Has(attempts[m], v)' => l = m
               /\ \A l, m \in Name : Has(accounts[l], v)' /\ Has(accounts[m], v)' => l = m
               /\ \A l, m \in Name : ~(Has(attempts[l], v)' /\ Has(accounts[m], v)')
    <3>1. CASE v = t BY <3>1, <2>2, <1>5
    <3>2. CASE v # t BY <3>2, <2>1 DEF TablesInv, TicketInv
    <3> QED BY <3>1, <3>2
  <2> QED BY <2>3 DEF TicketInv
<1>11. t \in InviteTicket => grants[t] # Nobody
  BY <1>1 DEF TablesInv, GrantInv
<1>12. GrantInv'
  BY <1>3, <1>5, <1>11, JourneyAssumption DEF TablesInv, GrantInv, Has
<1>13. PaidInv'
  <2>1. t \in InviteTicket => u = grants[t] BY <1>11 DEF CanUse, OwnerOf
  <2>2. ASSUME NEW v \in InviteTicket
        PROVE  /\ paidBy'[v] \subseteq {grants[v]}
               /\ grants[v] = Nobody => paidBy'[v] = {}
               /\ \A m \in Name : Has(attempts[m], v)' \/ Has(accounts[m], v)' => paidBy'[v] # {}
    <3>1. CASE v = t BY <3>1, <2>1, <1>11 DEF TablesInv, PaidInv
    <3>2. CASE v # t BY <3>2, <1>3, <1>5 DEF TablesInv, PaidInv, Has
    <3> QED BY <3>1, <3>2
  <2> QED BY <2>2 DEF PaidInv
<1> QED BY <1>7, <1>8, <1>9, <1>10, <1>12, <1>13

LEMMA IssueStep ==
  ASSUME JourneyInv, NEW u \in Identity, NEW t \in InviteTicket, Issue(u, t)
  PROVE  JourneyInv'
<1>0. JourneyTypeOK /\ CallsInv /\ WaitInv /\ BrowserInv /\ TablesInv BY DEF JourneyInv
<1>1. Growth BY StandsStill DEF Issue, historyVars
<1>2. t \in Ticket /\ u # Nobody BY JourneyAssumption, InviteAssumption
<1>3. grants' = [grants EXCEPT ![t] = u] /\ uses' = [uses EXCEPT ![t] = 1]
      /\ grants[t] = Nobody /\ \A v \in InviteTicket : grants[v] # u
  BY DEF Issue, IssueInviteGrant
<1>4. /\ grants'[t] = u /\ \A v \in InviteTicket \ {t} : grants'[v] = grants[v]
      /\ uses'[t] = 1 /\ \A v \in Ticket \ {t} : uses'[v] = uses[v]
  BY <1>0, <1>2, <1>3 DEF JourneyTypeOK, InviteTypeOK
<1>5. \A n \in Name : ~Has(attempts[n], t) /\ ~Has(accounts[n], t)
  BY <1>0, <1>3 DEF TablesInv, GrantInv
<1>6. JourneyTypeOK'
  <2>1. uses' \in [Ticket -> 0..1] BY <1>0, <1>2, <1>3 DEF JourneyTypeOK
  <2>2. InviteTypeOK' BY <1>0, <1>3 DEF JourneyTypeOK, InviteTypeOK
  <2> QED BY <1>0, <2>1, <2>2 DEF JourneyTypeOK, Issue, pageVars, historyVars
<1>7. CallsInv' BY <1>0, <1>1, SameCalls DEF Issue
<1>8. WaitInv' BY <1>0 DEF Issue, pageVars, WaitInv
<1>9. BrowserInv' BY <1>0, <1>1, SameJar, StayStep DEF Issue, pageVars
<1>10. RowsInv' BY <1>0, <1>1, Keeps DEF Issue, TablesInv, RowsInv
<1>11. TicketInv'
  BY <1>0, <1>4, <1>5 DEF Issue, TablesInv, TicketInv, Has
<1>12. GrantInv'
  BY <1>0, <1>2, <1>3, <1>4, JourneyAssumption DEF Issue, TablesInv, GrantInv, Has
<1>13. HeldInv' BY <1>0 DEF TablesInv, HeldInv, Issue, Phase, SameAttempt
<1>14. PaidInv'
  BY <1>0, <1>2, <1>3, <1>4 DEF Issue, TablesInv, PaidInv, Has, historyVars
<1> QED BY <1>6, <1>7, <1>8, <1>9, <1>10, <1>11, <1>12, <1>13, <1>14 DEF JourneyInv, TablesInv

(* Closing an attempt: what the calls at work hold besides stays theirs.    *)
LEMMA ClosedHeld ==
  ASSUME JourneyTypeOK, TablesInv, NEW n \in Name, Complete(n) \/ RollBack(n), UNCHANGED calls
  PROVE  HeldInv'
<1>1. /\ attempts'[n].by \notin Call
      /\ \A m \in Name \ {n} : attempts'[m] = attempts[m]
  BY JourneyAssumption DEF Complete, RollBack, JourneyTypeOK, NoAttempt
<1> QED BY <1>1 DEF TablesInv, HeldInv, Phase, SameAttempt

LEMMA ReconcileStep ==
  ASSUME JourneyInv, NEW n \in Name, Reconcile(n)
  PROVE  JourneyInv'
<1>0. JourneyTypeOK /\ CallsInv /\ WaitInv /\ BrowserInv /\ TablesInv BY DEF JourneyInv
<1>1. Growth /\ ServerTypes' /\ RowsInv' /\ TicketInv' /\ GrantInv' /\ PaidInv'
  BY <1>0, CompleteTables, RollBackTables DEF Reconcile
<1>2. JourneyTypeOK'
  BY <1>0, <1>1 DEF Reconcile, JourneyTypeOK, ServerTypes, pageVars, historyVars, InviteTypeOK
<1>3. CallsInv' BY <1>0, <1>1, SameCalls DEF Reconcile
<1>4. WaitInv' BY <1>0 DEF Reconcile, pageVars, WaitInv
<1>5. BrowserInv' BY <1>0, <1>1, SameJar, StayStep DEF Reconcile, pageVars
<1>6. HeldInv' BY <1>0, ClosedHeld DEF Reconcile
<1> QED BY <1>1, <1>2, <1>3, <1>4, <1>5, <1>6 DEF JourneyInv, TablesInv

(* The call is served, the tables are kept.                                 *)
LEMMA ServedStep ==
  ASSUME JourneyInv, NEW c \in Call, NEW working \in BOOLEAN, Served(c, working),
         ServerTypes', RowsInv', TicketInv', GrantInv', PaidInv',
         \A m \in Name : attempts'[m].by = c =>
           /\ working /\ calls[c].name = m
           /\ attempts'[m].ticket = calls[c].jar.ticket /\ attempts'[m].keys = calls[c].keys,
         \A m \in Name : attempts'[m] = attempts[m] \/ attempts'[m].by \in {c, NoCall},
         UNCHANGED << pageVars, setbacks, born, backups, entered, grants >>
  PROVE  JourneyInv'
<1>1. JourneyTypeOK'
  BY DEF JourneyInv, Served, JourneyTypeOK, ServerTypes, pageVars, InviteTypeOK
<1>2. ASSUME NEW m \in Name, NEW d \in Call, attempts'[m].by = d
      PROVE  Phase(d, "working")' /\ calls'[d].name = m /\ SameAttempt(calls[d])'
  <2>1. CASE d = c BY <2>1, <1>2 DEF Served, Phase, SameAttempt
  <2>2. CASE d # c
    <3>1. attempts'[m] = attempts[m] /\ calls'[d] = calls[d]
      BY <2>2, <1>2, JourneyAssumption DEF Served
    <3>2. Phase(d, "working") /\ calls[d].name = m /\ SameAttempt(calls[d])
      BY <3>1, <1>2 DEF JourneyInv, TablesInv, HeldInv
    <3> QED BY <3>1, <3>2 DEF Phase, SameAttempt
  <2> QED BY <2>1, <2>2
<1>3. HeldInv' BY <1>2 DEF HeldInv
<1> QED BY <1>1, <1>3 DEF JourneyInv, Served, TablesInv

LEMMA TablesStand ==
  ASSUME JourneyInv, UNCHANGED << serverVars, historyVars, grants >>
  PROVE  Growth /\ ServerTypes' /\ RowsInv' /\ TicketInv' /\ GrantInv' /\ PaidInv'
<1>1. Growth BY StandsStill DEF serverVars, historyVars
<1>2. ServerTypes' BY DEF ServerTypes, JourneyInv, JourneyTypeOK, serverVars, historyVars
<1>3. RowsInv' BY DEF RowsInv, JourneyInv, TablesInv, serverVars, historyVars
<1>4. TicketInv' /\ GrantInv' /\ PaidInv'
  BY DEF TicketInv, GrantInv, PaidInv, JourneyInv, TablesInv, serverVars, historyVars
<1> QED BY <1>1, <1>2, <1>3, <1>4

(* A call that is not at work holds nothing.                                *)
LEMMA IdleHands ==
  ASSUME JourneyInv, NEW c \in Call, ~Phase(c, "working")
  PROVE  \A m \in Name : attempts[m].by # c
BY DEF JourneyInv, TablesInv, HeldInv

(* Without the tables, a call that is at work neither before nor after.     *)
LEMMA ReplyStep ==
  ASSUME JourneyInv, NEW c \in Call, ~Phase(c, "working"), Served(c, FALSE),
         UNCHANGED << pageVars, serverVars, setbacks, historyVars, grants >>
  PROVE  JourneyInv'
<1>1. /\ ServerTypes' /\ RowsInv' /\ TicketInv' /\ GrantInv' /\ PaidInv'
      /\ \A m \in Name : attempts[m].by # c
  BY TablesStand, IdleHands
<1>2. attempts' = attempts /\ UNCHANGED << born, backups, entered >>
  BY DEF serverVars, historyVars
<1> QED BY <1>1, <1>2, ServedStep

LEMMA HandleSessionStep ==
  ASSUME JourneyInv, NEW c \in Call, HandleSession(c)
  PROVE  JourneyInv'
<1> DEFINE ok == CanUse(calls[c].ticket, calls[c].who) /\ uses[calls[c].ticket] > 0
<1>1. calls[c] # Idle /\ calls[c].kind # "account" BY DEF HandleSession, Asks, Idle
<1>2. ok \in BOOLEAN OBVIOUS
<1>3. Answer(c, ok) BY DEF HandleSession
<1> HIDE DEF ok
<1>4. Served(c, FALSE) BY <1>1, <1>2, <1>3, TablesStand, AnswerServes DEF HandleSession, historyVars
<1>5. ~Phase(c, "working") BY DEF HandleSession, Asks, Phase
<1> QED BY <1>4, <1>5, ReplyStep DEF HandleSession

(* A refusal changes nothing but the call.                                  *)
LEMMA RefusalStep ==
  ASSUME JourneyInv, NEW c \in Call, calls[c] # Idle, ~Phase(c, "working"), Answer(c, FALSE),
         UNCHANGED << pageVars, serverVars, setbacks, historyVars, grants >>
  PROVE  JourneyInv'
<1>1. Served(c, FALSE) BY TablesStand, AnswerServes DEF historyVars
<1> QED BY <1>1, ReplyStep

LEMMA PreflightRefusesStep ==
  ASSUME JourneyInv, NEW c \in Call, PreflightRefuses(c)
  PROVE  JourneyInv'
<1>1. calls[c] # Idle /\ ~Phase(c, "working") BY DEF PreflightRefuses, Phase, Idle
<1> QED BY <1>1, RefusalStep DEF PreflightRefuses

LEMMA HandleAccountStep ==
  ASSUME JourneyInv, NEW c \in Call, HandleAccount(c)
  PROVE  JourneyInv'
<1>1. calls[c] # Idle /\ ~Phase(c, "working") /\ calls[c].kind = "account"
  BY DEF HandleAccount, Asks, Phase, Idle
<1>2. CASE ~Authorized(calls[c]) \/ ~SessionAllows(calls[c].jar, calls[c].name, calls[c].keys)
  BY <1>1, <1>2, RefusalStep DEF HandleAccount
<1>3. CASE SessionAllows(calls[c].jar, calls[c].name, calls[c].keys) /\ Authorized(calls[c])
  <2>1. CASE accounts[calls[c].name] # NoRow
    <3>1. Answer(c, OwnsRecord(calls[c])) BY <1>3, <2>1 DEF HandleAccount
    <3>2. OwnsRecord(calls[c]) \in BOOLEAN BY DEF OwnsRecord
    <3>3. OwnsRecord(calls[c]) => accounts'[calls[c].name] =
            [ticket |-> calls[c].jar.ticket, keys |-> calls[c].keys]
      BY DEF OwnsRecord, HandleAccount, serverVars
    <3>4. Served(c, FALSE)
      BY <1>1, <1>3, <3>1, <3>2, <3>3, TablesStand, AnswerServes DEF HandleAccount, historyVars
    <3> QED BY <1>1, <3>4, ReplyStep DEF HandleAccount
  <2>2. CASE accounts[calls[c].name] = NoRow /\ calls[c].jar.created
    BY <1>1, <1>3, <2>2, RefusalStep DEF HandleAccount
  <2>3. CASE accounts[calls[c].name] = NoRow /\ ~calls[c].jar.created
    <3>1. Advance(c, "checked") BY <1>3, <2>3 DEF HandleAccount
    <3>2. Served(c, FALSE)
      BY <1>1, <1>3, <3>1, TablesStand, AdvanceServes DEF HandleAccount, historyVars
    <3> QED BY <1>1, <3>2, ReplyStep DEF HandleAccount
  <2> QED BY <2>1, <2>2, <2>3
<1> QED BY <1>2, <1>3

(* After Complete or RollBack of n nobody holds n, the rest is as before.   *)
LEMMA Closed ==
  ASSUME JourneyInv, NEW n \in Name, Complete(n) \/ RollBack(n)
  PROVE  /\ attempts'[n].by = NoCall
         /\ \A m \in Name \ {n} : attempts'[m] = attempts[m]
BY DEF JourneyInv, JourneyTypeOK, Complete, RollBack, NoAttempt

LEMMA MeetCompletedAttemptStep ==
  ASSUME JourneyInv, NEW c \in Call, MeetCompletedAttempt(c)
  PROVE  JourneyInv'
<1> DEFINE n == calls[c].name
<1>0. CallsInv BY DEF JourneyInv
<1>1. calls[c] # Idle /\ Phase(c, "checked") /\ ~Phase(c, "working")
  BY DEF MeetCompletedAttempt, Phase, Idle
<1>2. calls[c].kind = "account" /\ SessionAllows(calls[c].jar, n, calls[c].keys)
  BY <1>0, <1>1 DEF CallsInv, CallOk, Phase
<1>3. accounts'[n] = [ticket |-> calls[c].jar.ticket, keys |-> calls[c].keys]
  BY DEF MeetCompletedAttempt, OwnsRecord, serverVars
<1>4. Served(c, FALSE)
  BY <1>1, <1>2, <1>3, TablesStand, AnswerServes DEF MeetCompletedAttempt, historyVars
<1> QED BY <1>1, <1>4, ReplyStep DEF MeetCompletedAttempt

LEMMA MeetOpenAttemptStep ==
  ASSUME JourneyInv, NEW c \in Call, MeetOpenAttempt(c)
  PROVE  JourneyInv'
<1> DEFINE n == calls[c].name
<1>0. JourneyTypeOK /\ CallsInv /\ WaitInv /\ BrowserInv /\ TablesInv BY DEF JourneyInv
<1>1. calls[c] # Idle /\ Phase(c, "checked") /\ ~Phase(c, "working")
  BY DEF MeetOpenAttempt, Phase, Idle
<1>2. calls[c] \in CallRow /\ n \in Name BY <1>0, <1>1, CallRowOrIdle DEF CallRow
<1>3. SessionAllows(calls[c].jar, n, calls[c].keys)
  BY <1>0, <1>1 DEF CallsInv, CallOk, Phase
<1>4. CASE Answer(c, FALSE) /\ UNCHANGED serverVars
  BY <1>1, <1>4, RefusalStep DEF MeetOpenAttempt
<1>5. CASE SameAttempt(calls[c]) /\ Complete(n) /\ Answer(c, TRUE)
  <2>1. /\ Growth /\ ServerTypes' /\ RowsInv' /\ TicketInv' /\ GrantInv' /\ PaidInv'
        /\ accounts'[n] = [ticket |-> attempts[n].ticket, keys |-> attempts[n].keys]
    BY <1>0, <1>2, <1>5, CompleteTables DEF MeetOpenAttempt
  <2>2. accounts'[n] = [ticket |-> calls[c].jar.ticket, keys |-> calls[c].keys]
    BY <2>1, <1>5 DEF SameAttempt
  <2>3. Served(c, FALSE)
    BY <1>1, <1>3, <1>5, <2>1, <2>2, AnswerServes DEF MeetOpenAttempt, historyVars
  <2>4. /\ \A m \in Name : attempts'[m].by # c
        /\ \A m \in Name : attempts'[m] = attempts[m] \/ attempts'[m].by \in {c, NoCall}
    BY <1>1, <1>2, <1>5, IdleHands, Closed, JourneyAssumption
  <2> QED BY <2>1, <2>3, <2>4, ServedStep DEF MeetOpenAttempt, historyVars
<1>6. CASE RollBack(n) /\ UNCHANGED calls
  <2>1. Growth /\ ServerTypes' /\ RowsInv' /\ TicketInv' /\ GrantInv' /\ PaidInv'
    BY <1>0, <1>2, <1>6, RollBackTables DEF MeetOpenAttempt
  <2>2. JourneyTypeOK'
    BY <1>0, <1>6, <2>1
    DEF MeetOpenAttempt, JourneyTypeOK, ServerTypes, pageVars, historyVars, InviteTypeOK
  <2>3. CallsInv' BY <1>0, <1>6, <2>1, SameCalls
  <2>4. WaitInv' BY <1>0, <1>6 DEF MeetOpenAttempt, pageVars, WaitInv
  <2>5. BrowserInv' BY <1>0, <2>1, SameJar, StayStep DEF MeetOpenAttempt, pageVars
  <2>6. HeldInv' BY <1>0, <1>2, <1>6, ClosedHeld
  <2> QED BY <2>1, <2>2, <2>3, <2>4, <2>5, <2>6 DEF JourneyInv, TablesInv
<1> QED BY <1>4, <1>5, <1>6 DEF MeetOpenAttempt

LEMMA ReserveTicketStep ==
  ASSUME JourneyInv, NEW c \in Call, ReserveTicket(c)
  PROVE  JourneyInv'
<1> DEFINE n == calls[c].name
           t == calls[c].jar.ticket
           k == calls[c].keys
<1>0. JourneyTypeOK /\ CallsInv /\ WaitInv /\ BrowserInv /\ TablesInv BY DEF JourneyInv
<1>1. calls[c] # Idle /\ Phase(c, "checked") /\ ~Phase(c, "working")
  BY DEF ReserveTicket, Phase, Idle
<1>2. calls[c] \in CallRow /\ n \in Name /\ calls[c].jar \in Session \cup {NoSession}
  BY <1>0, <1>1, CallRowOrIdle DEF CallRow
<1>3. /\ calls[c].kind = "account" /\ SessionAllows(calls[c].jar, n, k)
      /\ k \in Keys /\ born[k] = n /\ k \in backups /\ JarOk(calls[c].jar, entered, accounts)
  BY <1>0, <1>1 DEF CallsInv, CallOk, Phase
<1>4. t \in Ticket /\ << n, t >> \in entered
  BY <1>2, <1>3 DEF SessionAllows, JarOk, Session
<1>5. CASE ~(uses[t] > 0 /\ CanUse(t, calls[c].who))
  BY <1>1, <1>5, RefusalStep DEF ReserveTicket, serverVars, historyVars
<1>6. CASE uses[t] > 0 /\ CanUse(t, calls[c].who)
  <2> DEFINE r == [ticket |-> t, keys |-> k, by |-> c]
  <2>1. /\ attempts[n] = NoAttempt
        /\ attempts' = [attempts EXCEPT ![n] = r]
        /\ uses' = [uses EXCEPT ![t] = @ - 1]
        /\ Advance(c, "working")
        /\ paidBy' = [v \in InviteTicket |->
                       paidBy[v] \cup IF v = t THEN {calls[c].who} ELSE {}]
        /\ UNCHANGED << pageVars, accounts, setbacks, born, backups, entered, grants >>
    BY <1>6 DEF ReserveTicket, Opened
  <2>2. Growth /\ ServerTypes' /\ RowsInv' /\ TicketInv' /\ GrantInv' /\ PaidInv'
    <3>1. n \in Name /\ t \in Ticket /\ k \in Keys /\ calls[c].who \in Visitor
      BY <1>2, <1>3, <1>4 DEF CallRow
    <3>2. /\ CanUse(t, calls[c].who) /\ uses[t] > 0
          /\ k \in backups /\ born[k] = n /\ << n, t >> \in entered
      BY <1>3, <1>4, <1>6
    <3> HIDE DEF n, t, k
    <3> QED BY <1>0, <2>1, <3>1, <3>2, OpenTables
  <2>3. Served(c, TRUE) BY <1>1, <1>3, <2>1, <2>2, AdvanceServes DEF historyVars
  <2>4. r.by = c /\ r.ticket = t /\ r.keys = k OBVIOUS
  <2> HIDE DEF r
  <2>5. attempts'[n] = r /\ \A m \in Name \ {n} : attempts'[m] = attempts[m]
    BY <1>0, <1>2, <2>1 DEF JourneyTypeOK
  <2>6. \A m \in Name : attempts'[m].by = c => m = n
    BY <1>1, <2>5, IdleHands
  <2>7. \A m \in Name : attempts'[m].by = c =>
          /\ n = m /\ attempts'[m].ticket = t /\ attempts'[m].keys = k
    BY <2>4, <2>5, <2>6
  <2>8. \A m \in Name : attempts'[m] = attempts[m] \/ attempts'[m].by \in {c, NoCall}
    BY <2>4, <2>5
  <2>9. UNCHANGED << pageVars, setbacks, born, backups, entered, grants >> BY <2>1
  <2> QED BY <2>2, <2>3, <2>7, <2>8, <2>9, ServedStep
<1> QED BY <1>5, <1>6

LEMMA ConcludeStep ==
  ASSUME JourneyInv, NEW c \in Call, Conclude(c)
  PROVE  JourneyInv'
<1> DEFINE n == calls[c].name
           mine == attempts[n].by = c
<1>0. JourneyTypeOK /\ CallsInv /\ WaitInv /\ BrowserInv /\ TablesInv BY DEF JourneyInv
<1>1. calls[c] # Idle /\ Phase(c, "working") BY DEF Conclude, Phase, Idle
<1>2. calls[c] \in CallRow /\ n \in Name BY <1>0, <1>1, CallRowOrIdle DEF CallRow
<1>3. SessionAllows(calls[c].jar, n, calls[c].keys)
  BY <1>0, <1>1 DEF CallsInv, CallOk, Phase
<1>4. mine => attempts[n] # NoAttempt BY JourneyAssumption DEF NoAttempt
<1>5. \A m \in Name : attempts[m].by = c => m = n
  BY <1>0 DEF TablesInv, HeldInv
<1>6. ASSUME mine, Complete(n) \/ RollBack(n)
      PROVE  /\ \A m \in Name : attempts'[m].by # c
             /\ \A m \in Name : attempts'[m] = attempts[m] \/ attempts'[m].by \in {c, NoCall}
  BY <1>2, <1>5, <1>6, Closed, JourneyAssumption
<1>7. CASE mine /\ Complete(n) /\ Answer(c, TRUE)
  <2>1. /\ Growth /\ ServerTypes' /\ RowsInv' /\ TicketInv' /\ GrantInv' /\ PaidInv'
        /\ accounts'[n] = [ticket |-> attempts[n].ticket, keys |-> attempts[n].keys]
    BY <1>0, <1>2, <1>4, <1>7, CompleteTables DEF Conclude
  <2>2. attempts[n].ticket = calls[c].jar.ticket /\ attempts[n].keys = calls[c].keys
    BY <1>0, <1>2, <1>7 DEF TablesInv, HeldInv, SameAttempt
  <2>3. accounts'[n] = [ticket |-> calls[c].jar.ticket, keys |-> calls[c].keys]
    BY <2>1, <2>2
  <2>4. Served(c, FALSE)
    BY <1>1, <1>3, <1>7, <2>1, <2>3, AnswerServes DEF Conclude, historyVars
  <2> QED BY <1>6, <1>7, <2>1, <2>4, ServedStep DEF Conclude, historyVars
<1>8. CASE mine /\ RollBack(n) /\ Answer(c, FALSE)
  <2>1. Growth /\ ServerTypes' /\ RowsInv' /\ TicketInv' /\ GrantInv' /\ PaidInv'
    BY <1>0, <1>2, <1>4, <1>8, RollBackTables DEF Conclude
  <2>2. Served(c, FALSE) BY <1>1, <1>8, <2>1, AnswerServes DEF Conclude, historyVars
  <2> QED BY <1>6, <1>8, <2>1, <2>2, ServedStep DEF Conclude, historyVars
<1>9. CASE ~mine /\ OwnsRecord(calls[c]) /\ Answer(c, TRUE) /\ UNCHANGED serverVars
  <2>1. accounts'[n] = [ticket |-> calls[c].jar.ticket, keys |-> calls[c].keys]
    BY <1>9 DEF OwnsRecord, serverVars
  <2>2. Served(c, FALSE) BY <1>1, <1>3, <1>9, <2>1, TablesStand, AnswerServes DEF Conclude, historyVars
  <2>3. \A m \in Name : attempts'[m] = attempts[m] /\ attempts'[m].by # c
    BY <1>5, <1>9 DEF serverVars
  <2> QED BY <1>9, <2>2, <2>3, TablesStand, ServedStep DEF Conclude, historyVars
<1>10. CASE /\ Answer(c, FALSE)
            /\ attempts' = IF mine THEN [attempts EXCEPT ![n].by = NoCall] ELSE attempts
            /\ UNCHANGED << uses, accounts >>
  <2>1. CASE ~mine
    <3>1. UNCHANGED serverVars BY <1>10, <2>1 DEF serverVars
    <3>2. Served(c, FALSE) BY <1>1, <1>10, <3>1, TablesStand, AnswerServes DEF Conclude, historyVars
    <3>3. \A m \in Name : attempts'[m] = attempts[m] /\ attempts'[m].by # c
      BY <1>5, <2>1, <3>1 DEF serverVars
    <3> QED BY <3>1, <3>2, <3>3, TablesStand, ServedStep DEF Conclude, historyVars
  <2>2. CASE mine
    <3> DEFINE r == [attempts[n] EXCEPT !.by = NoCall]
    <3>1. attempts[n] \in AttemptRow BY <1>0, <1>2, <1>4, <2>2 DEF JourneyTypeOK
    <3>2. /\ r \in AttemptRow /\ r.ticket = attempts[n].ticket /\ r.keys = attempts[n].keys
          /\ r.by = NoCall
      BY <3>1 DEF AttemptRow
    <3>3. attempts' = [attempts EXCEPT ![n] = r]
      BY <1>0, <1>2, <1>10, <2>2 DEF JourneyTypeOK
    <3> HIDE DEF r
    <3>4. attempts'[n] = r /\ \A m \in Name \ {n} : attempts'[m] = attempts[m]
      BY <1>0, <1>2, <3>3 DEF JourneyTypeOK
    <3>5. Growth BY <1>10, StandsStill DEF Conclude, historyVars
    <3>6. ServerTypes'
      BY <1>0, <1>10, <3>2, <3>3 DEF ServerTypes, JourneyTypeOK, Conclude, historyVars
    <3>7. \A m \in Name : attempts'[m].ticket = attempts[m].ticket
                          /\ attempts'[m].keys = attempts[m].keys
      BY <3>2, <3>4
    <3>8. RowsInv' BY <1>0, <1>10, <3>7 DEF TablesInv, RowsInv, RowOk, Conclude, historyVars
    <3>9. TicketInv' BY <1>0, <1>10, <3>7 DEF TablesInv, TicketInv, Has
    <3>10. GrantInv' /\ PaidInv'
      BY <1>0, <1>10, <3>7 DEF TablesInv, GrantInv, PaidInv, Has, Conclude, historyVars
    <3>11. Served(c, FALSE) BY <1>1, <1>10, <3>5, AnswerServes DEF Conclude, historyVars
    <3>12. /\ \A m \in Name : attempts'[m].by # c
           /\ \A m \in Name : attempts'[m] = attempts[m] \/ attempts'[m].by \in {c, NoCall}
      BY <1>5, <3>2, <3>4, JourneyAssumption
    <3> QED BY <3>6, <3>8, <3>9, <3>10, <3>11, <3>12, ServedStep DEF Conclude, historyVars
  <2> QED BY <2>1, <2>2
<1> QED BY <1>7, <1>8, <1>9, <1>10 DEF Conclude

------------------------------------------------------------------------------
(* The answers reach the browser.                                           *)

LEMMA CookieStep ==
  ASSUME JourneyInv, NEW c \in Call, NEW kinds \in SUBSET CallKind, NEW ok \in BOOLEAN,
         Arrives(c, kinds, ok)
  PROVE  /\ Growth /\ calls[c] # Idle /\ calls[c] \in CallRow /\ calls[c].tab \in Tab \cup {NoTab}
         /\ CallOk(calls[c], entered', backups', born', accounts')
         /\ AtPage(calls[c], tabs) /\ ~Phase(c, "working")
         /\ calls[c].tab \in Tab => \A d \in Call \ {c} : calls[d].tab # calls[c].tab
         /\ jar' \in Session \cup {NoSession}
         /\ JarOk(jar', entered', accounts')
<1> DEFINE q == calls[c]
<1>0. JourneyTypeOK /\ CallsInv /\ WaitInv /\ BrowserInv /\ TablesInv BY DEF JourneyInv
<1>1. Growth BY StandsStill DEF Arrives, serverVars, historyVars
<1>2. q # Idle BY DEF Arrives, Idle, CallKind
<1>3. q \in CallRow /\ q.tab \in Tab \cup {NoTab}
  BY <1>0, <1>2, CallRowOrIdle DEF Arrives, CallRow
<1>4. CallOk(q, entered, backups, born, accounts) /\ AtPage(q, tabs)
  BY <1>0, <1>2 DEF CallsInv, WaitInv
<1>5. ~Phase(c, "working") BY <1>4 DEF CallOk, Phase, Arrives, HasAnswer
<1>6. q.tab \in Tab => \A d \in Call \ {c} : calls[d].tab # q.tab BY <1>0, OnlyThisCall
<1>7. JarOk(jar, entered, accounts) /\ jar \in Session \cup {NoSession}
  BY <1>0 DEF BrowserInv, JourneyTypeOK
<1>8. ok => CookieOf(q) \in Session /\ JarOk(CookieOf(q), entered, accounts)
  <2> SUFFICES ASSUME ok PROVE CookieOf(q) \in Session /\ JarOk(CookieOf(q), entered, accounts)
    OBVIOUS
  <2>1. CASE q.kind \in {"session", "recovery"}
    <3>1. CookieOf(q) = PostSession(q.jar, q.name, q.ticket) BY <2>1 DEF CookieOf
    <3>2. q.ticket \in Ticket /\ << q.name, q.ticket >> \in entered /\ q.name \in Name
          /\ JarOk(q.jar, entered, accounts) /\ q.jar \in Session \cup {NoSession}
      BY <2>1, <1>3, <1>4 DEF CallOk, CallRow
    <3> DEFINE f == FreshSession(q.name, q.ticket)
    <3>3. f \in Session /\ f.name = q.name /\ f.ticket = q.ticket /\ ~f.created
      BY <3>2 DEF FreshSession, Session, Intent, IntentOf
    <3> HIDE DEF f
    <3>4. JarOk(f, entered, accounts) BY <3>2, <3>3 DEF JarOk
    <3>5. CASE q.jar # NoSession /\ q.jar.name = q.name /\ q.jar.ticket = q.ticket
      <4>1. CookieOf(q) = q.jar BY <3>1, <3>5 DEF PostSession
      <4> QED BY <3>2, <3>5, <4>1
    <3>6. CASE ~(q.jar # NoSession /\ q.jar.name = q.name /\ q.jar.ticket = q.ticket)
      <4>1. CookieOf(q) = f BY <3>1, <3>6 DEF PostSession, f
      <4> QED BY <3>3, <3>4, <4>1
    <3> QED BY <3>5, <3>6
  <2>2. CASE q.kind \in {"keys", "resend"}
    <3>1. CookieOf(q) = ConfirmKeys(q.jar, q.keys) BY <2>2 DEF CookieOf
    <3>2. q.jar \in Session BY <2>2, <1>3 DEF Arrives, Succeeds, CallRow
    <3>3. q.keys \in Keys /\ JarOk(q.jar, entered, accounts) BY <2>2, <1>4 DEF CallOk
    <3> DEFINE s == ConfirmKeys(q.jar, q.keys)
    <3>4. s \in Session /\ s.name = q.jar.name /\ s.ticket = q.jar.ticket
          /\ s.created = q.jar.created
      BY <3>2, <3>3 DEF ConfirmKeys, Session, Intent, IntentOf
    <3>5. q.jar # NoSession BY <2>2 DEF Arrives, Succeeds
    <3> HIDE DEF s
    <3>6. JarOk(s, entered, accounts) BY <3>3, <3>4, <3>5 DEF JarOk
    <3> QED BY <3>1, <3>4, <3>6 DEF s
  <2>3. CASE q.kind = "account"
    <3>1. CookieOf(q) = Finalize(q.jar) BY <2>3 DEF CookieOf
    <3>2. q.ok /\ q.phase = "answered" BY <2>3 DEF Arrives, Succeeds, HasAnswer
    <3>3. /\ SessionAllows(q.jar, q.name, q.keys) /\ q.keys \in Keys
          /\ accounts[q.name] = [ticket |-> q.jar.ticket, keys |-> q.keys]
          /\ JarOk(q.jar, entered, accounts)
      BY <2>3, <3>2, <1>4 DEF CallOk
    <3>4. q.jar \in Session /\ q.jar # NoSession /\ q.jar.name = q.name
      BY <3>3, <1>3 DEF SessionAllows, CallRow
    <3> DEFINE s == Finalize(q.jar)
    <3>5. s \in Session /\ s.name = q.jar.name /\ s.ticket = q.jar.ticket
      BY <3>4 DEF Finalize, Session
    <3> HIDE DEF s
    <3>6. accounts[q.name] # NoRow /\ accounts[q.name].ticket = q.jar.ticket
      BY <3>3, SessionAssumption DEF NoRow
    <3>7. JarOk(s, entered, accounts) BY <3>3, <3>4, <3>5, <3>6 DEF JarOk
    <3> QED BY <3>1, <3>5, <3>7 DEF s
  <2> QED BY <2>1, <2>2, <2>3, <1>3 DEF CallRow, CallKind
<1>9. jar' \in Session \cup {NoSession} /\ JarOk(jar', entered, accounts)
  BY <1>7, <1>8 DEF Arrives
<1>10. JarOk(jar', entered', accounts') BY <1>1, <1>9, <1>0, Keeps
<1>11. CallOk(q, entered', backups', born', accounts') BY <1>0, <1>1, <1>3, <1>4, Keeps
<1> QED BY <1>1, <1>2, <1>3, <1>4, <1>5, <1>6, <1>9, <1>10, <1>11

(* An answer has arrived at its page: its call is r afterwards, its page p. *)
LEMMA ArrivalStep ==
  ASSUME JourneyInv, NEW c \in Call, NEW kinds \in SUBSET CallKind, NEW ok \in BOOLEAN,
         Arrives(c, kinds, ok), calls[c].tab \in Tab,
         NEW r, calls' = [calls EXCEPT ![c] = r], r.phase # "working",
         r # Idle => /\ r \in CallRow /\ r.tab = calls[c].tab /\ AtPage(r, tabs')
                     /\ CallOk(r, entered', backups', born', accounts'),
         r.tab \in {NoTab, calls[c].tab},
         NEW p \in PageRow, tabs' = [tabs EXCEPT ![calls[c].tab] = p],
         PageOk(p, entered', backups', born', accounts')
  PROVE  JourneyInv'
<1>0. JourneyTypeOK /\ CallsInv /\ WaitInv /\ BrowserInv /\ TablesInv BY DEF JourneyInv
<1>1. /\ Growth /\ ~Phase(c, "working")
      /\ \A d \in Call \ {c} : calls[d].tab # calls[c].tab
      /\ jar' \in Session \cup {NoSession} /\ JarOk(jar', entered', accounts')
  BY CookieStep
<1>2. CallsInv' /\ calls' \in [Call -> CallRow \cup {Idle}] BY <1>0, <1>1, OneCall
<1>3. BrowserInv' /\ tabs' \in [Tab -> PageRow]
  BY <1>0, <1>1, TurnStep DEF Arrives
<1>4. JourneyTypeOK'
  BY <1>0, <1>1, <1>2, <1>3
  DEF Arrives, JourneyTypeOK, serverVars, historyVars, InviteTypeOK
<1>5. WaitInv'
  <2>1. \A x \in Tab \ {calls[c].tab} : tabs'[x] = tabs[x] BY <1>0 DEF JourneyTypeOK
  <2> QED BY <1>0, <1>1, <2>1, WaitStep
<1>6. TablesInv'
  <2>1. QuietCalls BY <1>0, <1>1 DEF QuietCalls, Phase, JourneyTypeOK
  <2> QED BY <1>0, <1>1, <2>1, QuietTables DEF Arrives, historyVars
<1> QED BY <1>2, <1>3, <1>4, <1>5, <1>6 DEF JourneyInv

(* The same, when the page was left behind: only the cookie changes.        *)
LEMMA LateArrivalStep ==
  ASSUME JourneyInv, NEW c \in Call, NEW kinds \in SUBSET CallKind, NEW ok \in BOOLEAN,
         Arrives(c, kinds, ok), Done(c), UNCHANGED tabs
  PROVE  JourneyInv'
<1>0. JourneyTypeOK /\ CallsInv /\ WaitInv /\ BrowserInv /\ TablesInv BY DEF JourneyInv
<1>1. /\ Growth /\ ~Phase(c, "working")
      /\ jar' \in Session \cup {NoSession} /\ JarOk(jar', entered', accounts')
  BY CookieStep
<1>2. calls' = [calls EXCEPT ![c] = Idle] BY DEF Done
<1>3. CallsInv' /\ calls' \in [Call -> CallRow \cup {Idle}] BY <1>0, <1>1, <1>2, OneCall
<1>4. BrowserInv' BY <1>0, <1>1, StayStep DEF Arrives
<1>5. JourneyTypeOK'
  BY <1>0, <1>1, <1>3 DEF Arrives, JourneyTypeOK, serverVars, historyVars, InviteTypeOK
<1>6. WaitInv'
  <2>1. Idle.tab = NoTab BY DEF Idle
  <2> QED BY <1>0, <1>2, <2>1, WaitStep, JourneyAssumption
<1>7. TablesInv'
  <2>1. Idle.phase # "working" BY DEF Idle
  <2>2. QuietCalls BY <1>0, <1>1, <1>2, <2>1 DEF QuietCalls, Phase, JourneyTypeOK
  <2> QED BY <1>0, <1>1, <2>2, QuietTables DEF Arrives, historyVars
<1> QED BY <1>3, <1>4, <1>5, <1>6, <1>7 DEF JourneyInv

LEMMA SessionArrivesStep ==
  ASSUME JourneyInv, NEW c \in Call, SessionArrives(c)
  PROVE  JourneyInv'
<1> DEFINE p == [FormPage EXCEPT !.page = "opening", !.name = calls[c].name]
<1>1. Arrives(c, {"session"}, TRUE) /\ {"session"} \in SUBSET CallKind
  BY DEF SessionArrives, CallKind
<1>2. calls[c].name \in Name /\ calls[c].tab \in Tab
  BY <1>1, CookieStep DEF CallRow, Arrives, AtPage
<1>3. p \in PageRow /\ PageOk(p, entered', backups', born', accounts') BY <1>2, NamedPage
<1>4. tabs' = [tabs EXCEPT ![calls[c].tab] = p] /\ calls' = [calls EXCEPT ![c] = Idle]
  BY DEF SessionArrives, Turn, Done
<1>5. Idle.phase # "working" /\ Idle.tab = NoTab BY DEF Idle
<1> HIDE DEF p
<1> QED BY <1>1, <1>2, <1>3, <1>4, <1>5, ArrivalStep

LEMMA AccountArrivesStep ==
  ASSUME JourneyInv, NEW c \in Call, AccountArrives(c)
  PROVE  JourneyInv'
<1> DEFINE p == [FormPage EXCEPT !.page = "leaving", !.name = calls[c].name]
<1>1. Arrives(c, {"account"}, TRUE) /\ {"account"} \in SUBSET CallKind
  BY DEF AccountArrives, CallKind
<1>2. calls[c].name \in Name BY <1>1, CookieStep DEF CallRow
<1>3. p \in PageRow /\ PageOk(p, entered', backups', born', accounts') BY <1>2, NamedPage
<1>4. calls' = [calls EXCEPT ![c] = Idle] BY DEF AccountArrives, Done
<1>5. Idle.phase # "working" /\ Idle.tab = NoTab BY DEF Idle
<1>6. CASE calls[c].tab = NoTab
  BY <1>1, <1>6, LateArrivalStep DEF AccountArrives, TurnAsker
<1>7. CASE calls[c].tab # NoTab
  <2>1. calls[c].tab \in Tab BY <1>1, <1>7, CookieStep
  <2>2. tabs' = [tabs EXCEPT ![calls[c].tab] = p]
    BY <1>7 DEF AccountArrives, TurnAsker, Turn
  <2> HIDE DEF p
  <2> QED BY <1>1, <1>3, <1>4, <1>5, <2>1, <2>2, ArrivalStep
<1> QED BY <1>6, <1>7

LEMMA KeysArriveStep ==
  ASSUME JourneyInv, NEW c \in Call, KeysArrive(c)
  PROVE  JourneyInv'
<1> DEFINE b == calls[c].tab
           p == [tabs[b] EXCEPT !.confirmed = TRUE]
<1>1. Arrives(c, {"keys", "resend"}, TRUE) /\ {"keys", "resend"} \in SUBSET CallKind
  BY DEF KeysArrive, CallKind
<1>0. CASE b = NoTab BY <1>0, <1>1, LateArrivalStep DEF KeysArrive, TurnAsker
<1>. SUFFICES ASSUME b # NoTab PROVE JourneyInv' BY <1>0
<1>2. b \in Tab /\ Growth BY <1>1, CookieStep
<1>3. tabs[b] \in PageRow /\ PageOk(tabs[b], entered', backups', born', accounts')
  BY <1>2, Keeps DEF JourneyInv, JourneyTypeOK, BrowserInv
<1>4. /\ p \in PageRow /\ p.page = tabs[b].page /\ p.name = tabs[b].name
      /\ p.ticket = tabs[b].ticket /\ p.keys = tabs[b].keys /\ p.saved = tabs[b].saved
  BY <1>3 DEF PageRow
<1>5. tabs' = [tabs EXCEPT ![b] = p] /\ calls' = [calls EXCEPT ![c] = Idle]
  BY DEF KeysArrive, Done, TurnAsker, Turn
<1>6. Idle.phase # "working" /\ Idle.tab = NoTab BY DEF Idle
<1> HIDE DEF p
<1>7. PageOk(p, entered', backups', born', accounts') BY <1>3, <1>4 DEF PageOk
<1> QED BY <1>1, <1>2, <1>4, <1>5, <1>6, <1>7, ArrivalStep

LEMMA FailureArrivesStep ==
  ASSUME JourneyInv, NEW c \in Call, FailureArrives(c)
  PROVE  JourneyInv'
<1>1. PICK kinds \in SUBSET CallKind : Arrives(c, kinds, FALSE) BY DEF FailureArrives
<1>2. calls[c] # Idle /\ ~Phase(c, "working") BY <1>1, CookieStep
<1>3. jar' = jar /\ tabs' = tabs /\ calls' = [calls EXCEPT ![c] = Idle]
      /\ UNCHANGED << pageVars, serverVars, historyVars, grants >> /\ setbacks' = setbacks
  BY DEF FailureArrives, Arrives, Done, pageVars
<1>4. setbacks' \in 0..MaxSetbacks BY <1>3 DEF JourneyInv, JourneyTypeOK
<1> QED BY <1>2, <1>3, <1>4, DropStep

LEMMA RecoverStep ==
  ASSUME JourneyInv, NEW c \in Call, NEW u \in Visitor, Recover(c, u)
  PROVE  JourneyInv'
<1> DEFINE q == calls[c]
           b == calls[c].tab
<1>0. JourneyTypeOK /\ BrowserInv BY DEF JourneyInv
<1>1. PICK kind \in {"keys", "recovery"}, ok \in BOOLEAN : Arrives(c, {kind}, ok)
  BY DEF Recover
<1>2. {kind} \in SUBSET CallKind BY DEF CallKind
<1>3. q.kind = kind BY <1>1 DEF Arrives
<1>4. /\ Growth /\ q \in CallRow /\ b \in Tab
      /\ CallOk(q, entered', backups', born', accounts') /\ AtPage(q, tabs)
      /\ jar' \in Session \cup {NoSession} /\ JarOk(jar', entered', accounts')
  BY <1>1, <1>2, CookieStep DEF Recover
<1>5. tabs[b] \in PageRow /\ PageOk(tabs[b], entered', backups', born', accounts')
  BY <1>0, <1>4, Keeps DEF JourneyTypeOK, BrowserInv
<1>6. tabs[b].page = "details" /\ tabs[b].name = q.name /\ tabs[b].keys = q.keys
  BY <1>3, <1>4, JourneyAssumption DEF AtPage
<1>7. /\ q.name \in Name /\ q.keys \in Keys /\ born'[q.keys] = q.name
      /\ tabs[b].ticket \in Ticket /\ << q.name, tabs[b].ticket >> \in entered'
  BY <1>3, <1>4, <1>5, <1>6 DEF CallOk, PageOk
<1>8. tabs' = tabs BY DEF Recover
<1>9. tabs' = [tabs EXCEPT ![b] = tabs[b]] BY <1>0, <1>4, <1>8 DEF JourneyTypeOK
<1>10. PICK k2 \in {"recovery", "resend"}, t \in Ticket \cup {NoTicket}, w \in Visitor :
         /\ calls' = [calls EXCEPT ![c] = Request(b, k2, q.name, t, q.keys, jar', w)]
         /\ k2 = "recovery" => t = tabs[b].ticket
  <2>1. SignedIn(tabs[b].ticket, u) \in Visitor /\ Nobody \in Visitor
    BY DEF SignedIn, Visitor
  <2> QED BY <1>7, <2>1 DEF Recover
<1> DEFINE r == Request(b, k2, q.name, t, q.keys, jar', w)
<1>11. /\ r \in CallRow /\ r.tab = b /\ r.kind = k2 /\ r.name = q.name /\ r.ticket = t
       /\ r.keys = q.keys /\ r.jar = jar' /\ r.phase = "sent"
  BY <1>4, <1>7, <1>10 DEF Request, CallRow, CallKind, Visitor
<1>12. calls' = [calls EXCEPT ![c] = r] BY <1>10
<1> HIDE DEF r
<1>13. CallOk(r, entered', backups', born', accounts')
  BY <1>4, <1>7, <1>10, <1>11 DEF CallOk
<1>14. AtPage(r, tabs') BY <1>4, <1>6, <1>8, <1>11 DEF AtPage
<1> QED BY <1>1, <1>2, <1>4, <1>5, <1>9, <1>11, <1>12, <1>13, <1>14, ArrivalStep

------------------------------------------------------------------------------
(* The invariant.                                                           *)

LEMMA InitHolds ==
  ASSUME Init
  PROVE  JourneyInv
<1>1. /\ FormPage \in PageRow
      /\ \A e, k, b, a : PageOk(FormPage, e, k, b, a)
  BY FormPageOk
<1>2. /\ \A b \in Tab : tabs[b] = FormPage
      /\ \A c \in Call : calls[c] = Idle
      /\ \A n \in Name : attempts[n] = NoAttempt /\ accounts[n] = NoRow
      /\ \A t \in InviteTicket : /\ t \in Ticket /\ uses[t] = 0 /\ grants[t] = Nobody
                                  /\ paidBy[t] = {}
  BY JourneyAssumption DEF Init, InviteInit
<1>3. /\ NoAttempt.ticket = NoTicket /\ NoAttempt.keys = NoKeys /\ NoAttempt.by = NoCall
      /\ NoRow.ticket = NoTicket /\ NoRow.keys = NoKeys
      /\ NoTicket \notin Ticket /\ NoCall \notin Call
      /\ Idle.tab = NoTab /\ Idle.phase = "idle"
  BY JourneyAssumption DEF NoAttempt, NoRow, Idle
<1>4. JourneyTypeOK
  <2>1. tabs \in [Tab -> PageRow] BY <1>1 DEF Init
  <2>2. uses \in [Ticket -> 0..1] BY DEF Init
  <2>3. setbacks \in 0..MaxSetbacks BY JourneyAssumption DEF Init
  <2>4. InviteTypeOK BY DEF Init, InviteInit, InviteTypeOK
  <2> QED BY <2>1, <2>2, <2>3, <2>4 DEF Init, JourneyTypeOK
<1>5. CallsInv BY <1>2 DEF CallsInv
<1>6. WaitInv BY <1>2, <1>3, JourneyAssumption DEF WaitInv
<1>7. BrowserInv BY <1>1, <1>2 DEF BrowserInv, JarOk, Init
<1>8. RowsInv BY <1>2, <1>3 DEF RowsInv, RowOk
<1>9. TicketInv BY <1>2, <1>3 DEF TicketInv, Has
<1>10. GrantInv BY <1>2, <1>3 DEF GrantInv, Has
<1>11. PaidInv BY <1>2, <1>3 DEF PaidInv, Has
<1>12. HeldInv BY <1>2, <1>3 DEF HeldInv
<1> QED BY <1>4, <1>5, <1>6, <1>7, <1>8, <1>9, <1>10, <1>11, <1>12 DEF JourneyInv, TablesInv

LEMMA StutterStep ==
  ASSUME JourneyInv, UNCHANGED vars
  PROVE  JourneyInv'
<1>0. JourneyTypeOK /\ CallsInv /\ WaitInv /\ BrowserInv /\ TablesInv BY DEF JourneyInv
<1>1. UNCHANGED << tabs, jar, pass, calls, uses, attempts, accounts, setbacks, born, backups,
                   entered, paidBy, grants >>
  BY DEF vars, pageVars, serverVars, historyVars
<1>2. JourneyTypeOK' BY <1>0, <1>1 DEF JourneyTypeOK, InviteTypeOK
<1>3. Growth BY <1>1, StandsStill
<1>4. CallsInv' /\ BrowserInv' BY <1>0, <1>1, <1>3, SameCalls, SameJar, StayStep
<1>5. WaitInv' BY <1>0, <1>1 DEF WaitInv
<1>6. TablesInv' BY <1>0, <1>1, <1>3, QuietTables DEF serverVars, QuietCalls, Phase
<1> QED BY <1>2, <1>4, <1>5, <1>6 DEF JourneyInv

LEMMA StepHolds ==
  ASSUME JourneyInv, [Next]_vars
  PROVE  JourneyInv'
<1>1. ASSUME NEW b \in Tab, NEW c \in Call, Download(b, c) PROVE JourneyInv'
  BY <1>1, DownloadStep
<1>2. ASSUME NEW b \in Tab, NEW c \in Call, RetryConfirmation(b, c) PROVE JourneyInv'
  BY <1>2, RetryConfirmationStep
<1>3. ASSUME NEW b \in Tab, NEW c \in Call, NEW u \in Visitor, NEW n \in Name, NEW t \in Ticket,
             SubmitForm(b, c, u, n, t)
      PROVE  JourneyInv'
  BY <1>3, SubmitFormStep
<1>4. ASSUME NEW b \in Tab, NEW c \in Call, NEW u \in Visitor, SubmitAccount(b, c, u)
      PROVE  JourneyInv'
  BY <1>4, SubmitAccountStep
<1>5. ASSUME NEW b \in Tab, TurnAway(b) \/ LoadSuccess(b) \/ Reload(b) \/ Navigate(b)
      PROVE  JourneyInv'
  BY <1>5, TurnAwayStep, LoadSuccessStep, ReloadStep
<1>6. ASSUME NEW b \in Tab, NEW k \in Keys, OpenDetails(b, k) PROVE JourneyInv'
  BY <1>6, OpenDetailsStep
<1>7. ASSUME NEW c \in Call, HandleSession(c) \/ HandleAccount(c) \/ PreflightRefuses(c)
      PROVE  JourneyInv'
  BY <1>7, HandleSessionStep, HandleAccountStep, PreflightRefusesStep
<1>8. ASSUME NEW c \in Call, \/ MeetOpenAttempt(c) \/ MeetCompletedAttempt(c)
                             \/ ReserveTicket(c) \/ Conclude(c)
      PROVE  JourneyInv'
  BY <1>8, MeetOpenAttemptStep, MeetCompletedAttemptStep, ReserveTicketStep, ConcludeStep
<1>9. ASSUME NEW c \in Call, \/ SessionArrives(c) \/ KeysArrive(c) \/ AccountArrives(c)
                             \/ FailureArrives(c) \/ Lose(c)
      PROVE  JourneyInv'
  BY <1>9, SessionArrivesStep, KeysArriveStep, AccountArrivesStep, FailureArrivesStep, LoseStep
<1>10. ASSUME NEW c \in Call, NEW u \in Visitor, Recover(c, u) PROVE JourneyInv'
  BY <1>10, RecoverStep
<1>11. ASSUME NEW n \in Name, Reconcile(n) PROVE JourneyInv'
  BY <1>11, ReconcileStep
<1>12. ASSUME NEW u \in Identity, NEW t \in InviteTicket, Issue(u, t) PROVE JourneyInv'
  BY <1>12, IssueStep
<1>13. CASE SessionExpires BY <1>13, SessionExpiresStep
<1>14. CASE UNCHANGED vars BY <1>14, StutterStep
<1> QED BY <1>1, <1>2, <1>3, <1>4, <1>5, <1>6, <1>7, <1>8, <1>9, <1>10, <1>11, <1>12, <1>13,
           <1>14 DEF Next

LEMMA InvHolds == Spec => []JourneyInv
<1>1. Init => JourneyInv BY InitHolds
<1>2. JourneyInv /\ [Next]_vars => JourneyInv' BY StepHolds
<1> QED BY <1>1, <1>2, PTL DEF Spec

------------------------------------------------------------------------------
(* The theorems.                                                            *)

(* Every record of the pages, the cookie, the calls and the tables is one   *)
(* the code can write: a ticket has zero uses or one, a page that waits has *)
(* a name.                                                                  *)
THEOREM JourneyTypeCorrect == Spec => []JourneyTypeOK
<1>1. JourneyInv => JourneyTypeOK BY DEF JourneyInv
<1> QED BY <1>1, InvHolds, PTL

(* However many tabs are open and whatever is reloaded or lost, an account  *)
(* is recorded only with keys that were downloaded, in a page that had      *)
(* generated them for this name (AccountDetails.astro, account.ts).         *)
THEOREM KeysAreSaved == Spec => []KeysWereSaved
<1>1. JourneyInv => KeysWereSaved
  <2> SUFFICES ASSUME JourneyInv, NEW n \in Name
               PROVE  /\ accounts[n] # NoRow =>
                           accounts[n].keys \in backups /\ born[accounts[n].keys] = n
                      /\ attempts[n] # NoAttempt => attempts[n].keys \in backups
    BY DEF KeysWereSaved
  <2>1. /\ RowOk(n, attempts[n], entered, backups, born)
        /\ RowOk(n, accounts[n], entered, backups, born)
    BY DEF JourneyInv, TablesInv, RowsInv
  <2>2. /\ accounts[n] # NoRow => accounts[n].keys # NoKeys
        /\ attempts[n] # NoAttempt => attempts[n].keys # NoKeys
    BY SessionAssumption DEF JourneyInv, JourneyTypeOK, AccountRow, AttemptRow
  <2> QED BY <2>1, <2>2 DEF RowOk
<1> QED BY <1>1, InvHolds, PTL

(* The name and the ticket an account is recorded with were submitted       *)
(* together: the cookie is replaced as a whole (session.ts).                *)
THEOREM TicketsAreEntered == Spec => []TicketWasEntered
<1>1. JourneyInv => TicketWasEntered
  <2> SUFFICES ASSUME JourneyInv, NEW n \in Name, accounts[n] # NoRow
               PROVE  << n, accounts[n].ticket >> \in entered
    BY DEF TicketWasEntered
  <2>1. RowOk(n, accounts[n], entered, backups, born) BY DEF JourneyInv, TablesInv, RowsInv
  <2>2. accounts[n].keys # NoKeys
    BY SessionAssumption DEF JourneyInv, JourneyTypeOK, AccountRow
  <2> QED BY <2>1, <2>2 DEF RowOk
<1> QED BY <1>1, InvHolds, PTL

(* A success page or a finished cookie means a recorded account, paid by    *)
(* the cookie's ticket (finalizeSession, success/[user].astro).             *)
THEOREM SuccessHolds == Spec => []SuccessIsTrue
<1>1. JourneyInv => SuccessIsTrue
  BY DEF JourneyInv, BrowserInv, PageOk, JarOk, SuccessIsTrue
<1> QED BY <1>1, InvHolds, PTL

(* What an invitation pays for was paid by a call that came with its        *)
(* owner's sign-in, and no other call ever paid with it (authorization.ts,  *)
(* reserveTicketCredit).                                                    *)
THEOREM InvitesHold == Spec => []InvitesAreSpentByTheirOwner
<1>1. JourneyInv => InvitesAreSpentByTheirOwner
  <2> SUFFICES ASSUME JourneyInv, NEW n \in Name, NEW row \in {attempts[n], accounts[n]},
                      OwnerOf(row.ticket) # Nobody
               PROVE  paidBy[row.ticket] = {OwnerOf(row.ticket)}
    BY DEF InvitesAreSpentByTheirOwner
  <2>1. row.ticket \in InviteTicket /\ OwnerOf(row.ticket) = grants[row.ticket]
    BY DEF OwnerOf
  <2>2. Has(attempts[n], row.ticket) \/ Has(accounts[n], row.ticket) BY DEF Has
  <2>3. paidBy[row.ticket] \subseteq {grants[row.ticket]} /\ paidBy[row.ticket] # {}
    BY <2>1, <2>2 DEF JourneyInv, TablesInv, PaidInv
  <2> QED BY <2>1, <2>3
<1> QED BY <1>1, InvHolds, PTL

(* An identity's invitation is one account or one attempt, never two        *)
(* (issueInviteGrant, the use it carries).                                  *)
THEOREM OneInvitationOneAccount == Spec => []OneAccountPerInvitee
<1>1. JourneyInv => OneAccountPerInvitee
  <2> SUFFICES ASSUME JourneyInv, NEW u \in Identity
               PROVE  Cardinality(Invited(u)) + Cardinality(Promised(u)) <= 1
    BY DEF OneAccountPerInvitee
  <2>1. TicketInv /\ GrantInv /\ u # Nobody /\ InviteTicket \subseteq Ticket
    BY InviteAssumption, JourneyAssumption DEF JourneyInv, TablesInv
  <2>2. ASSUME NEW n \in Name, NEW m \in Name,
               n \in Invited(u) \cup Promised(u), m \in Invited(u) \cup Promised(u)
        PROVE  /\ n \in Invited(u) => m \in Invited(u)
               /\ n = m
               /\ ~(n \in Invited(u) /\ m \in Promised(u))
    <3>1. PICK t \in InviteTicket :
            /\ n \in Invited(u) => Has(accounts[n], t)
            /\ n \in Promised(u) => Has(attempts[n], t)
            /\ m \in Invited(u) => Has(accounts[m], t)
            /\ m \in Promised(u) => Has(attempts[m], t)
      BY <2>1, <2>2 DEF Invited, Promised, OwnerOf, GrantInv, Has
    <3> QED BY <3>1, <2>1, <2>2 DEF TicketInv
  <2>3. Invited(u) \subseteq Name /\ Promised(u) \subseteq Name BY DEF Invited, Promised
  <2>4. CASE Invited(u) # {}
    <3>1. PICK n \in Name : n \in Invited(u) BY <2>4, <2>3
    <3>2. Invited(u) = {n} /\ Promised(u) = {} BY <3>1, <2>2, <2>3
    <3> QED BY <3>2, FS_EmptySet, FS_Singleton
  <2>5. CASE Invited(u) = {} /\ Promised(u) # {}
    <3>1. PICK n \in Name : n \in Promised(u) BY <2>5, <2>3
    <3>2. Promised(u) = {n} BY <3>1, <2>2, <2>3
    <3> QED BY <2>5, <3>2, FS_EmptySet, FS_Singleton
  <2>6. CASE Invited(u) = {} /\ Promised(u) = {} BY <2>6, FS_EmptySet
  <2> QED BY <2>4, <2>5, <2>6
<1> QED BY <1>1, InvHolds, PTL

(* A page forgets its keys as those of a created account only if they are   *)
(* the account's (AccountDetails.astro handleFormSubmit): whatever other    *)
(* tabs, retries and the reconciler did to the name in the meantime.        *)
THEOREM CreatedHolds == Spec => CreatedIsTrue
<1> DEFINE Told(b) == tabs[b].page = "details" /\ tabs'[b].page = "leaving"
           Right(b) == accounts[tabs[b].name].keys = tabs[b].keys
<1>1. ASSUME JourneyInv, NEW c \in Call, AccountArrives(c), NEW b \in Tab, Told(b)
      PROVE  Right(b)
  <2>1. Arrives(c, {"account"}, TRUE) /\ {"account"} \in SUBSET CallKind
    BY <1>1 DEF AccountArrives, CallKind
  <2>2. AtPage(calls[c], tabs) /\ calls[c] # Idle BY <1>1, <2>1, CookieStep
  <2>3. /\ calls[c].kind = "account" /\ calls[c].phase = "answered" /\ calls[c].ok
    BY <2>1 DEF Arrives, HasAnswer, Succeeds
  <2>4. accounts[calls[c].name].keys = calls[c].keys
    <3>1. CallOk(calls[c], entered, backups, born, accounts)
      BY <1>1, <2>2 DEF JourneyInv, CallsInv
    <3>2. accounts[calls[c].name] = [ticket |-> calls[c].jar.ticket, keys |-> calls[c].keys]
      BY <2>3, <3>1 DEF CallOk
    <3> QED BY <3>2
  <2>5. b = calls[c].tab
    BY <1>1 DEF AccountArrives, TurnAsker, Turn, JourneyInv, JourneyTypeOK
  <2> QED BY <2>2, <2>3, <2>4, <2>5 DEF AtPage
<1>2. ASSUME JourneyInv, NEW c \in Call, NEW b \in Tab, Told(b),
             NEW u \in Visitor,
             \/ SessionArrives(c) \/ KeysArrive(c) \/ FailureArrives(c) \/ Lose(c)
             \/ Recover(c, u)
      PROVE  FALSE
  <2>1. JourneyTypeOK BY <1>2 DEF JourneyInv
  <2>2. CASE SessionArrives(c)
    <3>1. FormPage.page = "form" /\ [FormPage EXCEPT !.page = "opening",
                                                     !.name = calls[c].name].page = "opening"
      BY DEF FormPage
    <3> QED BY <1>2, <2>1, <2>2, <3>1 DEF SessionArrives, Turn, JourneyTypeOK
  <2>3. CASE KeysArrive(c)
    BY <1>2, <2>1, <2>3 DEF KeysArrive, TurnAsker, Turn, JourneyTypeOK, PageRow
  <2>4. CASE FailureArrives(c) \/ Lose(c) \/ Recover(c, u)
    BY <1>2, <2>4 DEF FailureArrives, Lose, Recover, pageVars
  <2> QED BY <1>2, <2>2, <2>3, <2>4
<1>3. ASSUME JourneyInv, NEW c \in Call, NEW b \in Tab, Told(b),
             \/ HandleSession(c) \/ HandleAccount(c) \/ PreflightRefuses(c)
             \/ MeetOpenAttempt(c) \/ MeetCompletedAttempt(c) \/ ReserveTicket(c) \/ Conclude(c)
      PROVE  FALSE
  BY <1>3 DEF HandleSession, HandleAccount, PreflightRefuses, MeetOpenAttempt,
              MeetCompletedAttempt, ReserveTicket, Conclude, pageVars
<1>4. ASSUME JourneyInv, NEW b \in Tab, Told(b), NEW x \in Tab,
             TurnAway(x) \/ LoadSuccess(x) \/ Reload(x) \/ Navigate(x) \/ \E k \in Keys : OpenDetails(x, k)
      PROVE  FALSE
  <2>1. x # b => tabs'[b] = tabs[b]
    BY <1>4
    DEF TurnAway, LoadSuccess, Reload, Navigate, LeavePage, OpenDetails, Turn, JourneyInv,
        JourneyTypeOK
  <2>2. x = b BY <1>4, <2>1
  <2>3. LeavePage(b)
    BY <1>4, <2>2 DEF TurnAway, LoadSuccess, OpenDetails, At, Reload, Navigate
  <2>4. tabs'[b].page \in {"form", "opening"}
    <3> DEFINE o == [FormPage EXCEPT !.page = "opening", !.name = tabs[b].name]
    <3>1. o.page = "opening" /\ FormPage.page = "form" BY DEF FormPage
    <3>2. tabs' = [tabs EXCEPT ![b] = o] \/ tabs' = [tabs EXCEPT ![b] = FormPage]
      BY <2>3 DEF LeavePage, Turn
    <3> HIDE DEF o
    <3> QED BY <1>4, <3>1, <3>2 DEF JourneyInv, JourneyTypeOK
  <2> QED BY <1>4, <2>4
<1>5. ASSUME JourneyInv, NEW b \in Tab, Told(b), NEW x \in Tab, NEW c \in Call, NEW u \in Visitor,
             \/ Download(x, c) \/ RetryConfirmation(x, c) \/ SubmitAccount(x, c, u)
             \/ \E n \in Name, t \in Ticket : SubmitForm(x, c, u, n, t)
      PROVE  FALSE
  <2>1. CASE Download(x, c)
    BY <1>5, <2>1 DEF Download, Turn, JourneyInv, JourneyTypeOK, PageRow
  <2>2. CASE ~Download(x, c)
    BY <1>5, <2>2 DEF RetryConfirmation, SubmitAccount, SubmitForm, pageVars
  <2> QED BY <2>1, <2>2
<1>6. ASSUME JourneyInv, NEW b \in Tab, Told(b),
             \/ \E n \in Name : Reconcile(n)
             \/ \E u \in Identity, t \in InviteTicket : Issue(u, t)
             \/ SessionExpires \/ UNCHANGED vars
      PROVE  FALSE
  BY <1>6 DEF Reconcile, Issue, SessionExpires, vars, pageVars
<1>7. ASSUME JourneyInv, [Next]_vars, NEW b \in Tab, Told(b)
      PROVE  Right(b)
  <2> HIDE DEF Told, Right
  <2> QED BY <1>7, <1>1, <1>2, <1>3, <1>4, <1>5, <1>6 DEF Next, Visitor
<1>8. JourneyInv /\ [Next]_vars => [\A b \in Tab : Told(b) => Right(b)]_vars
  BY <1>7
<1> QED BY <1>8, InvHolds, PTL DEF Spec, CreatedIsTrue
==============================================================================
