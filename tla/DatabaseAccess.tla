---------------------------- MODULE DatabaseAccess ----------------------------
(***************************************************************************)
(* How a process of the service reaches the database (lib/database.ts):    *)
(* every isolated statement, read snapshot and write transaction waits in  *)
(* a chain of promises for the one called before it; a call made inside a  *)
(* snapshot or transaction finds it in the asynchronous context and joins  *)
(* it.  Several processes share the database and know nothing of each      *)
(* other's chains: what one finds locked it tries again, three times.      *)
(*                                                                         *)
(* A call is one use of execute, withReadSnapshot or withTransaction.  The *)
(* database itself is external: one write transaction at a time, a         *)
(* transaction sees the store it began on and its own writes, a commit     *)
(* takes effect wholly, and its answer may be lost.                        *)
(***************************************************************************)
EXTENDS Naturals, Sequences

CONSTANTS
  Process,         (* processes of the service                              *)
  Call, NoCall,
  ProcessOf,       (* the process a call is made in                         *)
  Kind,            (* "statement", "read" (a snapshot) or "write"           *)
  Parent,          (* the call whose callback makes it, or NoCall           *)
  Root,            (* the outermost of them: the one its context is of      *)
  Writing,         (* the statements that write                             *)
  MaxRetries       (* bound: tries again after a lock, 3 in the code        *)

ASSUME CallsAssumption ==
  /\ NoCall \notin Call
  /\ ProcessOf \in [Call -> Process]
  /\ Kind \in [Call -> {"statement", "read", "write"}]
  /\ Parent \in [Call -> Call \cup {NoCall}]
  /\ Root \in [Call -> Call]
  /\ MaxRetries \in Nat
  /\ Writing \subseteq {c \in Call : Kind[c] = "statement"}

ASSUME NestingAssumption ==
  /\ \A c \in Call :
       IF Parent[c] = NoCall THEN Root[c] = c
       ELSE /\ Root[c] = Root[Parent[c]] /\ Root[c] # c
            /\ Parent[Root[c]] = NoCall
            /\ ProcessOf[c] = ProcessOf[Root[c]]
            /\ Kind[Parent[c]] # "statement"
  /\ \A calls \in SUBSET Call :      (* no call is made inside itself *)
       calls # {} => \E c \in calls : Parent[c] \notin calls

VARIABLES
  state,           (* per call: how far it is                               *)
  chain,           (* per process: the promises of databaseOperationQueue   *)
  retries,         (* per call: tries again in the loop it is in            *)
  view,            (* per transaction: the store it works on, once begun    *)
  written,         (* per transaction: what it wrote, committed or not      *)
  saw,             (* per statement in a transaction: the store it read     *)
  store,           (* what is committed                                     *)
  applied          (* the isolated calls and transactions that took effect  *)

vars == << state, chain, retries, view, written, saw, store, applied >>
database == << view, written, saw, store, applied >>

Outermost == {c \in Call : Parent[c] = NoCall}
Within(t) == {c \in Call : Root[c] = t}
Settled == {"returned", "thrown", "lost"}

Init ==
  /\ state = [c \in Call |-> "idle"]
  /\ chain = [p \in Process |-> << >>]
  /\ retries = [c \in Call |-> 0]
  /\ view = [c \in Call |-> {}]
  /\ written = [c \in Call |-> {}]
  /\ saw = [c \in Call |-> {}]
  /\ store = {}
  /\ applied = {}

Goes(c, from, to) == state[c] = from /\ state' = [state EXCEPT ![c] = to]

(* ------------------------------ the chain ------------------------------- *)
(* The call takes the last promise for its previous one and puts its own in *)
(* the place.                                                               *)
Enqueue(c) ==
  /\ c \in Outermost /\ Goes(c, "idle", "queued")
  /\ chain' = [chain EXCEPT ![ProcessOf[c]] = Append(@, c)]
  /\ UNCHANGED << retries, database >>

(* The previous operation has released, whatever came of it.                *)
PreviousReleased(c) ==
  LET line == chain[ProcessOf[c]] IN
  \E i \in DOMAIN line :
    line[i] = c /\ (i > 1 => state[line[i - 1]] \in Settled)

Enter(c) ==
  /\ PreviousReleased(c) /\ Goes(c, "queued", "opening")
  /\ UNCHANGED << chain, retries, database >>

(* --------------------------- at the database ---------------------------- *)
(* A write transaction locks the database against other writers.            *)
Locked == \E d \in Outermost : Kind[d] = "write" /\ state[d] \in {"open", "undoing"}

(* The statement or BEGIN has its last answer: the count of tries goes with *)
(* the loop it belongs to.                                                  *)
Opens(c, to) == Goes(c, "opening", to) /\ retries' = [retries EXCEPT ![c] = 0]

Begin(c) ==
  /\ Kind[c] # "statement" /\ (Kind[c] = "write" => ~Locked)
  /\ Opens(c, "open")
  /\ view' = [view EXCEPT ![c] = {store}]
  /\ UNCHANGED << chain, written, saw, store, applied >>

ExecuteAlone(c) ==
  /\ Kind[c] = "statement" /\ (c \in Writing => ~Locked)
  /\ Opens(c, "applied")
  /\ view' = [view EXCEPT ![c] = {store}]
  /\ written' = [written EXCEPT ![c] = {c} \cap Writing]
  /\ store' = store \cup ({c} \cap Writing)
  /\ applied' = applied \cup {c}
  /\ UNCHANGED << chain, saw >>

(* SQLITE_BUSY or SQLITE_LOCKED while another is at the database.           *)
FindLocked(c) ==
  /\ \E d \in Outermost \ {c} : state[d] \in {"opening", "open", "undoing"}
  /\ IF retries[c] < MaxRetries
     THEN /\ state[c] = "opening" /\ UNCHANGED state
          /\ retries' = [retries EXCEPT ![c] = @ + 1]
     ELSE Opens(c, "thrown")
  /\ UNCHANGED << chain, database >>

(* Any other error of the statement or of BEGIN.                            *)
Refuse(c) ==
  /\ Opens(c, "thrown") /\ UNCHANGED << chain, database >>

(* ----------------------- inside a transaction --------------------------- *)
Awaits(c) == \E d \in Call : Parent[d] = c /\ state[d] \notin Settled \cup {"idle"}

(* Mutant: a callback catches the error of a call and goes on.              *)
RunningOn(c) == state[c] \in {"open", "joined"} /\ ~Awaits(c)

(* A callback goes on while none of its calls is awaited and none threw: no *)
(* caller keeps the error of a call to itself.                              *)
Running(c) ==
  /\ state[c] \in {"open", "joined"} /\ ~Awaits(c)
  /\ \A d \in Call : Parent[d] = c => state[d] # "thrown"

Called(c) == c \notin Outermost /\ Running(Parent[c])

(* Mutants: the statement goes to the database and not to the transaction;  *)
(* a statement of a snapshot reads what is committed by then.               *)
ExecuteBeside(c) ==
  LET t == Root[c] IN
  /\ Kind[c] = "statement" /\ Called(c)
  /\ c \in Writing => Kind[t] = "write"
  /\ Goes(c, "idle", "returned")
  /\ saw' = [saw EXCEPT ![c] = {store}]
  /\ written' = [written EXCEPT ![t] = @ \cup ({c} \cap Writing)]
  /\ store' = store \cup ({c} \cap Writing)
  /\ UNCHANGED << chain, retries, view, applied >>

ExecuteAsOf(c) ==
  LET t == Root[c] IN
  /\ Kind[c] = "statement" /\ Called(c)
  /\ c \in Writing => Kind[t] = "write"
  /\ Goes(c, "idle", "returned")
  /\ saw' = [saw EXCEPT ![c] = {store \cup written[t]}]
  /\ written' = [written EXCEPT ![t] = @ \cup ({c} \cap Writing)]
  /\ UNCHANGED << chain, retries, view, store, applied >>

ExecuteInside(c) ==
  LET t == Root[c] IN
  /\ Kind[c] = "statement" /\ Called(c)
  /\ c \in Writing => Kind[t] = "write"
  /\ Goes(c, "idle", "returned")
  /\ saw' = [saw EXCEPT ![c] = {seen \cup written[t] : seen \in view[t]}]
  /\ written' = [written EXCEPT ![t] = @ \cup ({c} \cap Writing)]
  /\ UNCHANGED << chain, retries, view, store, applied >>

FailInside(c) ==
  /\ Kind[c] = "statement" /\ Called(c)
  /\ Goes(c, "idle", "thrown")
  /\ UNCHANGED << chain, retries, database >>

(* Mutant: a nested call does not find the context, and queues.             *)
JoinTheQueue(c) ==
  /\ Kind[c] # "statement" /\ Called(c) /\ Goes(c, "idle", "queued")
  /\ chain' = [chain EXCEPT ![ProcessOf[c]] = Append(@, c)]
  /\ UNCHANGED << retries, database >>

(* The context is the outermost call's: a snapshot refuses to become a      *)
(* transaction, any other nesting only runs the callback.                   *)
Join(c) ==
  /\ Kind[c] # "statement" /\ Called(c)
  /\ Goes(c, "idle", IF Kind[c] = "write" /\ Kind[Root[c]] = "read"
                     THEN "thrown" ELSE "joined")
  /\ UNCHANGED << chain, retries, database >>

Leave(c) ==
  /\ \/ Running(c) /\ Goes(c, "joined", "returned")
     \/ ~Awaits(c) /\ Goes(c, "joined", "thrown")
  /\ UNCHANGED << chain, retries, database >>

(* ---------------------------- its end ----------------------------------- *)
Commit(c) ==
  /\ Running(c) /\ Goes(c, "open", "applied")
  /\ store' = store \cup written[c]
  /\ applied' = applied \cup {c}
  /\ UNCHANGED << chain, retries, view, written, saw >>

(* The callback throws, or the commit is rejected.                          *)
Fail(c) ==
  /\ ~Awaits(c) /\ Goes(c, "open", "undoing")
  /\ UNCHANGED << chain, retries, database >>

Answer(c) ==
  /\ \/ Goes(c, "applied", "returned")
     \/ Goes(c, "applied", IF Kind[c] = "statement" THEN "thrown" ELSE "undoing")
  /\ UNCHANGED << chain, retries, database >>

(* Mutant: the error is not thrown again after the rollback.                *)
UndoSilently(c) ==
  /\ Goes(c, "undoing", "returned") /\ UNCHANGED << chain, retries, database >>

(* Rolled back and closed; what was committed stays.                        *)
Undo(c) ==
  /\ Goes(c, "undoing", "thrown") /\ UNCHANGED << chain, retries, database >>

(* The process stops with its calls and starts again with an empty chain;   *)
(* the database rolls back the transaction it had open.                     *)
Crash(p) ==
  /\ state' = [c \in Call |->
       IF ProcessOf[c] = p /\ state[c] \notin Settled \cup {"idle"}
       THEN "lost" ELSE state[c]]
  /\ chain' = [chain EXCEPT ![p] = << >>]
  /\ retries' = [c \in Call |-> IF ProcessOf[c] = p THEN 0 ELSE retries[c]]
  /\ UNCHANGED database

(* ------------------------- the specification ---------------------------- *)
Advance(c) ==
  \/ Enter(c) \/ Begin(c) \/ ExecuteAlone(c) \/ FindLocked(c) \/ Refuse(c)
  \/ Leave(c) \/ Commit(c) \/ Fail(c) \/ Answer(c) \/ Undo(c)

Next ==
  \/ \E c \in Call :
       Enqueue(c) \/ Advance(c) \/ ExecuteInside(c) \/ FailInside(c) \/ Join(c)
  \/ \E p \in Process : Crash(p)

Spec == Init /\ [][Next]_vars

(* The database answers every request and every callback comes to an end.   *)
FairSpec == Spec /\ \A c \in Call : WF_vars(Advance(c))

(* ---------------------------- properties -------------------------------- *)
(* Every variable has its type, and only an outermost call is ever in the   *)
(* chain or at the database by itself.                                      *)
AccessTypeOK ==
  /\ state \in [Call -> {"idle", "queued", "opening", "open", "joined",
                         "applied", "undoing"} \cup Settled]
  /\ chain \in [Process -> Seq(Outermost)]
  /\ retries \in [Call -> 0 .. MaxRetries]
  /\ view \in [Call -> SUBSET SUBSET Writing]
  /\ written \in [Call -> SUBSET Writing]
  /\ saw \in [Call -> SUBSET SUBSET Writing]
  /\ store \in SUBSET Writing
  /\ applied \in SUBSET Outermost

(* The operations of a process use the database in the order they were      *)
(* called, and none before the one called before it has released.           *)
(* (withDatabaseOperationLock)                                              *)
FirstCalledFirstServed ==
  \A p \in Process : \A i, j \in DOMAIN chain[p] :
    i < j /\ state[chain[p][j]] # "queued" => state[chain[p][i]] \in Settled

(* What a write transaction read is still so when it writes: from BEGIN to  *)
(* COMMIT nobody else changes the store, neither this process nor another.  *)
(* (withTransaction begins in "write" mode, before its first read)          *)
WritersAreSerial ==
  \A c \in Outermost : Kind[c] = "write" /\ state[c] = "open" => view[c] = {store}

(* Of the statements a transaction was told had succeeded, none is in the   *)
(* store while it is open; all are or none afterwards; all, if it returned. *)
Told(t) == {c \in Within(t) \cap Writing : c # t /\ state[c] = "returned"}

AllOrNothing ==
  \A t \in Outermost : Kind[t] # "statement" =>
    /\ store \cap Within(t) \in {{}, Told(t)}
    /\ state[t] = "open" => store \cap Within(t) = {}
    /\ state[t] = "returned" => Told(t) \subseteq store

(* A call that throws inside a transaction, at whatever depth, undoes the   *)
(* whole of it: nested transactions have no savepoint, so the error of the  *)
(* inner one has to reach the outer one.                                    *)
NestedFailureUndoesAll ==
  \A c \in Call \ Outermost :
    state[c] = "thrown" => store \cap Within(Root[c]) = {}

(* The statements of a read snapshot all read the same store, whatever is   *)
(* committed meanwhile, those of a snapshot nested in it too.               *)
(* (withReadSnapshot; database-access.test.ts)                              *)
SnapshotIsCoherent ==
  \A c, d \in Call \ Outermost :
    /\ Root[c] = Root[d] /\ Kind[Root[c]] = "read"
    /\ saw[c] # {} /\ saw[d] # {}
    => saw[c] = saw[d]

(* A call that has taken its place in the chain comes to an end: no call    *)
(* inside a transaction waits for the transaction it is in, and an error    *)
(* releases the chain as well as a result.                                  *)
EveryCallSettles ==
  \A c \in Outermost : state[c] = "queued" ~> state[c] \in Settled

(* Every isolated call and transaction is one step on the store: a snapshot *)
(* when it begins, the others when the database applies them.               *)
TakenBar ==
  [t \in Outermost |->
     {[saw |-> seen, wrote |-> written[t]] :
        seen \in IF t \in applied \/ Kind[t] = "read" THEN view[t] ELSE {}}]
AnswerBar ==
  [t \in Outermost |->
     CASE state[t] = "returned" -> "returned"
       [] state[t] \in {"thrown", "lost"} -> "thrown"
       [] OTHER -> "none"]
Atomic == INSTANCE AtomicStore WITH
  Unit <- Outermost, EffectsOf <- [t \in Outermost |-> Within(t) \cap Writing],
  taken <- TakenBar, answer <- AnswerBar
ImplementsAtomicStore == Atomic!StoreSpec
==============================================================================
