------------------------- MODULE DatabaseAccessProofs -------------------------
(***************************************************************************)
(* The safety of DatabaseAccess for any processes and calls, nested to any *)
(* depth, and any number of tries.  Three invariants build on the types:   *)
(* the chain is served in order (ChainOK), a nested call that is awaited   *)
(* or threw keeps the calls around it from returning (NestingOK), and what *)
(* a transaction wrote is what it was told it wrote (StoreOK).             *)
(***************************************************************************)
EXTENDS DatabaseAccess, TLAPS

Nested == Call \ Outermost

(* How far a call can be: an outermost one goes through the chain and the   *)
(* database, a nested one through the callback around it only.              *)
ShapeOK ==
  /\ AccessTypeOK
  /\ \A c \in Outermost : state[c] # "joined"
  /\ \A c \in Outermost : Kind[c] = "statement" => state[c] \notin {"open", "undoing"}
  /\ \A c \in Nested : state[c] \in {"idle", "joined"} \cup Settled
  /\ \A c \in Nested : Kind[c] = "statement" => state[c] # "joined"

ChainOK ==
  /\ \A p \in Process : \A i \in DOMAIN chain[p] :
       ProcessOf[chain[p][i]] = p /\ state[chain[p][i]] # "idle"
  /\ \A p \in Process : \A i, j \in DOMAIN chain[p] : chain[p][i] = chain[p][j] => i = j
  /\ \A c \in Outermost :
       state[c] \in {"queued", "opening", "open", "applied", "undoing"} =>
         \E i \in DOMAIN chain[ProcessOf[c]] : chain[ProcessOf[c]][i] = c
  /\ FirstCalledFirstServed

------------------------------------------------------------------------------
(* Where a call is in the nesting.                                          *)

LEMMA OutermostCall ==
  ASSUME NEW c \in Outermost
  PROVE  c \in Call /\ Root[c] = c /\ Parent[c] = NoCall
BY NestingAssumption DEF Outermost

LEMMA NestedCall ==
  ASSUME NEW c \in Nested
  PROVE  /\ c \in Call /\ Parent[c] \in Call /\ Root[c] \in Outermost /\ Root[c] # c
         /\ Root[c] = Root[Parent[c]] /\ Kind[Parent[c]] # "statement"
         /\ ProcessOf[c] = ProcessOf[Root[c]]
         /\ Parent[c] \in Outermost => Root[c] = Parent[c]
BY NestingAssumption, CallsAssumption DEF Nested, Outermost

(* Of any calls nested in t, one is made by a callback outside them.        *)
LEMMA NestingIsWellFounded ==
  ASSUME NEW calls \in SUBSET Nested, calls # {}
  PROVE  \E c \in calls : Parent[c] \notin calls
BY NestingAssumption DEF Nested

(* Every call is in one outermost call.                                     *)
LEMMA RootIsOutermost ==
  ASSUME NEW c \in Call
  PROVE  Root[c] \in Outermost /\ c \in Within(Root[c])
BY NestingAssumption, CallsAssumption DEF Outermost, Within

------------------------------------------------------------------------------
(* Types and shape.                                                         *)

LEMMA GoesEffect ==
  ASSUME AccessTypeOK, NEW c \in Call, NEW from, NEW to,
         to \in {"idle", "queued", "opening", "open", "joined", "applied", "undoing"}
                  \cup Settled,
         Goes(c, from, to)
  PROVE  /\ state' \in [Call -> {"idle", "queued", "opening", "open", "joined",
                                 "applied", "undoing"} \cup Settled]
         /\ state[c] = from /\ state'[c] = to
         /\ \A d \in Call \ {c} : state'[d] = state[d]
BY DEF AccessTypeOK, Goes

(* The moves of an outermost call, and of one that is nested.               *)
OuterMoves ==
  { << "idle", "queued" >>, << "queued", "opening" >>,
    << "opening", "opening" >>, << "opening", "open" >>, << "opening", "applied" >>,
    << "opening", "thrown" >>, << "open", "applied" >>, << "open", "undoing" >>,
    << "applied", "returned" >>, << "applied", "thrown" >>, << "applied", "undoing" >>,
    << "undoing", "thrown" >> }

NestedMoves ==
  { << "idle", "returned" >>, << "idle", "thrown" >>, << "idle", "joined" >>,
    << "joined", "returned" >>, << "joined", "thrown" >> }

(* A step of c moves c alone.                                               *)
Moves(c) ==
  /\ state' \in [Call -> {"idle", "queued", "opening", "open", "joined",
                          "applied", "undoing"} \cup Settled]
  /\ \A d \in Call \ {c} : state'[d] = state[d]
  /\ \/ c \in Outermost /\ << state[c], state'[c] >> \in OuterMoves
     \/ c \in Nested /\ << state[c], state'[c] >> \in NestedMoves
  /\ Kind[c] = "statement" => state'[c] \notin {"open", "joined", "undoing"}

StepOf(c) == Enqueue(c) \/ Advance(c) \/ ExecuteInside(c) \/ FailInside(c) \/ Join(c)

LEMMA StepMoves ==
  ASSUME ShapeOK, NEW c \in Call, StepOf(c)
  PROVE  Moves(c)
<1> USE GoesEffect DEF ShapeOK, Moves, OuterMoves, NestedMoves, Nested
<1>1. CASE Enqueue(c)
  BY <1>1 DEF Enqueue
<1>2. CASE Enter(c)
  BY <1>2 DEF Enter, Settled
<1>3. CASE Begin(c)
  BY <1>3 DEF Begin, Opens, Settled
<1>4. CASE ExecuteAlone(c)
  BY <1>4 DEF ExecuteAlone, Opens, Settled
<1>5. CASE FindLocked(c)
  <2>1. CASE state[c] = "opening" /\ UNCHANGED state
    BY <2>1 DEF AccessTypeOK, Settled
  <2>2. CASE Goes(c, "opening", "thrown")
    BY <2>2 DEF Settled
  <2> QED BY <1>5, <2>1, <2>2 DEF FindLocked, Opens
<1>6. CASE Refuse(c)
  BY <1>6 DEF Refuse, Opens, Settled
<1>7. CASE Leave(c)
  BY <1>7 DEF Leave, Settled
<1>8. CASE Commit(c)
  BY <1>8 DEF Commit, Settled
<1>9. CASE Fail(c)
  BY <1>9 DEF Fail, Settled
<1>10. CASE Answer(c)
  <2>1. CASE Goes(c, "applied", "returned")
    BY <2>1 DEF Settled
  <2>2. CASE Kind[c] = "statement" /\ Goes(c, "applied", "thrown")
    BY <2>2 DEF Settled
  <2>3. CASE Kind[c] # "statement" /\ Goes(c, "applied", "undoing")
    BY <2>3 DEF Settled
  <2> QED BY <1>10, <2>1, <2>2, <2>3 DEF Answer
<1>11. CASE Undo(c)
  BY <1>11 DEF Undo, Settled
<1>12. CASE ExecuteInside(c)
  BY <1>12 DEF ExecuteInside, Called, Settled
<1>13. CASE FailInside(c)
  BY <1>13 DEF FailInside, Called, Settled
<1>14. CASE Join(c)
  BY <1>14 DEF Join, Called, Settled
<1> QED
  BY <1>1, <1>2, <1>3, <1>4, <1>5, <1>6, <1>7, <1>8, <1>9, <1>10, <1>11, <1>12, <1>13,
     <1>14 DEF StepOf, Advance

(* The process of c stops, or another one: c is lost, or stays where it is. *)
LEMMA CrashMoves ==
  ASSUME ShapeOK, NEW p \in Process, Crash(p)
  PROVE  /\ state' \in [Call -> {"idle", "queued", "opening", "open", "joined",
                                 "applied", "undoing"} \cup Settled]
         /\ chain' \in [Process -> Seq(Outermost)]
         /\ chain'[p] = << >> /\ \A r \in Process \ {p} : chain'[r] = chain[r]
         /\ \A c \in Call :
              IF ProcessOf[c] = p /\ state[c] \notin Settled \cup {"idle"}
              THEN state'[c] = "lost" ELSE state'[c] = state[c]
BY DEF Crash, ShapeOK, AccessTypeOK, Settled

LEMMA InitShape == ASSUME Init PROVE ShapeOK
<1> USE CallsAssumption DEF Init
<1>1. AccessTypeOK
  <2>1. chain \in [Process -> Seq(Outermost)] /\ retries \in [Call -> 0 .. MaxRetries]
    OBVIOUS
  <2>2. state \in [Call -> {"idle", "queued", "opening", "open", "joined",
                           "applied", "undoing"} \cup Settled]
    OBVIOUS
  <2>3. /\ view \in [Call -> SUBSET SUBSET Writing] /\ written \in [Call -> SUBSET Writing]
        /\ saw \in [Call -> SUBSET SUBSET Writing]
    OBVIOUS
  <2>4. store \in SUBSET Writing /\ applied \in SUBSET Outermost
    OBVIOUS
  <2> QED BY ONLY <2>1, <2>2, <2>3, <2>4 DEF AccessTypeOK
<1> QED BY <1>1 DEF ShapeOK, Nested, Outermost

LEMMA TypesKept == ASSUME ShapeOK, NEW c \in Call, StepOf(c) PROVE AccessTypeOK'
<1> USE DEF AccessTypeOK, ShapeOK
<1>0. state' \in [Call -> {"idle", "queued", "opening", "open", "joined",
                           "applied", "undoing"} \cup Settled]
  BY StepMoves DEF Moves
<1>1. CASE Enqueue(c)
  <2>1. chain' \in [Process -> Seq(Outermost)]
    BY <1>1, CallsAssumption DEF Enqueue
  <2> QED BY <1>0, <1>1, <2>1 DEF Enqueue, database
<1>2. CASE Begin(c)
  <2>1. retries' \in [Call -> 0 .. MaxRetries]
    BY <1>2, CallsAssumption DEF Begin, Opens
  <2> QED BY <1>0, <1>2, <2>1 DEF Begin
<1>3. CASE ExecuteAlone(c)
  <2>1. c \in Outermost
    BY <1>3, GoesEffect DEF ExecuteAlone, Opens, Nested, Goes, Settled
  <2>2. ({c} \cap Writing) \in SUBSET Writing
    OBVIOUS
  <2>3. retries' \in [Call -> 0 .. MaxRetries]
    BY <1>3, CallsAssumption DEF ExecuteAlone, Opens
  <2> QED BY <1>0, <1>3, <2>1, <2>2, <2>3 DEF ExecuteAlone
<1>4. CASE FindLocked(c)
  <2>1. /\ retries[c] < MaxRetries => retries[c] + 1 \in 0 .. MaxRetries
        /\ 0 \in 0 .. MaxRetries
    BY CallsAssumption
  <2>2. \/ /\ retries[c] < MaxRetries
           /\ retries' = [retries EXCEPT ![c] = @ + 1]
        \/ retries' = [retries EXCEPT ![c] = 0]
    BY <1>4 DEF FindLocked, Opens
  <2>3. retries' \in [Call -> 0 .. MaxRetries]
    BY <2>1, <2>2
  <2> QED BY <1>0, <1>4, <2>3 DEF FindLocked, database
<1>5. CASE ExecuteInside(c)
  <2> DEFINE t == Root[c]
  <2>1. t \in Call
    BY CallsAssumption
  <2>2. {seen \cup written[t] : seen \in view[t]} \in SUBSET SUBSET Writing
    BY <2>1
  <2>3. saw' \in [Call -> SUBSET SUBSET Writing] /\ written' \in [Call -> SUBSET Writing]
    BY <1>5, <2>1, <2>2 DEF ExecuteInside
  <2> QED BY <1>0, <1>5, <2>3 DEF ExecuteInside
<1>6. CASE Commit(c)
  <2>1. c \in Outermost
    BY <1>6 DEF Commit, Nested, Goes, Settled
  <2> QED BY <1>0, <1>6, <2>1 DEF Commit
<1>7. CASE Refuse(c)
  <2>1. retries' \in [Call -> 0 .. MaxRetries]
    BY <1>7, CallsAssumption DEF Refuse, Opens
  <2> QED BY <1>0, <1>7, <2>1 DEF Refuse, database
<1>8. CASE UNCHANGED << chain, retries, database >>
  BY <1>0, <1>8 DEF database
<1> QED
  BY <1>1, <1>2, <1>3, <1>4, <1>5, <1>6, <1>7, <1>8
  DEF StepOf, Advance, Enter, Leave, Fail, Answer, Undo, FailInside, Join

LEMMA ShapeKept == ASSUME ShapeOK, [Next]_vars PROVE ShapeOK'
<1>1. ASSUME NEW c \in Call, StepOf(c) PROVE ShapeOK'
  <2>1. AccessTypeOK'
    BY <1>1, TypesKept
  <2>2. Moves(c)
    BY <1>1, StepMoves
  <2> QED
    BY <2>1, <2>2 DEF ShapeOK, Moves, OuterMoves, NestedMoves, Nested, Outermost, Settled
<1>2. ASSUME NEW p \in Process, Crash(p) PROVE ShapeOK'
  <2>1. retries' \in [Call -> 0 .. MaxRetries]
    BY <1>2, CallsAssumption DEF Crash, ShapeOK, AccessTypeOK
  <2>2. AccessTypeOK'
    BY <1>2, <2>1, CrashMoves DEF Crash, ShapeOK, AccessTypeOK, database
  <2> QED BY <1>2, <2>2, CrashMoves DEF ShapeOK, Nested, Outermost, Settled
<1>3. CASE UNCHANGED vars
  BY <1>3 DEF vars, ShapeOK, AccessTypeOK
<1> QED BY <1>1, <1>2, <1>3 DEF Next, StepOf

(* The type invariant.                                                      *)
THEOREM AccessTyping == Spec => []AccessTypeOK
<1>1. Spec => []ShapeOK
  BY InitShape, ShapeKept, PTL DEF Spec
<1> QED BY <1>1, PTL DEF ShapeOK

------------------------------------------------------------------------------
(* The chain is served in order.                                            *)

(* A step of c other than the two of the chain.                             *)
LEMMA ElsewhereTheChainStands ==
  ASSUME ShapeOK, NEW c \in Call, StepOf(c), ~Enqueue(c), ~Enter(c)
  PROVE  chain' = chain /\ state[c] # "queued" /\ (c \in Outermost => state[c] # "idle")
BY StepMoves
   DEF StepOf, Advance, Begin, ExecuteAlone, FindLocked, Opens, Refuse, Leave, Commit, Fail, Answer,
       Undo, ExecuteInside, FailInside, Join, Called, Goes, database, Moves, OuterMoves,
       NestedMoves

LEMMA EnqueueKeepsChain ==
  ASSUME ShapeOK, ChainOK, NEW c \in Call, Enqueue(c)
  PROVE  ChainOK'
<1> DEFINE p == ProcessOf[c]
<1>1. /\ c \in Outermost /\ p \in Process /\ Moves(c)
      /\ state[c] = "idle" /\ state'[c] = "queued"
  BY StepMoves, CallsAssumption DEF StepOf, Enqueue, Goes, ShapeOK, AccessTypeOK
<1>2. /\ chain[p] \in Seq(Outermost) /\ chain'[p] = Append(chain[p], c)
      /\ \A r \in Process \ {p} : chain'[r] = chain[r]
      /\ chain' \in [Process -> Seq(Outermost)]
  BY CallsAssumption DEF Enqueue, ShapeOK, AccessTypeOK
<1>3. /\ DOMAIN chain'[p] = 1 .. Len(chain[p]) + 1 /\ DOMAIN chain[p] = 1 .. Len(chain[p])
      /\ chain'[p][Len(chain[p]) + 1] = c /\ Len(chain[p]) \in Nat
      /\ \A i \in DOMAIN chain[p] : chain'[p][i] = chain[p][i] /\ chain[p][i] \in Outermost
  BY <1>2
<1>4. \A i \in DOMAIN chain[p] : chain[p][i] # c
  BY <1>1 DEF ChainOK
<1>5. \A d \in Call \ {c} : state'[d] = state[d]
  BY <1>1 DEF Moves
<1> HIDE DEF p
<1>6. \A i \in DOMAIN chain[p] : state'[chain'[p][i]] = state[chain[p][i]]
  BY <1>3, <1>4, <1>5, OutermostCall
<1>7. \A r \in Process \ {p} : \A i \in DOMAIN chain[r] :
        chain[r][i] # c /\ state'[chain[r][i]] = state[chain[r][i]]
  <2> SUFFICES ASSUME NEW r \in Process \ {p}, NEW i \in DOMAIN chain[r]
               PROVE  chain[r][i] # c /\ state'[chain[r][i]] = state[chain[r][i]]
    OBVIOUS
  <2>1. chain[r] \in Seq(Outermost)
    BY DEF ShapeOK, AccessTypeOK
  <2>2. chain[r][i] \in Outermost
    BY <2>1
  <2> QED BY <1>5, <2>2, OutermostCall DEF ChainOK, p
<1>8. \A r \in Process : \A i \in DOMAIN chain'[r] :
        ProcessOf[chain'[r][i]] = r /\ state'[chain'[r][i]] # "idle"
  <2>1. \A i \in DOMAIN chain'[p] :
          ProcessOf[chain'[p][i]] = p /\ state'[chain'[p][i]] # "idle"
    BY <1>1, <1>3, <1>6 DEF ChainOK, p
  <2> QED BY <1>2, <1>7, <2>1 DEF ChainOK
<1>9. \A r \in Process : \A i, j \in DOMAIN chain'[r] : chain'[r][i] = chain'[r][j] => i = j
  <2>1. \A i, j \in DOMAIN chain'[p] : chain'[p][i] = chain'[p][j] => i = j
    BY <1>1, <1>3, <1>4 DEF ChainOK
  <2> QED BY <1>2, <2>1 DEF ChainOK
<1>10. \A d \in Outermost :
         state'[d] \in {"queued", "opening", "open", "applied", "undoing"} =>
           \E i \in DOMAIN chain'[ProcessOf[d]] : chain'[ProcessOf[d]][i] = d
  <2>1. \E i \in DOMAIN chain'[p] : chain'[p][i] = c
    BY <1>3
  <2> SUFFICES ASSUME NEW d \in Outermost, d # c,
                      state[d] \in {"queued", "opening", "open", "applied", "undoing"}
               PROVE  \E i \in DOMAIN chain'[ProcessOf[d]] : chain'[ProcessOf[d]][i] = d
    BY <1>5, <2>1, OutermostCall DEF p
  <2>2. PICK i \in DOMAIN chain[ProcessOf[d]] : chain[ProcessOf[d]][i] = d
    BY DEF ChainOK
  <2>3. CASE ProcessOf[d] = p
    BY <1>3, <2>2, <2>3
  <2>4. CASE ProcessOf[d] # p
    BY <1>2, <2>2, <2>4, OutermostCall, CallsAssumption
  <2> QED BY <2>3, <2>4
<1>11. FirstCalledFirstServed'
  <2>1. \A i, j \in DOMAIN chain'[p] :
          i < j /\ state'[chain'[p][j]] # "queued" => state'[chain'[p][i]] \in Settled
    BY <1>1, <1>3, <1>6 DEF ChainOK, FirstCalledFirstServed
  <2>2. \A r \in Process \ {p} : \A i, j \in DOMAIN chain'[r] :
          i < j /\ state'[chain'[r][j]] # "queued" => state'[chain'[r][i]] \in Settled
    BY <1>2, <1>7 DEF ChainOK, FirstCalledFirstServed
  <2> QED BY <2>1, <2>2 DEF FirstCalledFirstServed
<1> QED BY <1>8, <1>9, <1>10, <1>11 DEF ChainOK

(* Whoever enters follows one that has released, and so all before it have. *)
LEMMA EnterKeepsOrder ==
  ASSUME ShapeOK, ChainOK, NEW c \in Call, Enter(c)
  PROVE  FirstCalledFirstServed'
<1> DEFINE p == ProcessOf[c]
           line == chain[p]
<1>1. Moves(c) /\ p \in Process /\ state[c] = "queued" /\ state'[c] = "opening"
  BY StepMoves, CallsAssumption DEF StepOf, Advance, Enter, Goes, ShapeOK, AccessTypeOK
<1>2. PICK k \in DOMAIN line : line[k] = c /\ (k > 1 => state[line[k - 1]] \in Settled)
  BY DEF Enter, PreviousReleased
<1>3. line \in Seq(Outermost) /\ chain' = chain
  BY <1>1 DEF ShapeOK, AccessTypeOK, Enter
<1>4. \A i \in DOMAIN line : i < k => state[line[i]] \in Settled
  <2> SUFFICES ASSUME NEW i \in DOMAIN line, i < k PROVE state[line[i]] \in Settled
    OBVIOUS
  <2>1. k - 1 \in DOMAIN line /\ i \in Nat /\ k \in Nat /\ k > 1
    BY <1>3
  <2>2. state[line[k - 1]] \in Settled
    BY <1>2, <2>1
  <2>3. CASE i = k - 1
    BY <2>2, <2>3
  <2>4. CASE i < k - 1
    BY <1>1, <2>1, <2>2, <2>4 DEF ChainOK, FirstCalledFirstServed, Settled
  <2> QED BY <2>1, <2>3, <2>4
<1>5. \A d \in Call \ {c} : state'[d] = state[d]
  BY <1>1 DEF Moves
<1>6. \A r \in Process : \A i \in DOMAIN chain[r] : chain[r][i] \in Call
  <2> SUFFICES ASSUME NEW r \in Process, NEW i \in DOMAIN chain[r] PROVE chain[r][i] \in Call
    OBVIOUS
  <2>1. chain[r] \in Seq(Outermost)
    BY DEF ShapeOK, AccessTypeOK
  <2> QED BY <2>1, OutermostCall
<1> SUFFICES ASSUME NEW r \in Process, NEW i \in DOMAIN chain[r], NEW j \in DOMAIN chain[r],
                    i < j, state'[chain[r][j]] # "queued"
             PROVE  state'[chain[r][i]] \in Settled
  BY <1>3 DEF FirstCalledFirstServed
<1>7. state[chain[r][i]] \in Settled
  <2>1. CASE chain[r][j] = c
    <3>1. r = p /\ j = k
      BY <1>2, <2>1 DEF ChainOK
    <3> QED BY <1>4, <3>1
  <2>2. CASE chain[r][j] # c
    BY <1>5, <1>6, <2>2 DEF ChainOK, FirstCalledFirstServed
  <2> QED BY <2>1, <2>2
<1> QED BY <1>1, <1>5, <1>6, <1>7 DEF Settled

LEMMA ChainKept == ASSUME ShapeOK, ChainOK, [Next]_vars PROVE ChainOK'
<1>0. \A r \in Process : \A i \in DOMAIN chain[r] : chain[r][i] \in Outermost /\ chain[r][i] \in Call
  <2> SUFFICES ASSUME NEW r \in Process, NEW i \in DOMAIN chain[r]
               PROVE  chain[r][i] \in Outermost /\ chain[r][i] \in Call
    OBVIOUS
  <2>1. chain[r] \in Seq(Outermost)
    BY DEF ShapeOK, AccessTypeOK
  <2> QED BY <2>1, OutermostCall
<1>1. ASSUME NEW c \in Call, StepOf(c), ~Enqueue(c) PROVE ChainOK'
  <2>1. Moves(c) /\ chain' = chain /\ (c \in Outermost => state[c] # "idle")
    BY <1>1, StepMoves, ElsewhereTheChainStands DEF Enter, Goes
  <2>2. /\ \A d \in Call \ {c} : state'[d] = state[d]
        /\ state'[c] # "idle" /\ state[c] \notin Settled
        /\ c \in Outermost => state[c] \in {"queued", "opening", "open", "applied", "undoing"}
    BY <2>1 DEF Moves, OuterMoves, NestedMoves, Settled, Nested
  <2>3. \A d \in Outermost :
          state'[d] \in {"queued", "opening", "open", "applied", "undoing"} =>
            state[d] \in {"queued", "opening", "open", "applied", "undoing"}
    BY <2>2, OutermostCall
  <2>4. FirstCalledFirstServed'
    <3>1. CASE Enter(c)
      BY <3>1, EnterKeepsOrder
    <3>2. CASE ~Enter(c)
      <4>1. state[c] # "queued"
        BY <1>1, <3>2, ElsewhereTheChainStands
      <4> SUFFICES ASSUME NEW r \in Process, NEW i \in DOMAIN chain[r],
                          NEW j \in DOMAIN chain[r],
                          i < j, state'[chain[r][j]] # "queued"
                   PROVE  state'[chain[r][i]] \in Settled
        BY <2>1 DEF FirstCalledFirstServed
      <4>2. state[chain[r][j]] # "queued"
        BY <1>0, <2>2, <4>1
      <4>3. state[chain[r][i]] \in Settled
        BY <4>2 DEF ChainOK, FirstCalledFirstServed
      <4> QED BY <1>0, <2>2, <4>3
    <3> QED BY <3>1, <3>2
  <2> QED BY <1>0, <2>1, <2>2, <2>3, <2>4 DEF ChainOK
<1>2. ASSUME NEW p \in Process, Crash(p) PROVE ChainOK'
  <2> USE CrashMoves
  <2>1. \A r \in Process \ {p} : /\ chain'[r] = chain[r]
                                 /\ \A i \in DOMAIN chain[r] :
                                      state'[chain[r][i]] = state[chain[r][i]]
    BY <1>0, <1>2 DEF ChainOK
  <2>2. chain'[p] = << >> /\ DOMAIN chain'[p] = {}
    BY <1>2
  <2>3. FirstCalledFirstServed'
    BY <2>1, <2>2 DEF ChainOK, FirstCalledFirstServed
  <2>4. \A c \in Outermost :
          state'[c] \in {"queued", "opening", "open", "applied", "undoing"} =>
            ProcessOf[c] # p /\ ProcessOf[c] \in Process /\ state[c] = state'[c]
    BY <1>2, OutermostCall, CallsAssumption DEF Settled
  <2> QED BY <2>1, <2>2, <2>3, <2>4 DEF ChainOK
<1>3. CASE UNCHANGED vars
  BY <1>3 DEF vars, ChainOK, FirstCalledFirstServed
<1> QED BY <1>1, <1>2, <1>3, EnqueueKeepsChain DEF Next, StepOf

LEMMA InitChain == ASSUME Init PROVE ChainOK
<1>1. \A p \in Process : chain[p] = << >> /\ DOMAIN chain[p] = {}
  <2>1. DOMAIN << >> = {}
    OBVIOUS
  <2> QED BY <2>1 DEF Init
<1> QED BY <1>1, OutermostCall DEF Init, ChainOK, FirstCalledFirstServed

(* A process has one operation at the database at a time, and serves them   *)
(* in the order of the calls.                                               *)
THEOREM ServedInOrder == Spec => []FirstCalledFirstServed
<1>1. Spec => [](ShapeOK /\ ChainOK)
  BY InitShape, ShapeKept, InitChain, ChainKept, PTL DEF Spec
<1> QED BY <1>1, PTL DEF ChainOK

------------------------------------------------------------------------------
(* Nested calls and the calls around them.                                  *)

NestingOK ==
  /\ \A c \in Nested : state[c] = "joined" =>
       state[Parent[c]] \in {"open", "joined"} /\ state[Root[c]] = "open"
  /\ \A c \in Nested : state[c] = "thrown" =>
       /\ state[Parent[c]] \in {"open", "joined", "undoing", "thrown", "lost"}
       /\ Root[c] \notin applied
  /\ \A c \in Nested : state[c] = "lost" => state[Root[c]] = "lost"
  /\ \A t \in Outermost : state[t] \in {"applied", "returned"} => t \in applied
  /\ \A t \in applied : state[t] \in {"applied", "undoing"} \cup Settled

(* The callback that makes a call runs in an open transaction.              *)
LEMMA CalledInOpen ==
  ASSUME ShapeOK, NestingOK, NEW c \in Call, Called(c)
  PROVE  /\ c \in Nested /\ state[Root[c]] = "open" /\ Root[c] \notin applied
         /\ state[Parent[c]] \in {"open", "joined"}
<1>1. c \in Nested /\ state[Parent[c]] \in {"open", "joined"}
  BY DEF Called, Running, Nested
<1>2. state[Root[c]] = "open"
  <2>1. CASE Parent[c] \in Outermost
    BY <1>1, <2>1, NestedCall DEF ShapeOK
  <2>2. CASE Parent[c] \in Nested
    BY <1>1, <2>2, NestedCall DEF ShapeOK, NestingOK, Settled
  <2> QED BY <1>1, <2>1, <2>2, NestedCall DEF Nested
<1>3. Root[c] \notin applied
  BY <1>2 DEF NestingOK, Settled
<1> QED BY <1>1, <1>2, <1>3

(* A transaction that awaits no call awaits none at any depth.              *)
LEMMA NoneAwaited ==
  ASSUME ShapeOK, NestingOK, NEW t \in Outermost, ~Awaits(t),
         NEW c \in Nested, Root[c] = t
  PROVE  state[c] # "joined"
<1> DEFINE Awaited == {d \in Nested : Root[d] = t /\ state[d] = "joined"}
<1> SUFFICES ASSUME Awaited # {} PROVE FALSE
  OBVIOUS
<1>1. PICK d \in Awaited : Parent[d] \notin Awaited
  BY NestingIsWellFounded
<1>2. state[Parent[d]] \in {"open", "joined"}
  BY <1>1 DEF NestingOK
<1>3. Parent[d] \in Outermost
  BY <1>1, <1>2, NestedCall DEF Nested, ShapeOK, Settled
<1>4. Parent[d] = t
  BY <1>1, <1>3, NestedCall
<1> QED BY <1>1, <1>4, NestedCall DEF Awaits, Settled

(* ... and one that commits has seen no call throw, at any depth: none of   *)
(* the callbacks between keeps an error to itself.                          *)
LEMMA NoneThrown ==
  ASSUME ShapeOK, NestingOK, NEW t \in Outermost, Running(t),
         NEW c \in Nested, Root[c] = t
  PROVE  state[c] # "thrown"
<1> DEFINE Failed == {d \in Nested : Root[d] = t /\ state[d] \in {"thrown", "joined", "lost"}}
<1> SUFFICES ASSUME Failed # {} PROVE FALSE
  OBVIOUS
<1>1. PICK d \in Failed : Parent[d] \notin Failed
  BY NestingIsWellFounded
<1>2. state[t] = "open" /\ ~Awaits(t)
  BY DEF Running, ShapeOK
<1>3. state[d] # "joined" /\ state[d] # "lost"
  BY <1>1, <1>2, NoneAwaited DEF NestingOK
<1>4. state[Parent[d]] \in {"open", "joined", "undoing", "thrown", "lost"}
  BY <1>1, <1>3 DEF NestingOK
<1>5. Parent[d] \in Outermost
  BY <1>1, <1>4, NestedCall DEF Nested, ShapeOK, Settled
<1>6. Parent[d] = t
  BY <1>1, <1>5, NestedCall
<1> QED BY <1>1, <1>3, <1>6, NestedCall DEF Running

LEMMA StatementsHoldNothing ==
  ASSUME NEW t \in Outermost, Kind[t] = "statement", NEW c \in Nested
  PROVE  Root[c] # t
<1> DEFINE Inside == {d \in Nested : Root[d] = t}
<1> SUFFICES ASSUME Inside # {} PROVE FALSE
  OBVIOUS
<1>1. PICK d \in Inside : Parent[d] \notin Inside
  BY NestingIsWellFounded
<1>2. Parent[d] \in Outermost
  BY <1>1, NestedCall DEF Nested
<1> QED BY <1>1, <1>2, NestedCall

(* What changes applied, and how a call leaves the state of its callback.   *)
LEMMA AppliedByCommit ==
  ASSUME ShapeOK, NEW c \in Call, StepOf(c)
  PROVE  IF ExecuteAlone(c) \/ Commit(c)
         THEN c \in Outermost /\ state'[c] = "applied" /\ applied' = applied \cup {c}
         ELSE applied' = applied /\ state'[c] # "applied"
<1>1. CASE ExecuteAlone(c) \/ Commit(c)
  BY <1>1, StepMoves DEF ExecuteAlone, Opens, Commit, Goes, Moves, OuterMoves, NestedMoves
<1>2. CASE ~(ExecuteAlone(c) \/ Commit(c))
  <2>1. applied' = applied
    BY <1>2 DEF StepOf, Advance, Enqueue, Enter, Begin, FindLocked, Opens, Refuse, Leave, Fail,
                Answer, Undo, ExecuteInside, FailInside, Join, database
  <2>2. state \in [Call -> {"idle", "queued", "opening", "open", "joined",
                            "applied", "undoing"} \cup Settled]
    BY DEF ShapeOK, AccessTypeOK
  <2>3. state'[c] # "applied"
    BY <1>2, <2>2, CallsAssumption
    DEF StepOf, Advance, Enqueue, Enter, Begin, FindLocked, Opens, Refuse, Leave, Fail, Answer,
        Undo, ExecuteInside, FailInside, Join, Goes
  <2> QED BY <1>2, <2>1, <2>3
<1> QED BY <1>1, <1>2

(* A nested call starts because a callback makes it, and ends as its own    *)
(* callback does; a transaction ends only with its callback.                *)
LEMMA Guards ==
  ASSUME ShapeOK, NEW c \in Call, StepOf(c)
  PROVE  /\ c \in Nested /\ state[c] = "idle" => Called(c)
         /\ state[c] = "joined" => ~Awaits(c)
         /\ state[c] = "joined" /\ state'[c] = "returned" => Running(c)
         /\ state[c] = "open" => ~Awaits(c)
         /\ Commit(c) => Running(c) /\ state[c] = "open"
         /\ ExecuteAlone(c) => Kind[c] = "statement" /\ state[c] = "opening"
<1> USE DEF Goes, Opens
<1>0. state \in [Call -> {"idle", "queued", "opening", "open", "joined",
                          "applied", "undoing"} \cup Settled]
  BY DEF ShapeOK, AccessTypeOK
<1>1. CASE Leave(c)
  <2>1. CASE Running(c) /\ Goes(c, "joined", "returned")
    BY <1>0, <2>1 DEF Running, ExecuteAlone, Commit
  <2>2. CASE ~Awaits(c) /\ Goes(c, "joined", "thrown")
    BY <1>0, <2>2 DEF ExecuteAlone, Commit
  <2> QED BY <1>1, <2>1, <2>2 DEF Leave
<1>2. CASE Commit(c)
  BY <1>0, <1>2 DEF Commit, ExecuteAlone, Running
<1>3. CASE Fail(c)
  BY <1>0, <1>3 DEF Fail, ExecuteAlone, Commit
<1>4. CASE Enqueue(c)
  BY <1>4 DEF Enqueue, Nested, ExecuteAlone, Commit
<1>5. CASE ExecuteInside(c) \/ FailInside(c) \/ Join(c)
  BY <1>5 DEF ExecuteInside, FailInside, Join, ExecuteAlone, Commit
<1>6. CASE state[c] \in {"queued", "opening", "applied", "undoing"}
  BY <1>6 DEF ExecuteAlone, Commit
<1> QED
  BY <1>1, <1>2, <1>3, <1>4, <1>5, <1>6
  DEF StepOf, Advance, Enter, Begin, ExecuteAlone, FindLocked, Opens, Refuse, Answer, Undo

LEMMA InitNesting == ASSUME Init PROVE NestingOK
BY DEF Init, NestingOK, Nested, Outermost

LEMMA NestedStepKeepsNesting ==
  ASSUME ShapeOK, NestingOK, NEW c \in Nested, StepOf(c)
  PROVE  NestingOK'
<1>1. /\ c \in Call /\ Moves(c) /\ applied' = applied
      /\ \A d \in Call \ {c} : state'[d] = state[d]
      /\ << state[c], state'[c] >> \in NestedMoves
  BY StepMoves, AppliedByCommit DEF Nested, Moves
<1>2. state[Root[c]] = "open" /\ Root[c] \notin applied
      /\ state[Parent[c]] \in {"open", "joined"}
  <2>1. CASE state[c] = "idle"
    BY <1>1, <2>1, CalledInOpen, Guards
  <2>2. CASE state[c] = "joined"
    BY <2>2, NestedCall DEF NestingOK, Settled
  <2> QED BY <1>1, <2>1, <2>2 DEF NestedMoves
<1>3. Parent[c] # c /\ Root[c] # c /\ \A d \in Nested : Root[d] # c
  <2>1. {c} \in SUBSET Nested
    OBVIOUS
  <2>2. Parent[c] # c
    BY <2>1, NestingIsWellFounded
  <2> QED BY <2>2, NestedCall DEF Nested
<1>4. \A t \in Outermost : state'[t] = state[t]
  BY <1>1, OutermostCall DEF Nested
<1>5. \A d \in Nested : Parent[d] = c =>
        /\ state[c] = "joined" => state[d] # "joined"
        /\ state[c] = "joined" /\ state'[c] = "returned" => state[d] # "thrown"
  BY <1>1, Guards DEF Awaits, Running, Nested, Settled
<1>6. \A d \in Nested \ {c} : state[d] = "joined" =>
        state'[Parent[d]] \in {"open", "joined"} /\ state[Root[d]] = "open"
  <2> SUFFICES ASSUME NEW d \in Nested \ {c}, state[d] = "joined"
               PROVE  state'[Parent[d]] \in {"open", "joined"} /\ state[Root[d]] = "open"
    OBVIOUS
  <2>1. state[Parent[d]] \in {"open", "joined"} /\ state[Root[d]] = "open"
    BY DEF NestingOK
  <2>2. CASE Parent[d] # c
    BY <1>1, <2>1, <2>2, NestedCall
  <2>3. CASE Parent[d] = c
    BY <1>1, <1>5, <2>1, <2>3 DEF NestedMoves
  <2> QED BY <2>1, <2>2, <2>3
<1>7. \A d \in Nested \ {c} : state[d] = "thrown" =>
        /\ state'[Parent[d]] \in {"open", "joined", "undoing", "thrown", "lost"}
        /\ Root[d] \notin applied
  <2> SUFFICES ASSUME NEW d \in Nested \ {c}, state[d] = "thrown"
               PROVE  /\ state'[Parent[d]] \in {"open", "joined", "undoing", "thrown", "lost"}
                      /\ Root[d] \notin applied
    OBVIOUS
  <2>1. /\ state[Parent[d]] \in {"open", "joined", "undoing", "thrown", "lost"}
        /\ Root[d] \notin applied
    BY DEF NestingOK
  <2>2. CASE Parent[d] # c
    BY <1>1, <2>1, <2>2, NestedCall
  <2>3. CASE Parent[d] = c
    BY <1>1, <1>5, <2>1, <2>3 DEF NestedMoves
  <2> QED BY <2>1, <2>2, <2>3
<1>8. \A d \in Nested \ {c} : d \in Call /\ state'[d] = state[d]
  BY <1>1 DEF Nested
<1>9. \A d \in Nested : Root[d] \in Outermost /\ state'[Root[d]] = state[Root[d]]
  BY <1>4, NestedCall
<1>10. state'[c] # "lost"
  BY <1>1 DEF NestedMoves
<1>11. state'[Parent[c]] = state[Parent[c]]
  BY <1>1, <1>3, NestedCall
<1>12. \A d \in Nested : state'[d] = "joined" =>
         state'[Parent[d]] \in {"open", "joined"} /\ state'[Root[d]] = "open"
  BY <1>2, <1>6, <1>8, <1>9, <1>11
<1>13. \A d \in Nested : state'[d] = "thrown" =>
         /\ state'[Parent[d]] \in {"open", "joined", "undoing", "thrown", "lost"}
         /\ Root[d] \notin applied
  BY <1>2, <1>7, <1>8, <1>11
<1>14. \A d \in Nested : state'[d] = "lost" => state'[Root[d]] = "lost"
  BY <1>8, <1>9, <1>10 DEF NestingOK
<1>15. applied \subseteq Outermost
  BY DEF ShapeOK, AccessTypeOK
<1> QED BY <1>1, <1>4, <1>12, <1>13, <1>14, <1>15 DEF NestingOK

LEMMA OutermostStepKeepsNesting ==
  ASSUME ShapeOK, NestingOK, NEW t \in Outermost, StepOf(t)
  PROVE  NestingOK'
<1>1. /\ t \in Call /\ t \notin Nested /\ Moves(t)
      /\ \A d \in Call \ {t} : state'[d] = state[d]
      /\ << state[t], state'[t] >> \in OuterMoves
  BY StepMoves, OutermostCall DEF Nested, Moves
<1>2. \A d \in Nested : d \in Call /\ state'[d] = state[d]
  BY <1>1 DEF Nested
<1>3. \A d \in Nested : Root[d] = t /\ state[d] = "joined" => state[t] = "open" /\ Awaits(t)
  BY NoneAwaited DEF NestingOK
<1>4. \A d \in Nested : Root[d] = t => state[d] # "joined"
  BY <1>1, <1>3, Guards
<1>5. \A d \in Nested : Parent[d] = t => Root[d] = t
  BY NestedCall
<1>6. \A d \in Nested : state[d] = "joined" =>
        state'[Parent[d]] = state[Parent[d]] /\ state'[Root[d]] = state[Root[d]]
  BY <1>1, <1>4, <1>5, NestedCall, OutermostCall
<1>7. \A d \in Nested : state[d] = "lost" => state'[Root[d]] = "lost"
  <2> SUFFICES ASSUME NEW d \in Nested, state[d] = "lost" PROVE state'[Root[d]] = "lost"
    OBVIOUS
  <2>1. state[Root[d]] = "lost"
    BY DEF NestingOK
  <2>2. Root[d] # t
    BY <1>1, <2>1 DEF OuterMoves
  <2> QED BY <1>1, <2>1, <2>2, NestedCall, OutermostCall
<1>8. \A d \in Nested : state[d] = "thrown" =>
        /\ state'[Parent[d]] \in {"open", "joined", "undoing", "thrown", "lost"}
        /\ Root[d] \notin applied'
  <2> SUFFICES ASSUME NEW d \in Nested, state[d] = "thrown"
               PROVE  /\ state'[Parent[d]] \in {"open", "joined", "undoing", "thrown", "lost"}
                      /\ Root[d] \notin applied'
    OBVIOUS
  <2>1. /\ state[Parent[d]] \in {"open", "joined", "undoing", "thrown", "lost"}
        /\ Root[d] \notin applied
    BY DEF NestingOK
  <2>2. Root[d] = t => ~Commit(t) /\ ~ExecuteAlone(t)
    BY <1>1, Guards, NoneThrown, StatementsHoldNothing
  <2>3. Root[d] \notin applied'
    BY <1>1, <2>1, <2>2, AppliedByCommit
  <2>4. state'[t] # "applied" \/ Root[d] # t
    BY <1>1, <2>2, AppliedByCommit
  <2>5. CASE Parent[d] = t
    BY <1>1, <1>5, <2>1, <2>3, <2>4, <2>5 DEF OuterMoves
  <2>6. CASE Parent[d] # t
    BY <1>1, <2>1, <2>3, <2>6, NestedCall
  <2> QED BY <2>5, <2>6
<1>9. \A u \in Outermost : state'[u] \in {"applied", "returned"} => u \in applied'
  <2> SUFFICES ASSUME NEW u \in Outermost, state'[u] \in {"applied", "returned"}
               PROVE  u \in applied'
    OBVIOUS
  <2>1. CASE u # t
    BY <1>1, <2>1, AppliedByCommit, OutermostCall DEF NestingOK
  <2>2. CASE u = t /\ state'[t] = "applied"
    BY <1>1, <2>2, AppliedByCommit
  <2>3. CASE u = t /\ state'[t] = "returned"
    <3>1. state[t] = "applied"
      BY <1>1, <2>3 DEF OuterMoves
    <3> QED BY <1>1, <2>3, <3>1, AppliedByCommit DEF NestingOK
  <2> QED BY <2>1, <2>2, <2>3
<1>10. \A u \in applied' : state'[u] \in {"applied", "undoing"} \cup Settled
  <2> SUFFICES ASSUME NEW u \in applied'
               PROVE  state'[u] \in {"applied", "undoing"} \cup Settled
    OBVIOUS
  <2>1. CASE u # t
    BY <1>1, <2>1, AppliedByCommit, OutermostCall DEF NestingOK, ShapeOK, AccessTypeOK
  <2>2. CASE u = t /\ u \in applied
    BY <1>1, <2>2 DEF NestingOK, OuterMoves, Settled
  <2>3. CASE u = t /\ u \notin applied
    BY <1>1, <2>3, AppliedByCommit
  <2> QED BY <2>1, <2>2, <2>3
<1> QED BY <1>2, <1>6, <1>7, <1>8, <1>9, <1>10 DEF NestingOK

LEMMA CrashKeepsNesting ==
  ASSUME ShapeOK, NestingOK, NEW p \in Process, Crash(p)
  PROVE  NestingOK'
<1>1. \A c \in Call :
        IF ProcessOf[c] = p /\ state[c] \notin Settled \cup {"idle"}
        THEN state'[c] = "lost" ELSE state'[c] = state[c]
  BY CrashMoves
<1>2. applied' = applied /\ applied \subseteq Outermost
  BY DEF Crash, database, ShapeOK, AccessTypeOK
<1>3. \A c \in Nested : /\ c \in Call /\ Parent[c] \in Call /\ Root[c] \in Call
                        /\ ProcessOf[Root[c]] = ProcessOf[c]
                        /\ ProcessOf[Parent[c]] = ProcessOf[c]
  <2> SUFFICES ASSUME NEW c \in Nested
               PROVE  /\ c \in Call /\ Parent[c] \in Call /\ Root[c] \in Call
                      /\ ProcessOf[Root[c]] = ProcessOf[c]
                      /\ ProcessOf[Parent[c]] = ProcessOf[c]
    OBVIOUS
  <2>1. /\ c \in Call /\ Parent[c] \in Call /\ Root[c] \in Call
        /\ ProcessOf[Root[c]] = ProcessOf[c] /\ Root[Parent[c]] = Root[c]
    BY NestedCall, OutermostCall
  <2>2. ProcessOf[Parent[c]] = ProcessOf[Root[Parent[c]]]
    BY <2>1, NestedCall, OutermostCall DEF Nested
  <2> QED BY <2>1, <2>2
<1>4. \A c \in Nested : state'[c] = "joined" =>
        state'[Parent[c]] \in {"open", "joined"} /\ state'[Root[c]] = "open"
  <2> SUFFICES ASSUME NEW c \in Nested, state'[c] = "joined"
               PROVE  state'[Parent[c]] \in {"open", "joined"} /\ state'[Root[c]] = "open"
    OBVIOUS
  <2>1. ProcessOf[c] # p /\ state[c] = "joined"
    BY <1>1, <1>3 DEF Settled
  <2> QED BY <1>1, <1>3, <2>1 DEF NestingOK
<1>5. \A c \in Nested : state'[c] = "thrown" =>
        /\ state'[Parent[c]] \in {"open", "joined", "undoing", "thrown", "lost"}
        /\ Root[c] \notin applied
  <2> SUFFICES ASSUME NEW c \in Nested, state'[c] = "thrown"
               PROVE  /\ state'[Parent[c]] \in {"open", "joined", "undoing", "thrown", "lost"}
                      /\ Root[c] \notin applied
    OBVIOUS
  <2>1. state[c] = "thrown"
    BY <1>1, <1>3
  <2> QED BY <1>1, <1>3, <2>1 DEF NestingOK
<1>6. \A c \in Nested : state'[c] = "lost" => state'[Root[c]] = "lost"
  <2> SUFFICES ASSUME NEW c \in Nested, state'[c] = "lost" PROVE state'[Root[c]] = "lost"
    OBVIOUS
  <2>1. CASE state[c] = "lost"
    BY <1>1, <1>3, <2>1 DEF NestingOK, Settled
  <2>2. CASE state[c] # "lost"
    <3>1. ProcessOf[c] = p /\ state[c] = "joined"
      BY <1>1, <1>3, <2>2 DEF ShapeOK, Settled
    <3> QED BY <1>1, <1>3, <3>1 DEF NestingOK, Settled
  <2> QED BY <2>1, <2>2
<1>7. \A t \in Outermost : state'[t] \in {"applied", "returned"} => t \in applied
  BY <1>1, OutermostCall DEF NestingOK
<1>8. \A t \in applied : state'[t] \in {"applied", "undoing"} \cup Settled
  BY <1>1, <1>2, OutermostCall DEF NestingOK, Settled
<1> QED BY <1>2, <1>4, <1>5, <1>6, <1>7, <1>8 DEF NestingOK

LEMMA NestingKept == ASSUME ShapeOK, NestingOK, [Next]_vars PROVE NestingOK'
<1>1. ASSUME NEW c \in Call, StepOf(c) PROVE NestingOK'
  BY <1>1, NestedStepKeepsNesting, OutermostStepKeepsNesting DEF Nested
<1>2. CASE UNCHANGED vars
  BY <1>2 DEF vars, NestingOK
<1> QED BY <1>1, <1>2, CrashKeepsNesting DEF Next, StepOf

------------------------------------------------------------------------------
(* What is written, and what is seen.                                       *)

Early == {"idle", "queued", "opening"}

WrittenOK ==
  /\ \A t \in Outermost : Kind[t] # "statement" => written[t] = Told(t)
  /\ \A t \in Outermost : Kind[t] = "statement" =>
       written[t] = IF t \in applied THEN {t} \cap Writing ELSE {}
  /\ \A t \in Outermost :
       store \cap Within(t) = IF t \in applied THEN written[t] ELSE {}
  /\ \A t \in Outermost : Kind[t] = "read" => Told(t) = {}

(* A transaction sees one store.  No two write transactions are open, so    *)
(* the one that is sees the store there is.                                 *)
SeenOK ==
  /\ \A t \in Outermost : state[t] \in Early => view[t] = {}
  /\ \A t \in Outermost : state[t] \in {"open", "undoing"} \/ t \in applied =>
       \E s \in SUBSET Writing : view[t] = {s}
  /\ \A t, u \in Outermost :
       /\ Kind[t] = "write" /\ state[t] = "open"
       /\ Kind[u] = "write" /\ state[u] = "open"
       => t = u
  /\ WritersAreSerial
  /\ \A c \in Nested : Kind[Root[c]] = "read" /\ saw[c] # {} =>
       state[Root[c]] \notin Early /\ saw[c] = view[Root[c]]

StoreOK == WrittenOK /\ SeenOK

(* A step that leaves the database alone: an outermost call goes on, and no *)
(* statement in a transaction succeeds.                                     *)
LeavesDatabase ==
  /\ UNCHANGED database
  /\ \A t \in Outermost :
       /\ state'[t] \in Early => state[t] \in Early
       /\ state'[t] = "open" => state[t] = "open"
       /\ state'[t] = "undoing" => state[t] \in {"open", "undoing"} \/ t \in applied
  /\ \A c \in Nested \cap Writing : state'[c] = "returned" <=> state[c] = "returned"

LEMMA ToldBy ==
  ASSUME NEW t \in Outermost
  PROVE  /\ Told(t) = {c \in Nested \cap Writing : Root[c] = t /\ state[c] = "returned"}
         /\ Told(t)' = {c \in Nested \cap Writing : Root[c] = t /\ state'[c] = "returned"}
         /\ Told(t) \subseteq Within(t) \cap Writing
<1>1. \A c \in Within(t) : c # t <=> c \in Nested
  BY OutermostCall, NestedCall DEF Within, Nested
<1>2. Writing \subseteq Call
  BY CallsAssumption
<1> QED BY <1>1, <1>2 DEF Told, Within, Nested

LEMMA DatabaseLeft ==
  ASSUME StoreOK, LeavesDatabase
  PROVE  StoreOK'
<1>1. \A t \in Outermost : Told(t)' = Told(t)
  <2> SUFFICES ASSUME NEW t \in Outermost PROVE Told(t)' = Told(t)
    OBVIOUS
  <2> QED BY ToldBy DEF LeavesDatabase
<1>2. WrittenOK'
  BY <1>1 DEF StoreOK, WrittenOK, LeavesDatabase, database, Within
<1>3. \A c \in Nested : Root[c] \in Outermost
  BY NestedCall
<1>4. SeenOK'
  BY <1>3 DEF StoreOK, SeenOK, WritersAreSerial, LeavesDatabase, database
<1> QED BY <1>2, <1>4 DEF StoreOK

LEMMA BeginKeepsStore ==
  ASSUME ShapeOK, NestingOK, StoreOK, NEW c \in Call, Begin(c)
  PROVE  StoreOK'
<1>1. /\ c \in Outermost /\ state[c] = "opening" /\ state'[c] = "open"
      /\ \A d \in Call \ {c} : state'[d] = state[d]
      /\ c \notin applied
  BY StepMoves
  DEF StepOf, Advance, Begin, Opens, Goes, Moves, OuterMoves, NestedMoves, NestingOK, Settled
<1>2. /\ UNCHANGED << written, saw, store, applied >> /\ view'[c] = {store}
      /\ \A d \in Call \ {c} : view'[d] = view[d]
      /\ store \in SUBSET Writing
  BY DEF Begin, ShapeOK, AccessTypeOK
<1>3. Kind[c] = "write" => \A d \in Outermost : Kind[d] = "write" => state[d] # "open"
  BY DEF Begin, Locked
<1>4. \A t \in Outermost : Told(t)' = Told(t)
  <2> SUFFICES ASSUME NEW t \in Outermost PROVE Told(t)' = Told(t)
    OBVIOUS
  <2> QED BY <1>1, ToldBy DEF Nested
<1>5. WrittenOK'
  BY <1>2, <1>4 DEF StoreOK, WrittenOK, Within
<1>6. \A t \in Outermost \ {c} : t \in Call /\ view'[t] = view[t] /\ state'[t] = state[t]
  BY <1>1, <1>2, OutermostCall
<1>7. /\ \A t \in Outermost : state'[t] \in Early => view'[t] = {}
      /\ \A t \in Outermost : state'[t] \in {"open", "undoing"} \/ t \in applied =>
           \E s \in SUBSET Writing : view'[t] = {s}
  BY <1>1, <1>2, <1>6 DEF StoreOK, SeenOK, Early
<1>8. /\ WritersAreSerial'
      /\ \A t, u \in Outermost :
           /\ Kind[t] = "write" /\ state'[t] = "open"
           /\ Kind[u] = "write" /\ state'[u] = "open"
           => t = u
  BY <1>1, <1>2, <1>3, <1>6 DEF StoreOK, SeenOK, WritersAreSerial
<1>9. \A d \in Nested : Kind[Root[d]] = "read" /\ saw[d] # {} =>
        state'[Root[d]] \notin Early /\ saw[d] = view'[Root[d]]
  BY <1>1, <1>6, NestedCall DEF StoreOK, SeenOK, Early
<1> QED BY <1>2, <1>5, <1>7, <1>8, <1>9 DEF StoreOK, SeenOK

LEMMA ExecuteAloneKeepsStore ==
  ASSUME ShapeOK, NestingOK, StoreOK, NEW c \in Call, ExecuteAlone(c)
  PROVE  StoreOK'
<1>1. /\ c \in Outermost /\ state[c] = "opening" /\ state'[c] = "applied"
      /\ \A d \in Call \ {c} : state'[d] = state[d]
      /\ c \notin applied
  BY StepMoves
  DEF StepOf, Advance, ExecuteAlone, Opens, Goes, Moves, OuterMoves, NestedMoves, NestingOK, Settled
<1>2. /\ view'[c] = {store} /\ \A d \in Call \ {c} : view'[d] = view[d]
      /\ written'[c] = {c} \cap Writing /\ \A d \in Call \ {c} : written'[d] = written[d]
      /\ store' = store \cup ({c} \cap Writing)
      /\ applied' = applied \cup {c} /\ saw' = saw
      /\ store \in SUBSET Writing /\ Kind[c] = "statement"
  BY DEF ExecuteAlone, ShapeOK, AccessTypeOK
<1>3. c \in Writing => \A d \in Outermost : Kind[d] = "write" => state[d] # "open"
  BY DEF ExecuteAlone, Locked
<1>4. \A t \in Outermost : Told(t)' = Told(t)
  <2> SUFFICES ASSUME NEW t \in Outermost PROVE Told(t)' = Told(t)
    OBVIOUS
  <2> QED BY <1>1, ToldBy DEF Nested
<1>5. \A t \in Outermost \ {c} : /\ t \in Call /\ view'[t] = view[t] /\ state'[t] = state[t]
                                 /\ written'[t] = written[t] /\ c \notin Within(t)
  BY <1>1, <1>2, OutermostCall DEF Within
<1>6. \A t \in Outermost :
        store' \cap Within(t) = IF t \in applied' THEN written'[t] ELSE {}
  <2>1. store' \cap Within(c) = written'[c]
    <3>1. c \in Within(c) /\ store \cap Within(c) = {}
      BY <1>1, OutermostCall DEF Within, StoreOK, WrittenOK
    <3> QED BY <1>2, <3>1
  <2>2. \A t \in Outermost \ {c} : store' \cap Within(t) = store \cap Within(t)
    BY <1>2, <1>5
  <2> QED BY <1>2, <1>5, <2>1, <2>2 DEF StoreOK, WrittenOK
<1>7. WrittenOK'
  <2>1. \A t \in Outermost : Kind[t] # "statement" => written'[t] = Told(t)'
    BY <1>2, <1>4, <1>5 DEF StoreOK, WrittenOK
  <2>2. \A t \in Outermost : Kind[t] = "statement" =>
          written'[t] = IF t \in applied' THEN {t} \cap Writing ELSE {}
    BY <1>2, <1>5 DEF StoreOK, WrittenOK
  <2>3. \A t \in Outermost : Kind[t] = "read" => Told(t)' = {}
    BY <1>4 DEF StoreOK, WrittenOK
  <2> QED BY <1>6, <2>1, <2>2, <2>3 DEF WrittenOK, Within
<1>8. /\ \A t \in Outermost : state'[t] \in Early => view'[t] = {}
      /\ \A t \in Outermost : state'[t] \in {"open", "undoing"} \/ t \in applied' =>
           \E s \in SUBSET Writing : view'[t] = {s}
  BY <1>1, <1>2, <1>5 DEF StoreOK, SeenOK, Early
<1>9. /\ WritersAreSerial'
      /\ \A t, u \in Outermost :
           /\ Kind[t] = "write" /\ state'[t] = "open"
           /\ Kind[u] = "write" /\ state'[u] = "open"
           => t = u
  <2>1. c \notin Writing => store' = store
    BY <1>2
  <2> QED BY <1>1, <1>3, <1>5, <2>1 DEF StoreOK, SeenOK, WritersAreSerial
<1>10. \A d \in Nested : Kind[Root[d]] = "read" /\ saw[d] # {} =>
         state'[Root[d]] \notin Early /\ saw[d] = view'[Root[d]]
  BY <1>1, <1>5, NestedCall DEF StoreOK, SeenOK, Early
<1> QED BY <1>2, <1>7, <1>8, <1>9, <1>10 DEF StoreOK, SeenOK

LEMMA ExecuteInsideKeepsStore ==
  ASSUME ShapeOK, NestingOK, StoreOK, NEW c \in Call, ExecuteInside(c)
  PROVE  StoreOK'
<1> DEFINE t == Root[c]
<1>1. /\ c \in Nested /\ t \in Outermost /\ t \in Call /\ state[t] = "open" /\ t \notin applied
      /\ Kind[c] = "statement"
  BY CalledInOpen, NestedCall, OutermostCall DEF ExecuteInside
<1>2. /\ state[c] = "idle" /\ state'[c] = "returned"
      /\ \A d \in Call \ {c} : state'[d] = state[d]
  BY StepMoves DEF StepOf, Moves, ExecuteInside, Goes, ShapeOK, AccessTypeOK
<1>3. /\ UNCHANGED << view, store, applied >>
      /\ saw'[c] = {seen \cup written[t] : seen \in view[t]}
      /\ \A d \in Call \ {c} : saw'[d] = saw[d]
      /\ written'[t] = written[t] \cup ({c} \cap Writing)
      /\ \A d \in Call \ {t} : written'[d] = written[d]
      /\ c \in Writing => Kind[t] = "write"
  BY <1>1 DEF ExecuteInside, ShapeOK, AccessTypeOK, Nested
<1>4. Kind[t] # "statement"
  BY <1>1, StatementsHoldNothing
<1> HIDE DEF t
<1>5. Told(t)' = Told(t) \cup ({c} \cap Writing)
  BY <1>1, <1>2, ToldBy DEF Nested, t
<1>6. \A u \in Outermost \ {t} : Told(u)' = Told(u)
  <2> SUFFICES ASSUME NEW u \in Outermost \ {t} PROVE Told(u)' = Told(u)
    OBVIOUS
  <2>1. \A d \in Nested : Root[d] = u => state'[d] = state[d]
    BY <1>2 DEF Nested, t
  <2> QED BY <2>1, ToldBy
<1>7. \A u \in Outermost : state'[u] = state[u]
  BY <1>1, <1>2, OutermostCall DEF Nested
<1>8. Kind[t] = "read" => Told(t)' = {} /\ written[t] = {}
  <2>1. Kind[t] = "read" => Told(t) = {}
    BY <1>1 DEF StoreOK, WrittenOK
  <2>2. Kind[t] = "read" => {c} \cap Writing = {}
    BY <1>3
  <2> QED BY <1>1, <1>4, <1>5, <2>1, <2>2 DEF StoreOK, WrittenOK
<1>9. WrittenOK'
  <2>1. \A u \in Outermost : Kind[u] # "statement" => written'[u] = Told(u)'
    <3>1. written'[t] = Told(t)'
      BY <1>1, <1>3, <1>4, <1>5 DEF StoreOK, WrittenOK
    <3>2. \A u \in Outermost \ {t} : written'[u] = written[u]
      BY <1>3, OutermostCall
    <3> QED BY <1>6, <3>1, <3>2 DEF StoreOK, WrittenOK
  <2>2. \A u \in Outermost \ {t} : written'[u] = written[u] /\ u \in Call
    BY <1>3, OutermostCall
  <2>3. \A u \in Outermost : Kind[u] = "statement" =>
          written'[u] = IF u \in applied THEN {u} \cap Writing ELSE {}
    BY <1>4, <2>2 DEF StoreOK, WrittenOK
  <2>4. \A u \in Outermost : store \cap Within(u) = IF u \in applied THEN written'[u] ELSE {}
    BY <1>1, <2>2 DEF StoreOK, WrittenOK
  <2>5. \A u \in Outermost : Kind[u] = "read" => Told(u)' = {}
    BY <1>6, <1>8 DEF StoreOK, WrittenOK
  <2> QED BY <1>3, <2>1, <2>3, <2>4, <2>5 DEF WrittenOK, Within
<1>10. \A d \in Nested : Kind[Root[d]] = "read" /\ saw'[d] # {} =>
         state'[Root[d]] \notin Early /\ saw'[d] = view[Root[d]]
  <2> SUFFICES ASSUME NEW d \in Nested, Kind[Root[d]] = "read", saw'[d] # {}
               PROVE  state'[Root[d]] \notin Early /\ saw'[d] = view[Root[d]]
    OBVIOUS
  <2>1. CASE d = c
    <3>1. PICK s \in SUBSET Writing : view[t] = {s}
      BY <1>1 DEF StoreOK, SeenOK
    <3>2. saw'[c] = {s}
      <4>1. written[t] = {}
        BY <1>8, <2>1 DEF t
      <4>2. {seen \cup {} : seen \in {s}} = {s}
        OBVIOUS
      <4> QED BY <1>3, <3>1, <4>1, <4>2
    <3> QED BY <1>1, <1>7, <2>1, <3>1, <3>2 DEF t, Early
  <2>2. CASE d # c
    BY <1>3, <1>7, <2>2, NestedCall DEF StoreOK, SeenOK
  <2> QED BY <2>1, <2>2
<1>11. WritersAreSerial'
  BY <1>3, <1>7 DEF StoreOK, SeenOK, WritersAreSerial
<1> QED BY <1>3, <1>7, <1>9, <1>10, <1>11 DEF StoreOK, SeenOK

LEMMA CommitKeepsStore ==
  ASSUME ShapeOK, NestingOK, StoreOK, NEW c \in Call, Commit(c)
  PROVE  StoreOK'
<1>1. /\ c \in Outermost /\ state[c] = "open" /\ state'[c] = "applied"
      /\ \A d \in Call \ {c} : state'[d] = state[d]
      /\ c \notin applied /\ Kind[c] # "statement"
  BY StepMoves
  DEF StepOf, Advance, Commit, Goes, Moves, OuterMoves, NestedMoves, NestingOK, Settled, ShapeOK
<1>2. /\ UNCHANGED << view, written, saw >>
      /\ store' = store \cup written[c] /\ applied' = applied \cup {c}
  BY DEF Commit
<1>3. \A t \in Outermost : Told(t)' = Told(t)
  <2> SUFFICES ASSUME NEW t \in Outermost PROVE Told(t)' = Told(t)
    OBVIOUS
  <2> QED BY <1>1, ToldBy DEF Nested
<1>4. \A t \in Outermost \ {c} : state'[t] = state[t]
  BY <1>1, OutermostCall
<1>5. written[c] = Told(c) /\ written[c] \subseteq Within(c)
  BY <1>1, ToldBy DEF StoreOK, WrittenOK
<1>6. \A t \in Outermost :
        store' \cap Within(t) = IF t \in applied' THEN written[t] ELSE {}
  <2>1. store' \cap Within(c) = written[c]
    <3>1. store \cap Within(c) = {}
      BY <1>1 DEF StoreOK, WrittenOK
    <3> QED BY <1>2, <1>5, <3>1
  <2>2. \A t \in Outermost \ {c} : store' \cap Within(t) = store \cap Within(t)
    BY <1>2, <1>5 DEF Within
  <2> QED BY <1>2, <2>1, <2>2 DEF StoreOK, WrittenOK
<1>7. WrittenOK'
  <2>1. \A t \in Outermost : Kind[t] = "statement" => t # c
    BY <1>1
  <2> QED BY <1>2, <1>3, <1>6, <2>1 DEF StoreOK, WrittenOK, Within
<1>8. Kind[c] = "read" => store' = store
  <2>1. Kind[c] = "read" => written[c] = {}
    BY <1>1, <1>5 DEF StoreOK, WrittenOK
  <2> QED BY <1>2, <2>1
<1>9. Kind[c] \in {"read", "write"}
  BY <1>1, CallsAssumption
<1>10. WritersAreSerial'
  BY <1>1, <1>2, <1>4, <1>8, <1>9 DEF StoreOK, SeenOK, WritersAreSerial
<1>11. \A t \in Outermost : state'[t] \in {"open", "undoing"} \/ t \in applied' =>
         \E s \in SUBSET Writing : view'[t] = {s}
  BY <1>1, <1>2, <1>4 DEF StoreOK, SeenOK
<1>12. \A d \in Nested : Kind[Root[d]] = "read" /\ saw[d] # {} =>
         state'[Root[d]] \notin Early /\ saw[d] = view[Root[d]]
  BY <1>1, <1>4, NestedCall DEF StoreOK, SeenOK, Early
<1>13. /\ \A t \in Outermost : state'[t] \in Early => view[t] = {}
       /\ \A t, u \in Outermost :
            /\ Kind[t] = "write" /\ state'[t] = "open"
            /\ Kind[u] = "write" /\ state'[u] = "open"
            => t = u
  BY <1>1, <1>4 DEF StoreOK, SeenOK, Early
<1> QED BY <1>2, <1>7, <1>10, <1>11, <1>12, <1>13 DEF StoreOK, SeenOK

(* Only these four steps touch the database.                                *)
LEMMA OthersLeaveDatabase ==
  ASSUME ShapeOK, NestingOK, NEW c \in Call, StepOf(c),
         ~Begin(c), ~ExecuteAlone(c), ~ExecuteInside(c), ~Commit(c)
  PROVE  LeavesDatabase
<1>1. UNCHANGED database
  BY DEF StepOf, Advance, Enqueue, Enter, FindLocked, Opens, Refuse, Leave, Fail, Answer, Undo,
         FailInside, Join, database
<1>2. Moves(c) /\ \A d \in Call \ {c} : state'[d] = state[d]
  BY StepMoves DEF Moves
<1>3. state'[c] # "open"
  <2>1. state \in [Call -> {"idle", "queued", "opening", "open", "joined",
                            "applied", "undoing"} \cup Settled]
    BY DEF ShapeOK, AccessTypeOK
  <2> QED
    BY <2>1, CallsAssumption
    DEF StepOf, Advance, Enqueue, Enter, FindLocked, Opens, Refuse, Leave, Fail, Answer, Undo,
        FailInside, Join, Goes
<1>4. c \in Nested /\ Kind[c] = "statement" =>
        state'[c] # "returned" /\ state[c] # "returned"
  <2> SUFFICES ASSUME c \in Nested, Kind[c] = "statement"
               PROVE  state'[c] # "returned" /\ state[c] # "returned"
    OBVIOUS
  <2>1. state[c] = "idle"
    BY <1>2 DEF Moves, NestedMoves, Nested, ShapeOK
  <2>2. FailInside(c)
    BY <2>1 DEF StepOf, Advance, Enqueue, Enter, FindLocked, Opens, Refuse, Leave, Fail, Answer,
                Undo, FailInside, Join, Goes, Nested
  <2> QED BY <2>1, <2>2, GoesEffect DEF FailInside, Settled, ShapeOK
<1>5. c \in Outermost =>
        /\ state'[c] \in Early => state[c] \in Early
        /\ state'[c] = "undoing" => state[c] = "open" \/ c \in applied
  BY <1>2 DEF Moves, OuterMoves, Nested, Early, NestingOK
<1>6. \A t \in Outermost : t \in Call
  BY OutermostCall
<1>7. \A d \in Nested \cap Writing : d \in Call /\ Kind[d] = "statement"
  BY CallsAssumption DEF Nested
<1> QED BY <1>1, <1>2, <1>3, <1>4, <1>5, <1>6, <1>7 DEF LeavesDatabase

LEMMA CrashLeavesDatabase ==
  ASSUME ShapeOK, NEW p \in Process, Crash(p)
  PROVE  LeavesDatabase
<1>1. UNCHANGED database
  BY DEF Crash
<1>2. \A c \in Call : IF ProcessOf[c] = p /\ state[c] \notin Settled \cup {"idle"}
                      THEN state'[c] = "lost" ELSE state'[c] = state[c]
  BY CrashMoves
<1> QED BY <1>1, <1>2, OutermostCall DEF LeavesDatabase, Early, Nested, Settled

LEMMA InitStore == ASSUME Init PROVE StoreOK
<1>1. \A t \in Outermost : t \in Call /\ Told(t) = {}
  BY OutermostCall, ToldBy DEF Init, Nested
<1>2. WrittenOK
  BY <1>1 DEF Init, WrittenOK
<1>3. SeenOK
  BY <1>1, NestedCall DEF Init, SeenOK, WritersAreSerial, Nested
<1> QED BY <1>2, <1>3 DEF StoreOK

LEMMA StoreKept == ASSUME ShapeOK, NestingOK, StoreOK, [Next]_vars PROVE StoreOK'
<1>1. ASSUME NEW c \in Call, StepOf(c) PROVE StoreOK'
  BY <1>1, BeginKeepsStore, ExecuteAloneKeepsStore, ExecuteInsideKeepsStore,
     CommitKeepsStore, OthersLeaveDatabase, DatabaseLeft
<1>2. ASSUME NEW p \in Process, Crash(p) PROVE StoreOK'
  BY <1>2, CrashLeavesDatabase, DatabaseLeft
<1>3. CASE UNCHANGED vars
  BY <1>3, DatabaseLeft DEF vars, database, LeavesDatabase
<1> QED BY <1>1, <1>2, <1>3 DEF Next, StepOf

LEMMA AccessInvariant == Spec => [](ShapeOK /\ NestingOK /\ StoreOK)
BY InitShape, ShapeKept, InitNesting, NestingKept, InitStore, StoreKept, PTL DEF Spec

(* Write transactions, of one process or of several, are one after another. *)
THEOREM SerialWriters == Spec => []WritersAreSerial
<1>1. StoreOK => WritersAreSerial
  BY DEF StoreOK, SeenOK
<1> QED BY <1>1, AccessInvariant, PTL

(* A transaction is not in the store while it is open, and then wholly or   *)
(* not at all, however deep the calls in it are nested.                     *)
THEOREM WholeTransactions == Spec => []AllOrNothing
<1>1. ASSUME NestingOK, StoreOK PROVE AllOrNothing
  <2> SUFFICES ASSUME NEW t \in Outermost, Kind[t] # "statement"
               PROVE  /\ store \cap Within(t) \in {{}, Told(t)}
                      /\ state[t] = "open" => store \cap Within(t) = {}
                      /\ state[t] = "returned" => Told(t) \subseteq store
    BY DEF AllOrNothing
  <2>1. /\ store \cap Within(t) = IF t \in applied THEN Told(t) ELSE {}
        /\ state[t] = "open" => t \notin applied
        /\ state[t] = "returned" => t \in applied
    BY <1>1 DEF StoreOK, WrittenOK, NestingOK, Settled
  <2> QED BY <2>1
<1> QED BY <1>1, AccessInvariant, PTL

(* An error inside a transaction undoes all of it.                          *)
THEOREM FailureUndoesAll == Spec => []NestedFailureUndoesAll
<1>1. ASSUME NestingOK, StoreOK PROVE NestedFailureUndoesAll
  BY <1>1, NestedCall DEF NestedFailureUndoesAll, StoreOK, WrittenOK, NestingOK, Nested
<1> QED BY <1>1, AccessInvariant, PTL

(* All that a snapshot reads is of one moment.                              *)
THEOREM CoherentSnapshots == Spec => []SnapshotIsCoherent
<1>1. ASSUME StoreOK PROVE SnapshotIsCoherent
  BY <1>1 DEF SnapshotIsCoherent, StoreOK, SeenOK, Nested
<1> QED BY <1>1, AccessInvariant, PTL

------------------------------------------------------------------------------
(* Access to the database is atomic.                                        *)

TakenAs(views, wrote) == {[saw |-> seen, wrote |-> wrote] : seen \in views}

Effective(t) == IF t \in applied \/ Kind[t] = "read" THEN view[t] ELSE {}

LEMMA TakenIs ==
  /\ TakenBar = [t \in Outermost |-> TakenAs(Effective(t), written[t])]
  /\ TakenBar' = [t \in Outermost |-> TakenAs(Effective(t)', written'[t])]
BY DEF TakenBar, TakenAs, Effective

LEMMA TakenOnce ==
  ASSUME NEW views, NEW wrote
  PROVE  TakenAs({}, wrote) = {} /\ (views # {} => TakenAs(views, wrote) # {})
BY DEF TakenAs

AnswerOf(s) ==
  CASE s = "returned" -> "returned"
    [] s \in {"thrown", "lost"} -> "thrown"
    [] OTHER -> "none"

LEMMA AnswerIs ==
  /\ AnswerBar = [t \in Outermost |-> AnswerOf(state[t])]
  /\ AnswerBar' = [t \in Outermost |-> AnswerOf(state'[t])]
BY DEF AnswerBar, AnswerOf

LEMMA Answers ==
  /\ AnswerOf("returned") = "returned"
  /\ AnswerOf("thrown") = "thrown" /\ AnswerOf("lost") = "thrown"
  /\ \A s : s \notin Settled => AnswerOf(s) = "none"
BY DEF AnswerOf, Settled

(* A unit takes effect: it saw the store, and adds what it wrote.           *)
LEMMA EffectTaken ==
  ASSUME NEW t \in Outermost,
         Effective(t) = {}, Effective(t)' = {store},
         written'[t] \subseteq Within(t) \cap Writing, store' = store \cup written'[t],
         state[t] \notin Settled, state'[t] \notin Settled,
         \A u \in Outermost \ {t} :
           /\ Effective(u)' = Effective(u) /\ written'[u] = written[u]
           /\ state'[u] = state[u]
  PROVE  Atomic!StoreNext
<1>1. TakenBar[t] = {} /\ AnswerBar[t] = "none"
  BY TakenIs, TakenOnce, AnswerIs, Answers
<1>2. TakenBar' = [TakenBar EXCEPT ![t] = {[saw |-> store, wrote |-> written'[t]]}]
  <2>1. TakenAs(Effective(t)', written'[t]) = {[saw |-> store, wrote |-> written'[t]]}
    BY DEF TakenAs
  <2> QED BY <2>1, TakenIs
<1>3. AnswerBar' = AnswerBar
  BY AnswerIs, Answers
<1>4. written'[t] \in SUBSET [u \in Outermost |-> Within(u) \cap Writing][t]
  OBVIOUS
<1> QED BY <1>1, <1>2, <1>3, <1>4 DEF Atomic!StoreNext, Atomic!TakeEffect

LEMMA NothingTaken ==
  ASSUME store' = store,
         \A u \in Outermost :
           TakenAs(Effective(u)', written'[u]) = TakenAs(Effective(u), written[u])
  PROVE  UNCHANGED << store, TakenBar >>
BY TakenIs

(* The steps that leave the database alone only answer.                     *)
LEMMA AnswersOnly ==
  ASSUME LeavesDatabase
  PROVE  UNCHANGED << store, TakenBar >>
BY NothingTaken DEF LeavesDatabase, database, Effective

LEMMA BeginIsAtomic ==
  ASSUME ShapeOK, NestingOK, StoreOK, NEW c \in Call, Begin(c)
  PROVE  [Atomic!StoreNext]_Atomic!storeVars
<1>1. /\ c \in Outermost /\ state[c] = "opening" /\ state'[c] = "open"
      /\ \A d \in Call \ {c} : state'[d] = state[d]
      /\ c \notin applied
  BY StepMoves
  DEF StepOf, Advance, Begin, Opens, Goes, Moves, OuterMoves, NestedMoves, NestingOK, Settled
<1>2. /\ UNCHANGED << written, store, applied >> /\ view'[c] = {store}
      /\ \A d \in Call \ {c} : view'[d] = view[d]
  BY DEF Begin, ShapeOK, AccessTypeOK
<1>3. \A u \in Outermost \ {c} : /\ Effective(u)' = Effective(u) /\ written'[u] = written[u]
                                 /\ state'[u] = state[u]
  BY <1>1, <1>2, OutermostCall DEF Effective
<1>4. CASE Kind[c] = "read"
  <2>1. Effective(c) = {} /\ Effective(c)' = {store}
    BY <1>1, <1>2, <1>4 DEF Effective, StoreOK, SeenOK, Early
  <2>2. written'[c] = {}
    BY <1>1, <1>2, <1>4 DEF StoreOK, WrittenOK
  <2>3. Atomic!StoreNext
    BY <1>1, <1>2, <1>3, <2>1, <2>2, EffectTaken DEF Settled
  <2> QED BY <2>3
<1>5. CASE Kind[c] # "read"
  <2>1. Effective(c)' = Effective(c)
    BY <1>1, <1>2, <1>5 DEF Effective
  <2>2. UNCHANGED << store, TakenBar >>
    BY <1>2, <1>3, <2>1, NothingTaken
  <2>3. AnswerBar' = AnswerBar
    BY <1>1, <1>3, AnswerIs, Answers DEF Settled
  <2> QED BY <2>2, <2>3 DEF Atomic!storeVars
<1> QED BY <1>4, <1>5

LEMMA ExecuteAloneIsAtomic ==
  ASSUME ShapeOK, NestingOK, StoreOK, NEW c \in Call, ExecuteAlone(c)
  PROVE  Atomic!StoreNext
<1>1. /\ c \in Outermost /\ state[c] = "opening" /\ state'[c] = "applied"
      /\ \A d \in Call \ {c} : state'[d] = state[d]
      /\ c \notin applied
  BY StepMoves
  DEF StepOf, Advance, ExecuteAlone, Opens, Goes, Moves, OuterMoves, NestedMoves, NestingOK, Settled
<1>2. /\ view'[c] = {store} /\ \A d \in Call \ {c} : view'[d] = view[d]
      /\ written'[c] = {c} \cap Writing /\ \A d \in Call \ {c} : written'[d] = written[d]
      /\ store' = store \cup ({c} \cap Writing)
      /\ applied' = applied \cup {c} /\ Kind[c] = "statement"
  BY DEF ExecuteAlone, ShapeOK, AccessTypeOK
<1>3. \A u \in Outermost \ {c} : /\ Effective(u)' = Effective(u) /\ written'[u] = written[u]
                                 /\ state'[u] = state[u]
  BY <1>1, <1>2, OutermostCall DEF Effective
<1>4. Effective(c) = {} /\ Effective(c)' = {store}
  BY <1>1, <1>2 DEF Effective
<1>5. written'[c] \subseteq Within(c) \cap Writing
  BY <1>1, <1>2, OutermostCall DEF Within
<1> QED BY <1>1, <1>2, <1>3, <1>4, <1>5, EffectTaken DEF Settled

(* Inside a transaction the store is left alone, and so is what a snapshot  *)
(* took when it began.                                                      *)
LEMMA ExecuteInsideIsAtomic ==
  ASSUME ShapeOK, NestingOK, StoreOK, NEW c \in Call, ExecuteInside(c)
  PROVE  UNCHANGED Atomic!storeVars
<1> DEFINE t == Root[c]
<1>1. /\ c \in Nested /\ t \in Outermost /\ t \notin applied
  BY CalledInOpen, NestedCall DEF ExecuteInside
<1>2. \A u \in Outermost : state'[u] = state[u]
  BY <1>1, StepMoves, OutermostCall DEF StepOf, Moves, Nested
<1>3. /\ UNCHANGED << view, store, applied >>
      /\ written' = [written EXCEPT ![t] = @ \cup ({c} \cap Writing)]
      /\ c \in Writing => Kind[t] = "write"
      /\ written \in [Call -> SUBSET Writing]
  BY <1>1 DEF ExecuteInside, ShapeOK, AccessTypeOK
<1> HIDE DEF t
<1>4. \A u \in Outermost :
        TakenAs(Effective(u)', written'[u]) = TakenAs(Effective(u), written[u])
  <2> SUFFICES ASSUME NEW u \in Outermost
               PROVE  TakenAs(Effective(u)', written'[u]) = TakenAs(Effective(u), written[u])
    OBVIOUS
  <2>1. Effective(u)' = Effective(u) /\ u \in Call
    BY <1>3, OutermostCall DEF Effective
  <2>2. CASE u # t \/ c \notin Writing
    <3>1. written'[u] = written[u]
      BY <1>3, <2>1, <2>2
    <3> QED BY <2>1, <3>1
  <2>3. CASE u = t /\ c \in Writing
    <3>1. Effective(u) = {}
      BY <1>1, <1>3, <2>3 DEF Effective
    <3> QED BY <2>1, <3>1, TakenOnce
  <2> QED BY <2>2, <2>3
<1>5. UNCHANGED << store, TakenBar >>
  BY <1>3, <1>4, NothingTaken
<1>6. AnswerBar' = AnswerBar
  BY <1>2, AnswerIs
<1> QED BY <1>5, <1>6 DEF Atomic!storeVars

LEMMA CommitIsAtomic ==
  ASSUME ShapeOK, NestingOK, StoreOK, NEW c \in Call, Commit(c)
  PROVE  [Atomic!StoreNext]_Atomic!storeVars
<1>1. /\ c \in Outermost /\ state[c] = "open" /\ state'[c] = "applied"
      /\ \A d \in Call \ {c} : state'[d] = state[d]
      /\ c \notin applied /\ Kind[c] \in {"read", "write"}
  BY StepMoves, CallsAssumption
  DEF StepOf, Advance, Commit, Goes, Moves, OuterMoves, NestedMoves, NestingOK, Settled, ShapeOK
<1>2. /\ UNCHANGED << view, written >>
      /\ store' = store \cup written[c] /\ applied' = applied \cup {c}
  BY DEF Commit
<1>3. \A u \in Outermost \ {c} : /\ Effective(u)' = Effective(u) /\ written'[u] = written[u]
                                 /\ state'[u] = state[u]
  BY <1>1, <1>2, OutermostCall DEF Effective
<1>4. CASE Kind[c] = "write"
  <2>1. Effective(c) = {} /\ Effective(c)' = {store}
    BY <1>1, <1>2, <1>4 DEF Effective, StoreOK, SeenOK, WritersAreSerial
  <2>2. written'[c] \subseteq Within(c) \cap Writing
    BY <1>1, <1>2, ToldBy DEF StoreOK, WrittenOK
  <2>3. Atomic!StoreNext
    BY <1>1, <1>2, <1>3, <2>1, <2>2, EffectTaken DEF Settled
  <2> QED BY <2>3
<1>5. CASE Kind[c] = "read"
  <2>1. Effective(c)' = Effective(c)
    BY <1>2, <1>5 DEF Effective
  <2>2. written[c] = {}
    BY <1>1, <1>5 DEF StoreOK, WrittenOK
  <2>3. UNCHANGED << store, TakenBar >>
    BY <1>2, <1>3, <2>1, <2>2, NothingTaken
  <2>4. AnswerBar' = AnswerBar
    BY <1>1, <1>3, AnswerIs, Answers DEF Settled
  <2> QED BY <2>3, <2>4 DEF Atomic!storeVars
<1> QED BY <1>1, <1>4, <1>5

(* A call whose answer comes.  One that returns has taken effect.           *)
LEMMA OthersAreAtomic ==
  ASSUME ShapeOK, NestingOK, StoreOK, NEW c \in Call, StepOf(c),
         ~Begin(c), ~ExecuteAlone(c), ~ExecuteInside(c), ~Commit(c)
  PROVE  [Atomic!StoreNext]_Atomic!storeVars
<1>1. Moves(c) /\ \A u \in Outermost : u # c => state'[u] = state[u]
  BY StepMoves, OutermostCall DEF Moves
<1>2. UNCHANGED << store, TakenBar >>
  BY OthersLeaveDatabase, AnswersOnly
<1>3. CASE c \in Outermost /\ state'[c] = "returned"
  <2>1. state[c] = "applied"
    BY <1>1, <1>3 DEF Moves, OuterMoves, Nested
  <2>2. TakenBar[c] # {}
    <3>1. c \in applied
      BY <1>3, <2>1 DEF NestingOK
    <3>2. Effective(c) # {}
      BY <1>3, <3>1 DEF Effective, StoreOK, SeenOK
    <3> QED BY <1>3, <3>2, TakenIs, TakenOnce
  <2>3. AnswerBar[c] = "none" /\ AnswerBar' = [AnswerBar EXCEPT ![c] = "returned"]
    BY <1>1, <1>3, <2>1, AnswerIs, Answers DEF Settled
  <2> QED BY <1>2, <1>3, <2>2, <2>3 DEF Atomic!StoreNext, Atomic!Return
<1>4. CASE c \in Outermost /\ state'[c] = "thrown"
  <2>1. state[c] \notin Settled
    BY <1>1, <1>4 DEF Moves, OuterMoves, Nested, Settled
  <2>2. /\ \A u \in {c} : AnswerBar[u] = "none"
        /\ AnswerBar' = [u \in Outermost |-> IF u \in {c} THEN "thrown" ELSE AnswerBar[u]]
    BY <1>1, <1>4, <2>1, AnswerIs, Answers
  <2>3. {c} \in SUBSET Outermost
    BY <1>4
  <2> QED BY <1>2, <2>2, <2>3 DEF Atomic!StoreNext, Atomic!Throw
<1>5. CASE c \notin Outermost \/ state'[c] \notin {"returned", "thrown"}
  <2>1. c \in Outermost => state[c] \notin Settled /\ state'[c] \notin Settled
    BY <1>1, <1>5 DEF Moves, OuterMoves, Nested, Settled
  <2>2. AnswerBar' = AnswerBar
    BY <1>1, <2>1, AnswerIs, Answers
  <2> QED BY <1>2, <2>2 DEF Atomic!storeVars
<1> QED BY <1>3, <1>4, <1>5

LEMMA CrashIsAtomic ==
  ASSUME ShapeOK, NEW p \in Process, Crash(p)
  PROVE  Atomic!StoreNext
<1> DEFINE Stopped == {t \in Outermost : ProcessOf[t] = p /\ state[t] \notin Settled \cup {"idle"}}
<1>1. UNCHANGED << store, TakenBar >>
  BY CrashLeavesDatabase, AnswersOnly
<1>2. \A t \in Outermost : IF t \in Stopped THEN state'[t] = "lost" ELSE state'[t] = state[t]
  BY CrashMoves, OutermostCall
<1>3. \A t \in Stopped : AnswerBar[t] = "none"
  BY AnswerIs, Answers
<1>4. AnswerBar' = [t \in Outermost |-> IF t \in Stopped THEN "thrown" ELSE AnswerBar[t]]
  BY <1>2, AnswerIs, Answers
<1>5. Stopped \in SUBSET Outermost
  OBVIOUS
<1> QED BY <1>1, <1>3, <1>4, <1>5 DEF Atomic!StoreNext, Atomic!Throw

(* Each isolated statement, snapshot and write transaction, of whatever     *)
(* process and whatever is nested in it, is one step on the store: what the *)
(* other modules take for granted when they make a transaction one action.  *)
THEOREM AccessIsAtomic == Spec => ImplementsAtomicStore
<1>1. Init => Atomic!StoreInit
  <2> SUFFICES ASSUME Init PROVE Atomic!StoreInit
    OBVIOUS
  <2>1. \A t \in Outermost : t \in Call /\ Effective(t) = {} /\ state[t] = "idle"
    BY OutermostCall DEF Init, Effective
  <2>2. TakenBar = [t \in Outermost |-> {}]
    <3>1. \A t \in Outermost : TakenAs(Effective(t), written[t]) = {}
      BY <2>1 DEF TakenAs
    <3> QED BY <3>1, TakenIs
  <2>3. AnswerBar = [t \in Outermost |-> "none"]
    BY <2>1, AnswerIs, Answers DEF Settled
  <2> QED BY <2>2, <2>3 DEF Init, Atomic!StoreInit
<1>2. ShapeOK /\ NestingOK /\ StoreOK /\ [Next]_vars => [Atomic!StoreNext]_Atomic!storeVars
  <2> SUFFICES ASSUME ShapeOK, NestingOK, StoreOK, [Next]_vars
               PROVE  [Atomic!StoreNext]_Atomic!storeVars
    OBVIOUS
  <2>1. ASSUME NEW c \in Call, StepOf(c) PROVE [Atomic!StoreNext]_Atomic!storeVars
    BY <2>1, BeginIsAtomic, ExecuteAloneIsAtomic, ExecuteInsideIsAtomic, CommitIsAtomic,
       OthersAreAtomic
  <2>2. CASE UNCHANGED vars
    BY <2>2 DEF vars, TakenBar, AnswerBar, Atomic!storeVars
  <2> QED BY <2>1, <2>2, CrashIsAtomic DEF Next, StepOf
<1> QED BY <1>1, <1>2, AccessInvariant, PTL DEF Spec, ImplementsAtomicStore, Atomic!StoreSpec
==============================================================================
