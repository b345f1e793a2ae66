-------------------------- MODULE RcDelegationProofs --------------------------
(***************************************************************************)
(* Why RC is delegated at most once, for any accounts, workers and number  *)
(* of stalls and crashes.  The argument: a row that is pending is nobody's *)
(* and has never been broadcast; hence whoever claims it is alone with it, *)
(* and only he can make it pending again, before he broadcasts.            *)
(***************************************************************************)
EXTENDS RcDelegation, TLAPS

Working(w) == worker[w].pc \in LeasedPC

(* Workers know their account, no two work on one, and a pending row is     *)
(* nobody's.                                                                *)
WorkersOK ==
  /\ \A w \in Worker : ~At(w, "idle") => Target(w) \in Account
  /\ \A w, v \in Worker : Working(w) /\ Working(v) /\ Target(w) = Target(v) => w = v
  /\ \A w \in Worker : Working(w) => rc[Target(w)].status # "pending"

(* A pending row has not been broadcast; neither has the row of a worker    *)
(* that is about to broadcast or to release it.                             *)
BroadcastsOK ==
  /\ \A a \in Account \ unrecorded : rc[a].status = "pending" => broadcasts[a] = 0
  /\ \A w \in Worker : At(w, "delegate") \/ At(w, "release") =>
       Target(w) \in unrecorded \/ broadcasts[Target(w)] = 0

(* What a worker knows when it records a delegation.                        *)
BackedOK ==
  /\ \A a \in Account : hive[a].sent \/ Found(a) => a \in backed
  /\ \A w \in Worker :
       At(w, "mark") \/ At(w, "markExisting") \/ At(w, "observe") => Target(w) \in backed

BaseRcInv == RcTypeOK /\ WorkersOK /\ BackedOK /\ DelegatedIsBacked
OnceInv == BroadcastsOK /\ NoBlindSecondBroadcast
RcInv == BaseRcInv /\ OnceInv

------------------------------------------------------------------------------
(* How the steps move workers and rows.                                     *)

LEMMA MoveEffect ==
  ASSUME RcTypeOK, NEW w \in Worker, NEW pc \in PC, Move(w, pc)
  PROVE  /\ worker' \in [Worker -> [pc : PC, target : Account \cup {NoTarget},
                                    generation : Nat]]
         /\ At(w, pc)' /\ Target(w)' = Target(w)
         /\ \A v \in Worker \ {w} : worker'[v] = worker[v]
BY DEF RcTypeOK, Move, At, Target

LEMMA RestEffect ==
  ASSUME RcTypeOK, NEW w \in Worker, Rest(w)
  PROVE  /\ worker' \in [Worker -> [pc : PC, target : Account \cup {NoTarget},
                                    generation : Nat]]
         /\ At(w, "idle")'
         /\ \A v \in Worker \ {w} : worker'[v] = worker[v]
<1>1. Resting \in [pc : PC, target : Account \cup {NoTarget}, generation : Nat]
  BY DEF Resting, PC
<1> QED BY <1>1 DEF RcTypeOK, Rest, At, Resting

LEMMA CloseEffect ==
  ASSUME RcTypeOK, NEW w \in Worker, NEW s \in RcStatus, Target(w) \in Account,
         s # "processing", Close(w, s)
  PROVE  /\ rc' \in [Account -> RcRow]
         /\ \A a \in Account : rc'[a].expired => rc'[a].status = "processing"
         /\ \A a \in Account \ {Target(w)} : rc'[a] = rc[a]
         /\ rc'[Target(w)].status = s \/ rc'[Target(w)] = rc[Target(w)]
<1> DEFINE t == Target(w)
           row == [rc[t] EXCEPT !.status = s, !.expired = FALSE]
<1>1. CASE HoldsRc(w)
  <2>1. row \in RcRow /\ row.status = s /\ ~row.expired
    BY DEF RcTypeOK, RcRow
  <2>2. rc' = [rc EXCEPT ![t] = row]
    BY <1>1 DEF Close, RcTypeOK
  <2> HIDE DEF row, t
  <2>3. t \in Account
    BY DEF t
  <2> QED BY <2>1, <2>2, <2>3 DEF RcTypeOK, t
<1>2. CASE ~HoldsRc(w)
  BY <1>2 DEF Close, RcTypeOK
<1> QED BY <1>1, <1>2

LEMMA QueueEffect ==
  ASSUME RcTypeOK, NEW rows \in SUBSET Account, NEW b,
         Enqueue(rows) \/ Dequeue(b) \/ UNCHANGED ahead
  PROVE  ahead' \in [Account -> SUBSET Account]
<1>1. CASE Enqueue(rows)
  <2>1. PICK tied \in SUBSET Uncertain :
          ahead' = [a \in Account |->
            CASE a \in rows -> (Uncertain \ tied) \cup {c \in tied \cup rows : c < a}
              [] a \in tied -> ahead[a] \cup {c \in rows : c < a}
              [] OTHER -> ahead[a]]
    BY <1>1 DEF Enqueue
  <2>2. tied \subseteq Account /\ Uncertain \subseteq Account
    BY DEF Uncertain
  <2> QED BY <2>1, <2>2 DEF RcTypeOK
<1>2. CASE Dequeue(b)
  BY <1>2 DEF Dequeue, RcTypeOK
<1> QED BY <1>1, <1>2 DEF RcTypeOK

------------------------------------------------------------------------------
(* Every step preserves the invariant.                                      *)

LEMMA InitInv == ASSUME Init PROVE RcInv
<1>1. RcTypeOK
  <2>1. Resting \in [pc : PC, target : Account \cup {NoTarget}, generation : Nat]
    BY DEF Resting, PC
  <2>2. 0 \in 0 .. MaxSetbacks
    BY RcAssumption
  <2> QED BY <2>1, <2>2 DEF Init, RcTypeOK, RcRow, RcStatus, HiveRow
<1>2. \A w \in Worker : At(w, "idle")
  BY DEF Init, At, Resting
<1>3. WorkersOK
  BY <1>2 DEF WorkersOK, Working, At, LeasedPC
<1>4. BackedOK /\ DelegatedIsBacked
  BY <1>2 DEF Init, BackedOK, DelegatedIsBacked, At, Found
<1>5. OnceInv
  BY <1>2 DEF Init, OnceInv, BroadcastsOK, NoBlindSecondBroadcast, At
<1> QED BY <1>1, <1>3, <1>4, <1>5 DEF RcInv, BaseRcInv

(* A step that only moves one worker on to another pc.                      *)
LEMMA MoveKeeps ==
  ASSUME RcInv, NEW w \in Worker, NEW pc \in PC \ {"idle", "delegate"}, Move(w, pc),
         ~At(w, "idle"), pc \in LeasedPC => Working(w),
         pc = "release" => At(w, "delegate") \/ Target(w) \in unrecorded',
         unrecorded \subseteq unrecorded', unrecorded' \subseteq Account,
         pc \in {"mark", "markExisting", "observe"} => Target(w) \in backed,
         setbacks' \in 0 .. MaxSetbacks,
         UNCHANGED << rc, ahead, confirmed, hive, refusing, broadcasts, backed >>
  PROVE  RcInv'
<1>1. /\ RcTypeOK /\ WorkersOK /\ BackedOK /\ DelegatedIsBacked
      /\ BroadcastsOK /\ NoBlindSecondBroadcast
  BY DEF RcInv, BaseRcInv, OnceInv
<1>2. /\ worker' \in [Worker -> [pc : PC, target : Account \cup {NoTarget},
                                 generation : Nat]]
      /\ At(w, pc)' /\ Target(w)' = Target(w)
      /\ \A v \in Worker \ {w} : worker'[v] = worker[v]
  BY <1>1, MoveEffect
<1>3. RcTypeOK'
  BY <1>1, <1>2 DEF RcTypeOK
<1>4. WorkersOK'
  BY <1>1, <1>2 DEF WorkersOK, Working, At, Target
<1>5. BackedOK' /\ DelegatedIsBacked'
  BY <1>1, <1>2 DEF BackedOK, DelegatedIsBacked, At, Target, Found
<1>6. OnceInv'
  BY <1>1, <1>2 DEF OnceInv, BroadcastsOK, NoBlindSecondBroadcast, At, Target
<1> QED BY <1>3, <1>4, <1>5, <1>6 DEF RcInv, BaseRcInv

(* A step in which one worker rests and perhaps closes its row.             *)
LEMMA RestKeeps ==
  ASSUME RcInv, NEW w \in Worker, Rest(w), Target(w) \in Account,
         rc' \in [Account -> RcRow],
         \A a \in Account : rc'[a].expired => rc'[a].status = "processing",
         \A a \in Account \ {Target(w)} : rc'[a] = rc[a],
         \/ rc'[Target(w)] = rc[Target(w)]
         \/ rc'[Target(w)].status = "uncertain"
         \/ rc'[Target(w)].status = "delegated" /\ Target(w) \in backed
         \/ rc'[Target(w)].status = "pending" /\ At(w, "release"),
         setbacks' \in 0 .. MaxSetbacks, ahead' \in [Account -> SUBSET Account],
         UNCHANGED << confirmed, hive, refusing, history >>
  PROVE  RcInv'
<1>1. /\ RcTypeOK /\ WorkersOK /\ BackedOK /\ DelegatedIsBacked
      /\ BroadcastsOK /\ NoBlindSecondBroadcast
  BY DEF RcInv, BaseRcInv, OnceInv
<1>2. /\ worker' \in [Worker -> [pc : PC, target : Account \cup {NoTarget},
                                 generation : Nat]]
      /\ At(w, "idle")'
      /\ \A v \in Worker \ {w} : worker'[v] = worker[v]
  BY <1>1, RestEffect
<1>3. RcTypeOK'
  BY <1>1, <1>2 DEF RcTypeOK, history
<1>4. WorkersOK'
  BY <1>1, <1>2 DEF WorkersOK, Working, At, Target, LeasedPC
<1>5. BackedOK' /\ DelegatedIsBacked'
  BY <1>1, <1>2 DEF BackedOK, DelegatedIsBacked, At, Target, Found, history
<1>6. OnceInv'
  BY <1>1, <1>2 DEF OnceInv, BroadcastsOK, NoBlindSecondBroadcast, At, Target, history
<1> QED BY <1>3, <1>4, <1>5, <1>6 DEF RcInv, BaseRcInv

LEMMA ClaimKeeps ==
  ASSUME RcInv, NEW w \in Worker, NEW a \in Account, ClaimAccountRcDelegation(w, a)
  PROVE  RcInv'
<1>1. /\ RcTypeOK /\ WorkersOK /\ BackedOK /\ DelegatedIsBacked
      /\ BroadcastsOK /\ NoBlindSecondBroadcast
  BY DEF RcInv, BaseRcInv, OnceInv
<1> DEFINE n == rc[a].generation + 1
           row == [status |-> "processing", generation |-> n, expired |-> FALSE]
           next == [pc |-> "delegate", target |-> a, generation |-> n]
<1>2. n \in Nat
  BY <1>1 DEF RcTypeOK, RcRow
<1>3. rc' = [rc EXCEPT ![a] = row] /\ worker' = [worker EXCEPT ![w] = next]
  BY <1>1 DEF ClaimAccountRcDelegation, RcTypeOK
<1> HIDE DEF n
<1>4. row \in RcRow /\ next \in [pc : PC, target : Account \cup {NoTarget}, generation : Nat]
  BY <1>2 DEF RcRow, RcStatus, PC, LeasedPC
<1>5. row.status = "processing" /\ next.pc = "delegate" /\ next.target = a
  OBVIOUS
<1> HIDE DEF row, next
<1>6. /\ rc' \in [Account -> RcRow] /\ rc'[a] = row
      /\ \A b \in Account \ {a} : rc'[b] = rc[b]
      /\ worker' \in [Worker -> [pc : PC, target : Account \cup {NoTarget}, generation : Nat]]
      /\ worker'[w] = next
      /\ \A v \in Worker \ {w} : worker'[v] = worker[v]
  BY <1>1, <1>3, <1>4 DEF RcTypeOK
<1>7. /\ At(w, "idle") /\ rc[a].status = "pending"
      /\ UNCHANGED << ahead, confirmed, hive, refusing, history, setbacks >>
  BY DEF ClaimAccountRcDelegation
<1>8. RcTypeOK'
  BY <1>1, <1>5, <1>6, <1>7 DEF RcTypeOK, history
<1>9. WorkersOK'
  <2>1. \A v \in Worker : Working(v) => Target(v) # a
    BY <1>1, <1>7 DEF WorkersOK
  <2>2. /\ Target(w)' = a /\ rc'[a].status = "processing"
        /\ \A v \in Worker \ {w} : Target(v)' = Target(v) /\ (Working(v)' <=> Working(v))
    BY <1>5, <1>6 DEF Target, Working
  <2>3. \A v \in Worker : ~At(v, "idle")' => Target(v)' \in Account
    BY <1>1, <1>6, <2>2 DEF WorkersOK, At
  <2>4. \A v, x \in Worker : Working(v)' /\ Working(x)' /\ Target(v)' = Target(x)' => v = x
    BY <1>1, <2>1, <2>2 DEF WorkersOK
  <2>5. \A v \in Worker : Working(v)' => rc'[Target(v)'].status # "pending"
    <3>1. ASSUME NEW v \in Worker \ {w}, Working(v)
          PROVE  rc'[Target(v)] = rc[Target(v)] /\ rc[Target(v)].status # "pending"
      BY <1>1, <1>6, <2>1, <3>1 DEF WorkersOK, Working, At, LeasedPC
    <3> QED BY <2>2, <3>1
  <2> QED BY <2>3, <2>4, <2>5 DEF WorkersOK
<1>10. BackedOK' /\ DelegatedIsBacked'
  BY <1>1, <1>5, <1>6, <1>7 DEF BackedOK, DelegatedIsBacked, At, Target, Found, history
<1>11. OnceInv'
  BY <1>1, <1>5, <1>6, <1>7
     DEF OnceInv, BroadcastsOK, NoBlindSecondBroadcast, At, Target, history, WorkersOK, Working, LeasedPC
<1> QED BY <1>8, <1>9, <1>10, <1>11 DEF RcInv, BaseRcInv

LEMMA BroadcastKeeps ==
  ASSUME RcInv, NEW w \in Worker, DelegateResourceCredits(w)
  PROVE  RcInv'
<1>1. /\ RcTypeOK /\ WorkersOK /\ BackedOK /\ DelegatedIsBacked
      /\ BroadcastsOK /\ NoBlindSecondBroadcast
  BY DEF RcInv, BaseRcInv, OnceInv
<1> DEFINE t == Target(w)
<1>2. /\ t \in Account /\ At(w, "delegate") /\ Working(w)
      /\ UNCHANGED << rc, ahead, confirmed, refusing, unrecorded, setbacks >>
  BY <1>1 DEF DelegateResourceCredits, WorkersOK, At, Working, LeasedPC
<1>3. /\ broadcasts' \in [Account -> Nat] /\ broadcasts'[t] = broadcasts[t] + 1
      /\ \A b \in Account \ {t} : broadcasts'[b] = broadcasts[b]
  BY <1>1, <1>2 DEF DelegateResourceCredits, RcTypeOK
<1>4. /\ hive' \in [Account -> HiveRow] /\ backed' \subseteq Account /\ backed \subseteq backed'
      /\ \A b \in Account : hive'[b].amount = hive[b].amount
      /\ \A b \in Account \ {t} : hive'[b] = hive[b]
      /\ hive'[t].sent => hive[t].sent \/ t \in backed'
  <2>1. CASE UNCHANGED << hive, backed >>
    BY <1>1, <2>1 DEF RcTypeOK
  <2>2. CASE /\ hive' = [hive EXCEPT ![t].sent = TRUE]
             /\ backed' = backed \cup {t}
    <3> DEFINE row == [hive[t] EXCEPT !.sent = TRUE]
    <3>1. hive' = [hive EXCEPT ![t] = row] /\ row \in HiveRow /\ row.amount = hive[t].amount
      BY <1>1, <1>2, <2>2 DEF RcTypeOK, HiveRow
    <3> HIDE DEF row
    <3> QED BY <1>1, <1>2, <2>2, <3>1 DEF RcTypeOK
  <2> QED BY <2>1, <2>2 DEF DelegateResourceCredits
<1>5. PICK pc \in {"mark", "uncertain", "inspect"} :
        Move(w, pc) /\ (pc = "mark" => t \in backed')
  BY DEF DelegateResourceCredits
<1>6. /\ worker' \in [Worker -> [pc : PC, target : Account \cup {NoTarget},
                                 generation : Nat]]
      /\ At(w, pc)' /\ Target(w)' = t
      /\ \A v \in Worker \ {w} : worker'[v] = worker[v]
  BY <1>1, <1>5, MoveEffect DEF PC, LeasedPC
<1>7. RcTypeOK'
  BY <1>1, <1>2, <1>3, <1>4, <1>6 DEF RcTypeOK
<1>8. WorkersOK'
  BY <1>1, <1>2, <1>5, <1>6 DEF WorkersOK, Working, At, Target
<1>9. BackedOK' /\ DelegatedIsBacked'
  BY <1>1, <1>2, <1>4, <1>5, <1>6 DEF BackedOK, DelegatedIsBacked, At, Target, Found
<1>10. OnceInv'
  <2>1. \A v \in Worker \ {w} : Working(v) => Target(v) # t
    BY <1>1, <1>2 DEF WorkersOK
  <2>2. rc[t].status # "pending" /\ (t \in unrecorded \/ broadcasts[t] = 0)
    BY <1>1, <1>2 DEF WorkersOK, BroadcastsOK
  <2>3. NoBlindSecondBroadcast'
    BY <1>1, <1>2, <1>3, <2>2 DEF NoBlindSecondBroadcast
  <2>4. BroadcastsOK'
    <3>1. \A a \in Account \ unrecorded' : rc'[a].status = "pending" => broadcasts'[a] = 0
      BY <1>1, <1>2, <1>3, <2>2 DEF BroadcastsOK
    <3>2. ASSUME NEW v \in Worker, (At(v, "delegate") \/ At(v, "release"))'
          PROVE  Target(v)' \in unrecorded' \/ broadcasts'[Target(v)'] = 0
      <4>1. v # w /\ worker'[v] = worker[v]
        BY <1>5, <1>6, <3>2 DEF At
      <4>2. /\ Working(v) /\ Target(v) # t /\ Target(v)' = Target(v)
            /\ Target(v) \in unrecorded \/ broadcasts[Target(v)] = 0
        BY <1>1, <1>2, <2>1, <3>2, <4>1 DEF BroadcastsOK, At, Working, Target, LeasedPC
      <4>3. Target(v) \in Account
        BY <1>1, <4>2 DEF WorkersOK, Working, At, LeasedPC
      <4> QED BY <1>2, <1>3, <4>2, <4>3
    <3> QED BY <3>1, <3>2 DEF BroadcastsOK
  <2> QED BY <2>3, <2>4 DEF OnceInv
<1> QED BY <1>7, <1>8, <1>9, <1>10 DEF RcInv, BaseRcInv

LEMMA WorkerKeeps ==
  ASSUME RcInv, NEW w \in Worker,
         WorkerStep(w) \/ WorkerFails(w)
  PROVE  RcInv'
<1>1. RcTypeOK /\ WorkersOK /\ BackedOK
  BY DEF RcInv, BaseRcInv
<1>2. ~At(w, "idle") => Target(w) \in Account
  BY <1>1 DEF WorkersOK
<1>3. setbacks \in 0 .. MaxSetbacks /\ (Setback => setbacks' \in 0 .. MaxSetbacks)
  BY <1>1, RcAssumption DEF RcTypeOK, Setback
<1>4. CASE DelegateResourceCredits(w)
  BY <1>4, BroadcastKeeps
<1>5. CASE MarkRcDelegated(w)
  <2>1. Target(w) \in Account /\ Target(w) \in backed /\ Close(w, "delegated")
        /\ UNCHANGED << confirmed, hive, refusing, history, setbacks >>
        /\ ahead' \in [Account -> SUBSET Account]
    BY <1>1, <1>2, <1>5 DEF MarkRcDelegated, BackedOK, At, RcTypeOK
  <2> QED BY <1>1, <1>3, <2>1, CloseEffect, RestKeeps DEF RcStatus, Close
<1>6. CASE MarkRcUncertain(w)
  <2>1. /\ Target(w) \in Account /\ Close(w, "uncertain")
        /\ UNCHANGED << confirmed, hive, refusing, history, setbacks >>
        /\ Enqueue({Target(w)}) \/ UNCHANGED ahead
    BY <1>2, <1>6 DEF MarkRcUncertain, At
  <2>2. ahead' \in [Account -> SUBSET Account]
    BY <1>1, <2>1, QueueEffect
  <2>3. /\ rc' \in [Account -> RcRow]
        /\ \A a \in Account : rc'[a].expired => rc'[a].status = "processing"
        /\ \A a \in Account \ {Target(w)} : rc'[a] = rc[a]
        /\ rc'[Target(w)].status = "uncertain" \/ rc'[Target(w)] = rc[Target(w)]
    BY <1>1, <2>1, CloseEffect DEF RcStatus
  <2>4. Rest(w) /\ setbacks' \in 0 .. MaxSetbacks /\ UNCHANGED << confirmed, hive, refusing, history >>
    BY <1>3, <2>1 DEF Close
  <2> QED BY <2>1, <2>2, <2>3, <2>4, RestKeeps
<1>7. CASE ReleaseRcProcessing(w)
  <2>1. Target(w) \in Account /\ Close(w, "pending") /\ At(w, "release")
        /\ UNCHANGED << confirmed, hive, refusing, history, setbacks >>
        /\ ahead' \in [Account -> SUBSET Account]
    BY <1>1, <1>2, <1>7 DEF ReleaseRcProcessing, At, RcTypeOK
  <2> QED BY <1>1, <1>3, <2>1, CloseEffect, RestKeeps DEF RcStatus, Close
<1>8. CASE ConfirmExistingRcDelegation(w)
  <2>1. PICK pc \in {"markExisting", "uncertain"} :
          Move(w, pc) /\ (pc = "markExisting" => Target(w) \in backed)
    BY <1>1, <1>2, <1>8 DEF ConfirmExistingRcDelegation, BackedOK, At
  <2>2. ~At(w, "idle") /\ Working(w) /\ pc \in PC \ {"idle", "delegate"}
    BY <1>8 DEF ConfirmExistingRcDelegation, At, Working, LeasedPC, PC
  <2> QED BY <1>1, <1>3, <1>8, <2>1, <2>2, MoveKeeps DEF ConfirmExistingRcDelegation, RcTypeOK, history
<1>9. CASE LookupUncertain(w)
  <2>1. CASE Found(Target(w)) /\ Move(w, "observe")
    <3>1. ~At(w, "idle") /\ "observe" \in PC \ {"idle", "delegate"} /\ "observe" \notin LeasedPC
      BY <1>9 DEF LookupUncertain, At, LeasedPC, PC
    <3>2. Target(w) \in backed
      BY <1>1, <1>2, <2>1, <3>1 DEF BackedOK
    <3> QED BY <1>1, <1>3, <1>9, <2>1, <3>1, <3>2, MoveKeeps DEF LookupUncertain, RcTypeOK, history
  <2>2. CASE Rest(w)
    <3>1. Target(w) \in Account
      BY <1>2, <1>9 DEF LookupUncertain, At
    <3> QED BY <1>1, <1>3, <1>9, <2>2, <3>1, RestKeeps DEF LookupUncertain, RcTypeOK
  <2> QED BY <1>9, <2>1, <2>2 DEF LookupUncertain
<1>10. CASE MarkObservedRcDelegated(w)
  <2>1. Target(w) \in Account /\ Target(w) \in backed
    BY <1>1, <1>2, <1>10 DEF MarkObservedRcDelegated, BackedOK, At
  <2>2. ahead' \in [Account -> SUBSET Account]
    BY <1>1, <1>10, QueueEffect DEF MarkObservedRcDelegated
  <2>3. CASE rc' = rc
    BY <1>1, <1>3, <1>10, <2>1, <2>2, <2>3, RestKeeps DEF MarkObservedRcDelegated, RcTypeOK
  <2>4. CASE /\ rc[Target(w)].status = "uncertain"
             /\ rc' = [rc EXCEPT ![Target(w)].status = "delegated"]
    <3> DEFINE t == Target(w)
               row == [rc[t] EXCEPT !.status = "delegated"]
    <3>1. row \in RcRow /\ row.status = "delegated" /\ ~row.expired
      BY <1>1, <2>1, <2>4 DEF RcTypeOK, RcRow, RcStatus
    <3>2. rc' = [rc EXCEPT ![t] = row] /\ t \in Account
      BY <1>1, <2>1, <2>4 DEF RcTypeOK
    <3> HIDE DEF row
    <3>3. /\ rc' \in [Account -> RcRow] /\ rc'[t] = row
          /\ \A a \in Account : rc'[a].expired => rc'[a].status = "processing"
          /\ \A a \in Account \ {t} : rc'[a] = rc[a]
      BY <1>1, <3>1, <3>2 DEF RcTypeOK
    <3> QED BY <1>3, <1>10, <2>1, <2>2, <3>1, <3>3, RestKeeps DEF MarkObservedRcDelegated
  <2> QED BY <1>10, <2>3, <2>4 DEF MarkObservedRcDelegated
<1>11. CASE DelegationRefused(w)
  <2>1. PICK pc \in {"release", "inspect"} : Move(w, pc)
    BY <1>11 DEF DelegationRefused
  <2>2. ~At(w, "idle") /\ Working(w) /\ pc \in PC \ {"idle", "delegate"}
    BY <1>11 DEF DelegationRefused, At, Working, LeasedPC, PC
  <2> QED BY <1>1, <1>3, <1>11, <2>1, <2>2, MoveKeeps DEF DelegationRefused, RcTypeOK, history
<1>12. CASE MarkThrows(w)
  <2>1. ~At(w, "idle") /\ Working(w) /\ "release" \in PC \ {"idle", "delegate"}
    BY <1>12 DEF MarkThrows, At, Working, LeasedPC, PC
  <2>2. /\ Move(w, "release") /\ Target(w) \in unrecorded'
        /\ unrecorded \subseteq unrecorded' /\ unrecorded' \subseteq Account
        /\ setbacks' \in 0 .. MaxSetbacks
        /\ UNCHANGED << rc, ahead, confirmed, hive, refusing, broadcasts, backed >>
    BY <1>1, <1>2, <1>3, <1>12, <2>1 DEF MarkThrows, RcTypeOK
  <2> QED BY <2>1, <2>2, MoveKeeps
<1>13. CASE LookupFails(w) \/ Crash(w)
  <2>1. /\ Target(w) \in Account /\ Rest(w)
        /\ Setback \/ UNCHANGED setbacks
        /\ UNCHANGED << rc, ahead, confirmed, hive, refusing, history >>
    BY <1>2, <1>13 DEF LookupFails, Crash, At
  <2> QED BY <1>1, <1>3, <2>1, RestKeeps DEF RcTypeOK
<1> QED BY <1>4, <1>5, <1>6, <1>7, <1>8, <1>9, <1>10, <1>11, <1>12, <1>13
        DEF WorkerStep, WorkerFails

(* Steps that leave the workers alone and bring no row back to pending.     *)
LEMMA RowsKeep ==
  ASSUME RcInv, UNCHANGED << confirmed, hive, refusing, worker, history >>,
         rc' \in [Account -> RcRow], setbacks' \in 0 .. MaxSetbacks,
         ahead' \in [Account -> SUBSET Account],
         \A a \in Account : rc'[a].expired => rc'[a].status = "processing",
         \A a \in Account : \/ rc'[a].status = rc[a].status
                            \/ rc'[a].status = "uncertain"
  PROVE  RcInv'
<1>1. /\ RcTypeOK /\ WorkersOK /\ BackedOK /\ DelegatedIsBacked
      /\ BroadcastsOK /\ NoBlindSecondBroadcast
  BY DEF RcInv, BaseRcInv, OnceInv
<1>2. RcTypeOK'
  BY <1>1 DEF RcTypeOK, history
<1>3. WorkersOK'
  <2>1. \A w \in Worker : Working(w)' => rc'[Target(w)'].status # "pending"
    <3>1. \A w \in Worker : Working(w) => Target(w) \in Account
      BY <1>1 DEF WorkersOK, Working, At, LeasedPC
    <3> QED BY <1>1, <3>1 DEF WorkersOK, Working, Target
  <2> QED BY <1>1, <2>1 DEF WorkersOK, Working, At, Target
<1>4. BackedOK' /\ DelegatedIsBacked'
  BY <1>1 DEF BackedOK, DelegatedIsBacked, At, Target, Found, history
<1>5. OnceInv'
  BY <1>1 DEF OnceInv, BroadcastsOK, NoBlindSecondBroadcast, At, Target, history
<1> QED BY <1>2, <1>3, <1>4, <1>5 DEF RcInv, BaseRcInv

(* Steps of Hive, which leave rows and workers alone.                       *)
LEMMA HiveKeeps ==
  ASSUME RcInv, UNCHANGED << rc, ahead, worker, broadcasts, unrecorded >>,
         confirmed' \subseteq Account, refusing' \subseteq Account, setbacks' \in 0 .. MaxSetbacks,
         hive' \in [Account -> HiveRow], backed' \subseteq Account, backed \subseteq backed',
         \A a \in Account : hive'[a].sent \/ Found(a)' => a \in backed'
  PROVE  RcInv'
<1>1. /\ RcTypeOK /\ WorkersOK /\ BackedOK /\ DelegatedIsBacked
      /\ BroadcastsOK /\ NoBlindSecondBroadcast
  BY DEF RcInv, BaseRcInv, OnceInv
<1>2. RcTypeOK'
  BY <1>1 DEF RcTypeOK
<1>3. WorkersOK'
  BY <1>1 DEF WorkersOK, Working, At, Target
<1>4. BackedOK' /\ DelegatedIsBacked'
  BY <1>1 DEF BackedOK, DelegatedIsBacked, At, Target
<1>5. OnceInv'
  BY <1>1 DEF OnceInv, BroadcastsOK, NoBlindSecondBroadcast, At, Target
<1> QED BY <1>2, <1>3, <1>4, <1>5 DEF RcInv, BaseRcInv

LEMMA RecoverKeeps ==
  ASSUME RcInv, NEW w \in Worker, RecoverStaleRcProcessing(w)
  PROVE  RcInv'
<1>1. RcTypeOK
  BY DEF RcInv, BaseRcInv
<1> DEFINE row(a) == [rc[a] EXCEPT !.status = "uncertain", !.expired = FALSE]
<1>2. \A a \in Account : row(a) \in RcRow /\ row(a).status = "uncertain" /\ ~row(a).expired
  BY <1>1 DEF RcTypeOK, RcRow, RcStatus
<1>3. rc' = [a \in Account |-> IF a \in Stale THEN row(a) ELSE rc[a]]
  BY DEF RecoverStaleRcProcessing
<1> HIDE DEF row
<1>4. /\ rc' \in [Account -> RcRow]
      /\ \A a \in Account : rc'[a].expired => rc'[a].status = "processing"
      /\ \A a \in Account : rc'[a].status = rc[a].status \/ rc'[a].status = "uncertain"
  BY <1>1, <1>2, <1>3 DEF RcTypeOK
<1>5. ahead' \in [Account -> SUBSET Account]
  BY <1>1, QueueEffect DEF RecoverStaleRcProcessing, Stale
<1> QED BY <1>1, <1>4, <1>5, RowsKeep DEF RecoverStaleRcProcessing, RcTypeOK

LEMMA ListKeeps ==
  ASSUME RcInv, NEW w \in Worker, NEW a \in Account, ListUncertainRcUsernames(w, a)
  PROVE  RcInv'
<1>1. /\ RcTypeOK /\ WorkersOK /\ BackedOK /\ DelegatedIsBacked
      /\ BroadcastsOK /\ NoBlindSecondBroadcast
  BY DEF RcInv, BaseRcInv, OnceInv
<1> DEFINE next == [pc |-> "lookup", target |-> a, generation |-> 0]
<1>2. next \in [pc : PC, target : Account \cup {NoTarget}, generation : Nat]
  BY DEF PC
<1>3. /\ worker' = [worker EXCEPT ![w] = next] /\ next.pc = "lookup" /\ next.target = a
      /\ UNCHANGED << rc, ahead, confirmed, hive, refusing, history, setbacks >>
  BY DEF ListUncertainRcUsernames
<1> HIDE DEF next
<1>4. /\ worker' \in [Worker -> [pc : PC, target : Account \cup {NoTarget}, generation : Nat]]
      /\ worker'[w] = next
      /\ \A v \in Worker \ {w} : worker'[v] = worker[v]
  BY <1>1, <1>2, <1>3 DEF RcTypeOK
<1>5. RcTypeOK'
  BY <1>1, <1>3, <1>4 DEF RcTypeOK, history
<1>6. WorkersOK'
  BY <1>1, <1>3, <1>4 DEF WorkersOK, Working, At, Target, LeasedPC
<1>7. BackedOK' /\ DelegatedIsBacked'
  BY <1>1, <1>3, <1>4 DEF BackedOK, DelegatedIsBacked, At, Target, Found, history
<1>8. OnceInv'
  BY <1>1, <1>3, <1>4
     DEF OnceInv, BroadcastsOK, NoBlindSecondBroadcast, At, Target, history
<1> QED BY <1>5, <1>6, <1>7, <1>8 DEF RcInv, BaseRcInv

LEMMA SurroundingsKeep ==
  ASSUME RcInv, NEW a \in Account, LeaseExpires(a) \/ HiveStep(a)
  PROVE  RcInv'
<1>1. RcTypeOK /\ BackedOK
  BY DEF RcInv, BaseRcInv
<1>2. setbacks \in 0 .. MaxSetbacks /\ (Setback => setbacks' \in 0 .. MaxSetbacks)
  BY <1>1, RcAssumption DEF RcTypeOK, Setback
<1>3. CASE LeaseExpires(a)
  <2> DEFINE row == [rc[a] EXCEPT !.expired = TRUE]
  <2>1. row \in RcRow /\ row.status = "processing"
    BY <1>1, <1>3 DEF LeaseExpires, RcTypeOK, RcRow
  <2>2. rc' = [rc EXCEPT ![a] = row] /\ rc[a].status = "processing"
        /\ ahead' \in [Account -> SUBSET Account]
        /\ UNCHANGED << confirmed, hive, refusing, worker, history >>
        /\ setbacks' \in 0 .. MaxSetbacks
    BY <1>1, <1>2, <1>3 DEF LeaseExpires, RcTypeOK
  <2> HIDE DEF row
  <2>3. /\ rc' \in [Account -> RcRow]
        /\ \A b \in Account : rc'[b].expired => rc'[b].status = "processing"
        /\ \A b \in Account : rc'[b].status = rc[b].status
    BY <1>1, <2>1, <2>2 DEF RcTypeOK
  <2> QED BY <2>2, <2>3, RowsKeep
<1>4. CASE ConfirmAccount(a)
  BY <1>1, <1>2, <1>4, HiveKeeps DEF ConfirmAccount, RcTypeOK, BackedOK, Found, history
<1>5. ASSUME NEW row \in HiveRow, hive' = [hive EXCEPT ![a] = row],
             UNCHANGED << rc, ahead, confirmed, refusing, worker, broadcasts, unrecorded >>,
             setbacks' \in 0 .. MaxSetbacks,
             backed' \subseteq Account, backed \subseteq backed',
             row.sent \/ row.amount = "expected" => a \in backed'
      PROVE  RcInv'
  <2>1. /\ hive' \in [Account -> HiveRow] /\ hive'[a] = row
        /\ \A b \in Account \ {a} : hive'[b] = hive[b]
    BY <1>1, <1>5 DEF RcTypeOK
  <2>2. \A b \in Account : hive'[b].sent \/ Found(b)' => b \in backed'
    BY <1>1, <1>5, <2>1 DEF BackedOK, Found
  <2>3. confirmed' \subseteq Account /\ refusing' \subseteq Account
    BY <1>1, <1>5 DEF RcTypeOK
  <2> QED BY <1>5, <2>1, <2>2, <2>3, HiveKeeps
<1>6. CASE ApplyDelegation(a)
  <2>1. [sent |-> FALSE, amount |-> "expected"] \in HiveRow
    BY DEF HiveRow
  <2> QED BY <1>1, <1>2, <1>5, <1>6, <2>1 DEF ApplyDelegation, BackedOK, RcTypeOK, history
<1>7. CASE DropDelegation(a)
  <2> DEFINE row == [hive[a] EXCEPT !.sent = FALSE]
  <2>1. /\ row \in HiveRow /\ row.amount = hive[a].amount /\ ~row.sent
        /\ hive' = [hive EXCEPT ![a] = row]
    BY <1>1, <1>7 DEF DropDelegation, RcTypeOK, HiveRow
  <2> HIDE DEF row
  <2> QED BY <1>1, <1>2, <1>5, <1>7, <2>1 DEF DropDelegation, BackedOK, Found, RcTypeOK, history
<1>8. CASE UndoDelegation(a)
  <2>1. [sent |-> TRUE, amount |-> "none"] \in HiveRow
    BY DEF HiveRow
  <2>2. a \in backed
    BY <1>1, <1>8 DEF UndoDelegation, BackedOK, Found
  <2> QED BY <1>1, <1>2, <1>5, <1>8, <2>1, <2>2 DEF UndoDelegation, RcTypeOK, history
<1>9. ASSUME NEW amount \in {"none", "expected", "other"}, DelegateByHand(a, amount)
      PROVE  RcInv'
  <2> DEFINE row == [hive[a] EXCEPT !.amount = amount]
  <2>1. /\ row \in HiveRow /\ row.amount = amount /\ row.sent = hive[a].sent
        /\ hive' = [hive EXCEPT ![a] = row]
    BY <1>1, <1>9 DEF DelegateByHand, RcTypeOK, HiveRow
  <2>2. /\ backed' \subseteq Account /\ backed \subseteq backed'
        /\ amount = "expected" => a \in backed'
    BY <1>1, <1>9 DEF DelegateByHand, RcTypeOK
  <2> HIDE DEF row
  <2> QED BY <1>1, <1>2, <1>5, <1>9, <2>1, <2>2 DEF DelegateByHand, BackedOK
<1>10. CASE RefuseForGood(a)
  BY <1>1, <1>2, <1>10, HiveKeeps DEF RefuseForGood, RcTypeOK, BackedOK, Found, history
<1> QED BY <1>3, <1>4, <1>6, <1>7, <1>8, <1>9, <1>10 DEF HiveStep

LEMMA NextKeeps ==
  ASSUME RcInv, [Next]_vars
  PROVE  RcInv'
<1>1. CASE UNCHANGED vars
  BY <1>1 DEF vars, RcInv, BaseRcInv, OnceInv, RcTypeOK, WorkersOK, BackedOK, DelegatedIsBacked,
     BroadcastsOK, NoBlindSecondBroadcast, Working, At, Target, Found
<1>2. CASE Next
  BY <1>2, WorkerKeeps, RecoverKeeps, ClaimKeeps, ListKeeps, SurroundingsKeep DEF Next
<1> QED BY <1>1, <1>2

------------------------------------------------------------------------------
(* The theorems.                                                            *)

LEMMA InvariantHolds == Spec => []RcInv
BY InitInv, NextKeeps, PTL DEF Spec

(* Every row of Accounts keeps to the table's CHECK of its RC columns: only *)
(* a processing row has a lease.                                            *)
THEOREM RcTypeInvariant == Spec => []RcTypeOK
<1>1. RcInv => RcTypeOK
  BY DEF RcInv, BaseRcInv
<1> QED BY <1>1, InvariantHolds, PTL

(* No row says delegated unless a delegation of the expected amount was     *)
(* accepted or shown by Hive, whatever fails.                               *)
THEOREM DelegatedHasBacking == Spec => []DelegatedIsBacked
<1>1. RcInv => DelegatedIsBacked
  BY DEF RcInv, BaseRcInv
<1> QED BY <1>1, InvariantHolds, PTL

(* Unless recording an accepted delegation threw, RC is broadcast for an    *)
(* account at most once, with any number of workers, stalls and crashes.    *)
THEOREM BroadcastOnce == Spec => []NoBlindSecondBroadcast
<1>1. RcInv => NoBlindSecondBroadcast
  BY DEF RcInv, OnceInv
<1> QED BY <1>1, InvariantHolds, PTL
================================================================================
