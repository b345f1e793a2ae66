---------------------------- MODULE CreditFlowProofs ----------------------------
(***************************************************************************)
(* The flow of credits: that the ledger neither makes nor loses a credit   *)
(* (CreditsAreConserved), that claims add up (ClaimsAreBacked), and that   *)
(* CreditLedger implements CreditFlow.  All three are about sums, over the *)
(* tickets of a builder or the intents claimed; the first section proves   *)
(* what is needed of SumFunctionOnSet.                                     *)
(***************************************************************************)
EXTENDS CreditLedgerProofs

(* Sums.  The induction theorems of the library have an operator for a      *)
(* parameter, which the provers here cannot instantiate; a set of sets      *)
(* serves as well.                                                          *)
(* A set of subsets of S that contains a set whenever it contains all its   *)
(* proper subsets contains all of them.                                     *)
LEMMA SubsetInduction ==
  ASSUME NEW S, IsFiniteSet(S), NEW A,
         \A T \in SUBSET S : (\A U \in SUBSET T : U # T => U \in A) => T \in A
  PROVE  SUBSET S \subseteq A
<1> DEFINE Rest == (SUBSET S) \ A
<1> SUFFICES ASSUME Rest # {} PROVE FALSE
  OBVIOUS
<1>1. FiniteSubsetsOf(S) = SUBSET S
  BY FS_FiniteSubsetsOfFinite
<1>2. PICK T \in Rest : \A U \in Rest : <<U, T>> \notin StrictSubsetOrdering(S)
  <2>1. Rest \subseteq FiniteSubsetsOf(S)
    BY <1>1
  <2> HIDE DEF Rest
  <2> QED BY <2>1, FS_StrictSubsetOrderingWellFounded, WFMin
<1>3. \A U \in SUBSET T : U # T => U \in A
  <2> SUFFICES ASSUME NEW U \in SUBSET T, U # T, U \notin A PROVE FALSE
    OBVIOUS
  <2>1. <<U, T>> \in StrictSubsetOrdering(S)
    BY <1>2 DEF StrictSubsetOrdering
  <2> QED BY <1>2, <2>1
<1> QED BY <1>2, <1>3

(* The recursion of the fold: from the sums of a set's subsets to its sum.  *)
Peel(f, g, s) ==
  IF s = {} THEN 0 ELSE LET x == CHOOSE x \in s : TRUE IN f[x] + g[s \ {x}]

Recursive(f, g, S) == g = [s \in SUBSET S |-> Peel(f, g, s)]

LEMMA SumUnfolds ==
  ASSUME NEW f, NEW S
  PROVE  SumFunctionOnSet(f, S) = (CHOOSE g : Recursive(f, g, S))[S]
BY DEF SumFunctionOnSet, FoldFunctionOnSet, MapThenFoldSet, Recursive, Peel

LEMMA RecursionIsUnique ==
  ASSUME NEW f, NEW S, IsFiniteSet(S), NEW T \in SUBSET S,
         NEW g, Recursive(f, g, S), NEW h, Recursive(f, h, T)
  PROVE  \A s \in SUBSET T : g[s] = h[s]
<1> DEFINE Same == {s \in SUBSET T : g[s] = h[s]}
<1>1. IsFiniteSet(T)
  BY FS_Subset
<1>2. ASSUME NEW s \in SUBSET T, \A u \in SUBSET s : u # s => u \in Same
      PROVE  s \in Same
  <2>1. g[s] = Peel(f, g, s) /\ h[s] = Peel(f, h, s)
    BY DEF Recursive
  <2>2. s # {} => LET x == CHOOSE x \in s : TRUE IN s \ {x} \in Same
    BY <1>2
  <2> QED BY <2>1, <2>2 DEF Peel
<1> HIDE DEF Same
<1>3. SUBSET T \subseteq Same
  BY <1>1, <1>2, SubsetInduction
<1> QED BY <1>3 DEF Same

LEMMA RecursionExists ==
  ASSUME NEW f, NEW S, IsFiniteSet(S)
  PROVE  \E g : Recursive(f, g, S)
<1> DEFINE Solved == {T \in SUBSET S : \E g : Recursive(f, g, T)}
           sum(s) == SumFunctionOnSet(f, s)
<1>1. ASSUME NEW T \in SUBSET S, \A U \in SUBSET T : U # T => U \in Solved
      PROVE  T \in Solved
  <2> DEFINE sums == [s \in SUBSET T |-> sum(s)]
             g == [s \in SUBSET T |-> IF s = T THEN Peel(f, sums, T) ELSE sum(s)]
  <2>1. ASSUME NEW s \in SUBSET T
        PROVE  g[s] = Peel(f, g, s)
    <3>1. CASE s = T
      <4>1. T # {} => LET x == CHOOSE x \in T : TRUE IN g[T \ {x}] = sums[T \ {x}]
        OBVIOUS
      <4> QED BY <3>1, <4>1 DEF Peel
    <3>2. CASE s # T
      <4>1. PICK h : h = CHOOSE k : Recursive(f, k, s)
        OBVIOUS
      <4>2. Recursive(f, h, s)
        BY <1>1, <3>2, <4>1
      <4>3. sum(s) = h[s]
        BY <4>1, SumUnfolds
      <4>4. ASSUME NEW u \in SUBSET s, u # s
            PROVE  h[u] = g[u]
        <5>1. PICK k : k = CHOOSE l : Recursive(f, l, u)
          OBVIOUS
        <5>2. Recursive(f, k, u)
          <6>1. u \in SUBSET T /\ u # T
            BY <3>2, <4>4
          <6> QED BY <1>1, <5>1, <6>1
        <5>3. sum(u) = k[u]
          BY <5>1, SumUnfolds
        <5>4. IsFiniteSet(s)
          BY FS_Subset
        <5>5. h[u] = k[u]
          BY <4>2, <5>2, <5>4, RecursionIsUnique
        <5> QED BY <3>2, <4>4, <5>3, <5>5
      <4>5. h[s] = Peel(f, h, s)
        BY <4>2 DEF Recursive
      <4>6. g[s] = sum(s)
        BY <3>2
      <4>7. s # {} => LET x == CHOOSE x \in s : TRUE IN h[s \ {x}] = g[s \ {x}]
        BY <4>4
      <4> HIDE DEF g
      <4> QED BY <4>3, <4>5, <4>6, <4>7 DEF Peel
    <3> QED BY <3>1, <3>2
  <2>2. g = [s \in SUBSET T |-> g[s]]
    OBVIOUS
  <2> HIDE DEF g
  <2>3. Recursive(f, g, T)
    BY <2>1, <2>2 DEF Recursive
  <2> QED BY <2>3
<1> HIDE DEF Solved
<1>2. SUBSET S \subseteq Solved
  BY <1>1, SubsetInduction
<1> QED BY <1>2 DEF Solved

(* The fold's own recursion equation.                                       *)
LEMMA SumPeels ==
  ASSUME NEW f, NEW S, IsFiniteSet(S)
  PROVE  SumFunctionOnSet(f, S) =
           IF S = {} THEN 0
           ELSE LET x == CHOOSE x \in S : TRUE IN f[x] + SumFunctionOnSet(f, S \ {x})
<1>1. PICK g : g = CHOOSE k : Recursive(f, k, S)
  OBVIOUS
<1>2. Recursive(f, g, S)
  BY <1>1, RecursionExists
<1>3. SumFunctionOnSet(f, S) = g[S]
  BY <1>1, SumUnfolds
<1>4. ASSUME NEW T \in SUBSET S
      PROVE  g[T] = SumFunctionOnSet(f, T)
  <2>1. IsFiniteSet(T)
    BY FS_Subset
  <2>2. PICK h : h = CHOOSE k : Recursive(f, k, T)
    OBVIOUS
  <2>3. Recursive(f, h, T)
    BY <2>1, <2>2, RecursionExists
  <2>4. SumFunctionOnSet(f, T) = h[T]
    BY <2>2, SumUnfolds
  <2> QED BY <1>2, <2>3, <2>4, RecursionIsUnique
<1>5. g[S] = Peel(f, g, S)
  BY <1>2 DEF Recursive
<1>6. S # {} => LET x == CHOOSE x \in S : TRUE IN g[S \ {x}] = SumFunctionOnSet(f, S \ {x})
  BY <1>4
<1> QED BY <1>3, <1>5, <1>6 DEF Peel

LEMMA SumOfNone ==
  ASSUME NEW f
  PROVE  SumFunctionOnSet(f, {}) = 0
BY SumPeels, FS_EmptySet

(* The sum of integers is an integer, of naturals a natural, ...            *)
LEMMA SumIsInt ==
  ASSUME NEW S, IsFiniteSet(S), NEW f, \A x \in S : f[x] \in Int
  PROVE  /\ SumFunctionOnSet(f, S) \in Int
         /\ (\A x \in S : f[x] \in Nat) => SumFunctionOnSet(f, S) \in Nat
<1> DEFINE Typed(n) == n \in Int /\ ((\A x \in S : f[x] \in Nat) => n \in Nat)
           Good == {T \in SUBSET S : Typed(SumFunctionOnSet(f, T))}
<1>1. ASSUME NEW T \in SUBSET S, \A U \in SUBSET T : U # T => U \in Good
      PROVE  T \in Good
  <2>1. CASE T = {}
    <3>1. Typed(0)
      OBVIOUS
    <3> HIDE DEF Typed
    <3> QED BY <2>1, <3>1, SumOfNone
  <2>2. CASE T # {}
    <3>1. PICK x \in T : x = CHOOSE y \in T : TRUE
      BY <2>2
    <3>2. SumFunctionOnSet(f, T) = f[x] + SumFunctionOnSet(f, T \ {x})
      <4>1. IsFiniteSet(T)
        BY FS_Subset
      <4> QED BY <2>2, <3>1, <4>1, SumPeels
    <3>3. T \ {x} \in Good
      BY <1>1
    <3> QED BY <3>2, <3>3
  <2> QED BY <2>1, <2>2
<1> HIDE DEF Good
<1>2. SUBSET S \subseteq Good
  BY <1>1, SubsetInduction
<1> QED BY <1>2 DEF Good

(* ... whose terms may be taken in any order, ...                           *)
LEMMA SumRemoves ==
  ASSUME NEW S, IsFiniteSet(S), NEW f, \A x \in S : f[x] \in Int, NEW x \in S
  PROVE  SumFunctionOnSet(f, S) = f[x] + SumFunctionOnSet(f, S \ {x})
<1> DEFINE Any == {T \in SUBSET S : \A z \in T :
                     SumFunctionOnSet(f, T) = f[z] + SumFunctionOnSet(f, T \ {z})}
<1>1. ASSUME NEW T \in SUBSET S, \A U \in SUBSET T : U # T => U \in Any, NEW z \in T
      PROVE  SumFunctionOnSet(f, T) = f[z] + SumFunctionOnSet(f, T \ {z})
  <2>1. PICK y \in T : y = CHOOSE v \in T : TRUE
    OBVIOUS
  <2>2. SumFunctionOnSet(f, T) = f[y] + SumFunctionOnSet(f, T \ {y})
    <3>1. IsFiniteSet(T)
      BY FS_Subset
    <3> QED BY <2>1, <3>1, SumPeels
  <2>3. CASE z # y
    <3>1. T \ {y} \in Any /\ T \ {z} \in Any
      BY <1>1
    <3>2. SumFunctionOnSet(f, T \ {y}) = f[z] + SumFunctionOnSet(f, (T \ {y}) \ {z})
      BY <2>3, <3>1
    <3>3. SumFunctionOnSet(f, T \ {z}) = f[y] + SumFunctionOnSet(f, (T \ {z}) \ {y})
      BY <2>3, <3>1
    <3>4. (T \ {y}) \ {z} = (T \ {z}) \ {y}
      OBVIOUS
    <3>5. SumFunctionOnSet(f, (T \ {z}) \ {y}) \in Int
      <4>1. IsFiniteSet((T \ {z}) \ {y}) /\ \A v \in (T \ {z}) \ {y} : f[v] \in Int
        BY FS_Subset
      <4> HIDE DEF Any
      <4> QED BY <4>1, SumIsInt
    <3>6. f[y] \in Int /\ f[z] \in Int
      OBVIOUS
    <3>7. PICK m \in Int, n \in Int, k \in Int :
            f[y] = m /\ f[z] = n /\ SumFunctionOnSet(f, (T \ {z}) \ {y}) = k
      BY <3>5, <3>6
    <3>8. SumFunctionOnSet(f, T) = m + (n + k) /\ SumFunctionOnSet(f, T \ {z}) = m + k
      BY <2>2, <3>2, <3>3, <3>4, <3>7
    <3> QED BY <3>7, <3>8
  <2> QED BY <2>2, <2>3
<1> HIDE DEF Any
<1>2. SUBSET S \subseteq Any
  <2>1. \A T \in SUBSET S : (\A U \in SUBSET T : U # T => U \in Any) => T \in Any
    BY <1>1 DEF Any
  <2> QED BY <2>1, SubsetInduction
<1> QED BY <1>2 DEF Any

(* ... that depends on nothing else, ...                                    *)
LEMMA SumAgrees ==
  ASSUME NEW S, IsFiniteSet(S), NEW f, NEW g, \A x \in S : f[x] = g[x]
  PROVE  SumFunctionOnSet(f, S) = SumFunctionOnSet(g, S)
<1> DEFINE Same == {T \in SUBSET S : SumFunctionOnSet(f, T) = SumFunctionOnSet(g, T)}
<1>1. ASSUME NEW T \in SUBSET S, \A U \in SUBSET T : U # T => U \in Same
      PROVE  T \in Same
  <2>1. IsFiniteSet(T)
    BY FS_Subset
  <2>2. CASE T = {}
    BY <2>1, <2>2, SumPeels
  <2>3. CASE T # {}
    <3>1. PICK x \in T : x = CHOOSE y \in T : TRUE
      BY <2>3
    <3>2. /\ SumFunctionOnSet(f, T) = f[x] + SumFunctionOnSet(f, T \ {x})
          /\ SumFunctionOnSet(g, T) = g[x] + SumFunctionOnSet(g, T \ {x})
      BY <2>1, <2>3, <3>1, SumPeels
    <3>3. T \ {x} \in Same
      BY <1>1
    <3> QED BY <3>2, <3>3
  <2> QED BY <2>2, <2>3
<1> HIDE DEF Same
<1>2. SUBSET S \subseteq Same
  BY <1>1, SubsetInduction
<1> QED BY <1>2 DEF Same

(* ... and of naturals it is no less than a term of it.                     *)
LEMMA SumCoversTerm ==
  ASSUME NEW S, IsFiniteSet(S), NEW f, \A x \in S : f[x] \in Nat, NEW x \in S
  PROVE  f[x] <= SumFunctionOnSet(f, S)
<1>1. SumFunctionOnSet(f, S) = f[x] + SumFunctionOnSet(f, S \ {x})
  BY SumRemoves
<1>2. SumFunctionOnSet(f, S \ {x}) \in Nat
  <2>1. IsFiniteSet(S \ {x}) /\ \A y \in S \ {x} : f[y] \in Nat
    BY FS_RemoveElement
  <2> QED BY <2>1, SumIsInt
<1> QED BY <1>1, <1>2

(* Two sums over the same set that differ in the term of x only; and one    *)
(* more term.                                                               *)
LEMMA SumChanges ==
  ASSUME NEW S, IsFiniteSet(S), NEW x \in S,
         NEW f, \A y \in S : f[y] \in Int, NEW g, \A y \in S : g[y] \in Int,
         \A y \in S : y # x => f[y] = g[y]
  PROVE  SumFunctionOnSet(g, S) = SumFunctionOnSet(f, S) - f[x] + g[x]
<1>1. IsFiniteSet(S \ {x})
  BY FS_RemoveElement
<1>2. SumFunctionOnSet(f, S \ {x}) = SumFunctionOnSet(g, S \ {x})
  BY <1>1, SumAgrees
<1>3. SumFunctionOnSet(f, S) = f[x] + SumFunctionOnSet(f, S \ {x})
  BY SumRemoves
<1>4. SumFunctionOnSet(g, S) = g[x] + SumFunctionOnSet(g, S \ {x})
  BY SumRemoves
<1>5. SumFunctionOnSet(f, S \ {x}) \in Int
  BY <1>1, SumIsInt
<1> QED BY <1>2, <1>3, <1>4, <1>5

LEMMA SumGrows ==
  ASSUME NEW S, IsFiniteSet(S), NEW x, x \notin S,
         NEW f, \A y \in S \cup {x} : f[y] \in Int
  PROVE  SumFunctionOnSet(f, S \cup {x}) = SumFunctionOnSet(f, S) + f[x]
<1>1. IsFiniteSet(S \cup {x}) /\ (S \cup {x}) \ {x} = S
  BY FS_AddElement
<1>2. SumFunctionOnSet(f, S \cup {x}) = f[x] + SumFunctionOnSet(f, S)
  BY <1>1, SumRemoves
<1>3. SumFunctionOnSet(f, S) \in Int
  BY SumIsInt
<1> QED BY <1>2, <1>3

------------------------------------------------------------------------------
(* What a transaction books for b: the change of the three balances, of     *)
(* what was issued, of what forms adjusted, and of what was claimed.        *)
Adjusted(b) == audit[b]["admin_adjust_pending"] + audit[b]["admin_adjustment"]

Booked(b, pending, available, consumed, issued, adjustedPending, adjustedAvailable, claimed) ==
  /\ Writes(b)
  /\ credits'[b].pending = credits[b].pending + pending
  /\ credits'[b].available = credits[b].available + available
  /\ credits'[b].consumed = credits[b].consumed + consumed
  /\ credits'[b].issued = credits[b].issued + issued
  /\ audit'[b]["admin_adjust_pending"] = audit[b]["admin_adjust_pending"] + adjustedPending
  /\ audit'[b]["admin_adjustment"] = audit[b]["admin_adjustment"] + adjustedAvailable
  /\ audit'[b]["claim_credits"] = audit[b]["claim_credits"] + claimed

LEMMA GrantPendingBooked ==
  ASSUME CreditsTypeOK, NEW b \in Builder, NEW n \in Nat, GrantPendingCredits(b, n)
  PROVE  Booked(b, n, 0, 0, n, 0, 0, 0)
<1> DEFINE amounts == [o \in Operation |-> IF o = "assign_credits" THEN n ELSE 0]
<1>1. amounts \in [Operation -> Int]
  OBVIOUS
<1>2. /\ credits[b].pending + n \in Nat /\ credits[b].available \in Nat
      /\ credits[b].issued + n \in Nat /\ credits[b].consumed \in Nat
  BY BalanceFields DEF GrantPendingCredits
<1>3. /\ Update(b, credits[b].pending + n, credits[b].available,
                credits[b].issued + n, credits[b].consumed)
      /\ InsertCreditAudits(b, amounts)
  BY DEF GrantPendingCredits, InsertCreditAudit
<1>4. /\ Writes(b)
      /\ \A o \in Operation : audit'[b][o] = audit[b][o] + amounts[o]
      /\ credits'[b].pending = credits[b].pending + n
      /\ credits'[b].available = credits[b].available
      /\ credits'[b].issued = credits[b].issued + n
      /\ credits'[b].consumed = credits[b].consumed
  BY <1>1, <1>2, <1>3, RowsWritten
<1> QED BY <1>4, BalanceFields DEF Booked, Adjusted, Operation

LEMMA GrantAvailableBooked ==
  ASSUME CreditsTypeOK, NEW b \in Builder, NEW n \in Nat, GrantAvailableCredits(b, n)
  PROVE  Booked(b, 0, n, 0, n, 0, 0, 0)
<1> DEFINE amounts == [o \in Operation |-> IF o = "grant_available_credits" THEN n ELSE 0]
<1>1. amounts \in [Operation -> Int]
  OBVIOUS
<1>2. /\ credits[b].pending \in Nat /\ credits[b].available + n \in Nat
      /\ credits[b].issued + n \in Nat /\ credits[b].consumed \in Nat
  BY BalanceFields DEF GrantAvailableCredits
<1>3. /\ Update(b, credits[b].pending, credits[b].available + n,
                credits[b].issued + n, credits[b].consumed)
      /\ InsertCreditAudits(b, amounts)
  BY DEF GrantAvailableCredits, InsertCreditAudit
<1>4. /\ Writes(b)
      /\ \A o \in Operation : audit'[b][o] = audit[b][o] + amounts[o]
      /\ credits'[b].pending = credits[b].pending
      /\ credits'[b].available = credits[b].available + n
      /\ credits'[b].issued = credits[b].issued + n
      /\ credits'[b].consumed = credits[b].consumed
  BY <1>1, <1>2, <1>3, RowsWritten
<1> QED BY <1>4, BalanceFields DEF Booked, Adjusted, Operation

LEMMA ClaimBooked ==
  ASSUME CreditsTypeOK, NEW b \in Builder, NEW n \in Nat, ClaimCredits(b, n)
  PROVE  Booked(b, -n, n, 0, 0, 0, 0, n)
<1> DEFINE amounts == [o \in Operation |-> IF o = "claim_credits" THEN n ELSE 0]
<1>1. amounts \in [Operation -> Int]
  OBVIOUS
<1>2. /\ credits[b].pending - n \in Nat /\ credits[b].available + n \in Nat
      /\ credits[b].issued \in Nat /\ credits[b].consumed \in Nat
  BY BalanceFields DEF ClaimCredits
<1>3. /\ Update(b, credits[b].pending - n, credits[b].available + n,
                credits[b].issued, credits[b].consumed)
      /\ InsertCreditAudits(b, amounts)
  BY DEF ClaimCredits, InsertCreditAudit
<1>4. /\ Writes(b)
      /\ \A o \in Operation : audit'[b][o] = audit[b][o] + amounts[o]
      /\ credits'[b].pending = credits[b].pending - n
      /\ credits'[b].available = credits[b].available + n
      /\ credits'[b].issued = credits[b].issued
      /\ credits'[b].consumed = credits[b].consumed
  BY <1>1, <1>2, <1>3, RowsWritten
<1> QED BY <1>4, BalanceFields DEF Booked, Adjusted, Operation

LEMMA DeductBooked ==
  ASSUME CreditsTypeOK, NEW b \in Builder, NEW n \in Nat, DeductCreditsForTicket(b, n)
  PROVE  Booked(b, 0, -n, 0, 0, 0, 0, 0)
<1> DEFINE amounts == [o \in Operation |-> IF o = "create_ticket" THEN -n ELSE 0]
<1>1. amounts \in [Operation -> Int]
  OBVIOUS
<1>2. /\ credits[b].pending \in Nat /\ credits[b].available - n \in Nat
      /\ credits[b].issued \in Nat /\ credits[b].consumed \in Nat
  BY BalanceFields DEF DeductCreditsForTicket
<1>3. /\ Update(b, credits[b].pending, credits[b].available - n,
                credits[b].issued, credits[b].consumed)
      /\ InsertCreditAudits(b, amounts)
  BY DEF DeductCreditsForTicket, InsertCreditAudit
<1>4. /\ Writes(b)
      /\ \A o \in Operation : audit'[b][o] = audit[b][o] + amounts[o]
      /\ credits'[b].pending = credits[b].pending
      /\ credits'[b].available = credits[b].available - n
      /\ credits'[b].issued = credits[b].issued
      /\ credits'[b].consumed = credits[b].consumed
  BY <1>1, <1>2, <1>3, RowsWritten
<1> QED BY <1>4, BalanceFields DEF Booked, Adjusted, Operation

LEMMA RefundBooked ==
  ASSUME CreditsTypeOK, NEW b \in Builder, NEW n \in Nat, RefundCreditsFromTicket(b, n)
  PROVE  Booked(b, 0, n, 0, 0, 0, 0, 0)
<1> DEFINE amounts == [o \in Operation |-> IF o = "delete_ticket_refund" THEN n ELSE 0]
<1>1. amounts \in [Operation -> Int]
  OBVIOUS
<1>2. /\ credits[b].pending \in Nat /\ credits[b].available + n \in Nat
      /\ credits[b].issued \in Nat /\ credits[b].consumed \in Nat
  BY BalanceFields DEF RefundCreditsFromTicket
<1>3. /\ Update(b, credits[b].pending, credits[b].available + n,
                credits[b].issued, credits[b].consumed)
      /\ InsertCreditAudits(b, amounts)
  BY DEF RefundCreditsFromTicket, InsertCreditAudit
<1>4. /\ Writes(b)
      /\ \A o \in Operation : audit'[b][o] = audit[b][o] + amounts[o]
      /\ credits'[b].pending = credits[b].pending
      /\ credits'[b].available = credits[b].available + n
      /\ credits'[b].issued = credits[b].issued
      /\ credits'[b].consumed = credits[b].consumed
  BY <1>1, <1>2, <1>3, RowsWritten
<1> QED BY <1>4, BalanceFields DEF Booked, Adjusted, Operation

LEMMA ConsumeBooked ==
  ASSUME CreditsTypeOK, NEW b \in Builder, NEW n \in Nat, MarkCreditsAsConsumed(b, n)
  PROVE  Booked(b, 0, 0, n, 0, 0, 0, 0)
<1> DEFINE amounts == [o \in Operation |-> IF o = "consume_credits" THEN -n ELSE 0]
<1>1. amounts \in [Operation -> Int]
  OBVIOUS
<1>2. /\ credits[b].pending \in Nat /\ credits[b].available \in Nat
      /\ credits[b].issued \in Nat /\ credits[b].consumed + n \in Nat
  BY BalanceFields DEF MarkCreditsAsConsumed
<1>3. /\ Update(b, credits[b].pending, credits[b].available,
                credits[b].issued, credits[b].consumed + n)
      /\ InsertCreditAudits(b, amounts)
  BY DEF MarkCreditsAsConsumed, InsertCreditAudit
<1>4. /\ Writes(b)
      /\ \A o \in Operation : audit'[b][o] = audit[b][o] + amounts[o]
      /\ credits'[b].pending = credits[b].pending
      /\ credits'[b].available = credits[b].available
      /\ credits'[b].issued = credits[b].issued
      /\ credits'[b].consumed = credits[b].consumed + n
  BY <1>1, <1>2, <1>3, RowsWritten
<1> QED BY <1>4, BalanceFields DEF Booked, Adjusted, Operation

LEMMA AdjustBooked ==
  ASSUME CreditsTypeOK, NEW b \in Builder, NEW p \in Nat, NEW a \in Nat, NEW revision,
         AdjustCreditBalances(b, revision, p, a)
  PROVE  Booked(b, p - credits[b].pending, a - credits[b].available, 0, 0,
                p - credits[b].pending, a - credits[b].available, 0)
<1> DEFINE amounts == [o \in Operation |->
             CASE o = "admin_adjust_pending" -> p - credits[b].pending
               [] o = "admin_adjustment" -> a - credits[b].available
               [] OTHER -> 0]
<1>1. amounts \in [Operation -> Int]
  BY BalanceFields
<1>2. /\ amounts["admin_adjust_pending"] = p - credits[b].pending
      /\ amounts["admin_adjustment"] = a - credits[b].available
      /\ amounts["claim_credits"] = 0
  BY DEF Operation
<1>3. credits[b].issued \in Nat /\ credits[b].consumed \in Nat
  BY BalanceFields
<1>4. /\ Update(b, p, a, credits[b].issued, credits[b].consumed)
      /\ InsertCreditAudits(b, amounts)
  BY DEF AdjustCreditBalances
<1> HIDE DEF amounts
<1>5. /\ Writes(b)
      /\ \A o \in Operation : audit'[b][o] = audit[b][o] + amounts[o]
      /\ credits'[b].pending = p
      /\ credits'[b].available = a
      /\ credits'[b].issued = credits[b].issued
      /\ credits'[b].consumed = credits[b].consumed
  BY <1>1, <1>3, <1>4, RowsWritten
<1> QED BY <1>2, <1>5, BalanceFields DEF Booked, Adjusted, Operation

------------------------------------------------------------------------------
(* Claims add up.                                                           *)
Claimed(b) == {n \in Intent : intents[n].owner = b /\ intents[n].state = "claimed"}
Amounts == [n \in Intent |-> intents[n].amount]

ClaimsAddUp ==
  \A b \in Builder :
    /\ IsFiniteSet(Claimed(b))
    /\ audit[b]["claim_credits"] = SumFunctionOnSet(Amounts, Claimed(b))

(* Neither an intent nor the journal of a builder says that more, or less,  *)
(* was claimed.                                                             *)
NoneClaimed(b) == audit'[b]["claim_credits"] = audit[b]["claim_credits"]
SameClaims ==
  \A n \in Intent : \/ intents'[n] = intents[n]
                    \/ intents[n].state # "claimed" /\ intents'[n].state # "claimed"

LEMMA ClaimsStand ==
  ASSUME LedgerTypeOK, ClaimsAddUp, SameClaims, \A b \in Builder : NoneClaimed(b)
  PROVE  ClaimsAddUp'
<1> SUFFICES ASSUME NEW b \in Builder
             PROVE  /\ IsFiniteSet(Claimed(b)')
                    /\ audit'[b]["claim_credits"] = SumFunctionOnSet(Amounts', Claimed(b)')
  BY DEF ClaimsAddUp
<1>1. Claimed(b)' = Claimed(b)
  BY DEF Claimed, SameClaims
<1>2. \A n \in Claimed(b) : Amounts'[n] = Amounts[n]
  BY DEF Claimed, SameClaims, Amounts
<1>3. IsFiniteSet(Claimed(b)) /\ audit[b]["claim_credits"] = SumFunctionOnSet(Amounts, Claimed(b))
  BY DEF ClaimsAddUp
<1>4. SumFunctionOnSet(Amounts', Claimed(b)) = SumFunctionOnSet(Amounts, Claimed(b))
  BY <1>2, <1>3, SumAgrees
<1> QED BY <1>1, <1>3, <1>4 DEF NoneClaimed

LEMMA ClaimAddsUp ==
  ASSUME LedgerTypeOK, ClaimsAddUp, NEW n \in Intent, CompleteClaim(n)
  PROVE  ClaimsAddUp'
<1>1. PICK b \in Builder, k \in Nat :
        /\ b = intents[n].owner /\ k = intents[n].amount
        /\ ClaimCredits(b, k) /\ intents[n].state = "live"
        /\ intents' = Complete(n)
  BY DEF LedgerTypeOK, ClaimsTypeOK, IntentRow, CompleteClaim, Live
<1>2. Booked(b, -k, k, 0, 0, 0, 0, k)
  BY <1>1, ClaimBooked DEF LedgerTypeOK
<1>3. \A m \in Intent : intents'[m].owner = intents[m].owner
                     /\ intents'[m].amount = intents[m].amount
                     /\ (intents'[m].state = "claimed" <=> m = n \/ intents[m].state = "claimed")
  BY <1>1 DEF Complete, LiveIntents, Live
<1>4. ASSUME NEW d \in Builder
      PROVE  /\ IsFiniteSet(Claimed(d)) /\ Amounts' = Amounts
             /\ audit[d]["claim_credits"] = SumFunctionOnSet(Amounts, Claimed(d))
             /\ \A m \in Claimed(d) : Amounts[m] \in Int
             /\ Claimed(d)' = IF d = b THEN Claimed(d) \cup {n} ELSE Claimed(d)
             /\ n \notin Claimed(d) /\ Amounts[n] = k
  BY <1>1, <1>3 DEF ClaimsAddUp, Claimed, Amounts, LedgerTypeOK, ClaimsTypeOK, IntentRow
<1>5. ASSUME NEW d \in Builder
      PROVE  /\ IsFiniteSet(Claimed(d)')
             /\ audit'[d]["claim_credits"] = SumFunctionOnSet(Amounts', Claimed(d)')
  <2>1. CASE d = b
    <3>1. audit'[b]["claim_credits"] = audit[b]["claim_credits"] + k
      BY <1>2 DEF Booked
    <3>2. SumFunctionOnSet(Amounts, Claimed(b) \cup {n}) = SumFunctionOnSet(Amounts, Claimed(b)) + k
      <4>1. IsFiniteSet(Claimed(b)) /\ n \notin Claimed(b) /\ Amounts[n] = k
        BY <1>4
      <4>2. \A m \in Claimed(b) \cup {n} : Amounts[m] \in Int
        BY <1>4
      <4> QED BY <4>1, <4>2, SumGrows
    <3>3. Claimed(b)' = Claimed(b) \cup {n} /\ IsFiniteSet(Claimed(b) \cup {n})
      BY <1>4, FS_AddElement
    <3>4. audit[b]["claim_credits"] = SumFunctionOnSet(Amounts, Claimed(b)) /\ Amounts' = Amounts
      BY <1>4
    <3> QED BY <2>1, <3>1, <3>2, <3>3, <3>4
  <2>2. CASE d # b
    BY <1>2, <1>4, <2>2 DEF Booked, Writes
  <2> QED BY <2>1, <2>2
<1> QED BY <1>5 DEF ClaimsAddUp

------------------------------------------------------------------------------
(* Held credits: of what changes in one ticket.                             *)
Shifts(b, n) ==
  /\ Held(b)' = Held(b) + n
  /\ \A d \in Builder : d # b => Held(d)' = Held(d)

FlowInv ==
  /\ \A b \in Builder : IsFiniteSet(TicketsOf(b))
  /\ \A n \in Intent : intents[n].state # "absent" => intents[n].amount > 0

LEMMA HeldIsNat ==
  ASSUME TicketsTypeOK
  PROVE  /\ \A t \in Ticket : HeldOn(t) \in Nat /\ HeldOn(t) = tickets[t].remaining + Counted(t, "open")
         /\ FlowInv => \A b \in Builder : Held(b) \in Nat
<1>1. ASSUME NEW t \in Ticket
      PROVE  HeldOn(t) \in Nat /\ HeldOn(t) = tickets[t].remaining + Counted(t, "open")
  BY TicketFields DEF HeldOn, Counted
<1>2. ASSUME FlowInv, NEW b \in Builder
      PROVE  Held(b) \in Nat
  <2>1. /\ IsFiniteSet(TicketsOf(b))
        /\ \A t \in TicketsOf(b) : [u \in Ticket |-> HeldOn(u)][t] \in Nat
    BY <1>1, <1>2 DEF FlowInv, TicketsOf
  <2> QED BY <2>1, SumIsInt DEF Held
<1> QED BY <1>1, <1>2

LEMMA HeldIsNatNext ==
  ASSUME TicketsTypeOK'
  PROVE  \A t \in Ticket : HeldOn(t)' \in Nat
<1> SUFFICES ASSUME NEW t \in Ticket PROVE HeldOn(t)' \in Nat
  OBVIOUS
<1>1. IsFiniteSet(AttemptsOn(t, "open")')
  BY TicketAssumption, FS_Subset DEF AttemptsOn
<1>2. Cardinality(AttemptsOn(t, "open")') \in Nat /\ tickets'[t].remaining \in Nat
  BY <1>1, FS_CardinalityType DEF TicketsTypeOK, TicketRow
<1> QED BY <1>2 DEF HeldOn

(* No ticket changes hands or the credits it holds.                         *)
LEMMA HeldStays ==
  ASSUME \A t \in Ticket : tickets'[t].owner = tickets[t].owner /\ HeldOn(t)' = HeldOn(t)
  PROVE  \A b \in Builder : Held(b)' = Held(b)
<1> SUFFICES ASSUME NEW b \in Builder PROVE Held(b)' = Held(b)
  OBVIOUS
<1>1. TicketsOf(b)' = TicketsOf(b)
  BY DEF TicketsOf
<1>2. [t \in Ticket |-> HeldOn(t)'] = [t \in Ticket |-> HeldOn(t)]
  OBVIOUS
<1> QED BY <1>1, <1>2 DEF Held

(* A ticket of b holds more, or fewer.                                      *)
LEMMA HeldChanges ==
  ASSUME TicketsTypeOK, TicketsTypeOK', FlowInv, NEW b \in Builder, NEW t \in Ticket,
         tickets[t].owner = b,
         \A u \in Ticket : tickets'[u].owner = tickets[u].owner,
         \A u \in Ticket : u # t => HeldOn(u)' = HeldOn(u)
  PROVE  Shifts(b, HeldOn(t)' - HeldOn(t)) /\ HeldOn(t) <= Held(b)
<1> DEFINE old == [u \in Ticket |-> HeldOn(u)]
           new == [u \in Ticket |-> HeldOn(u)']
<1>1. \A u \in Ticket : HeldOn(u) \in Nat /\ HeldOn(u)' \in Nat
  BY HeldIsNat, HeldIsNatNext
<1>2. \A d \in Builder : IsFiniteSet(TicketsOf(d)) /\ TicketsOf(d)' = TicketsOf(d)
  BY DEF TicketsOf, FlowInv
<1>3. \A d \in Builder : /\ Held(d) = SumFunctionOnSet(old, TicketsOf(d))
                         /\ Held(d)' = SumFunctionOnSet(new, TicketsOf(d))
  BY <1>2 DEF Held
<1>4. /\ \A u \in Ticket : old[u] \in Nat /\ new[u] \in Nat /\ (u # t => old[u] = new[u])
      /\ old[t] = HeldOn(t) /\ new[t] = HeldOn(t)'
  BY <1>1
<1> HIDE DEF old, new
<1>5. t \in TicketsOf(b) /\ \A d \in Builder : TicketsOf(d) \subseteq Ticket
  BY DEF TicketsOf
<1>6. SumFunctionOnSet(new, TicketsOf(b)) = SumFunctionOnSet(old, TicketsOf(b)) - old[t] + new[t]
  BY <1>2, <1>4, <1>5, SumChanges
<1>7. SumFunctionOnSet(old, TicketsOf(b)) \in Nat /\ old[t] <= SumFunctionOnSet(old, TicketsOf(b))
  BY <1>2, <1>4, <1>5, SumIsInt, SumCoversTerm
<1>8. ASSUME NEW d \in Builder, d # b
      PROVE  Held(d)' = Held(d)
  <2>1. \A u \in TicketsOf(d) : old[u] = new[u]
    BY <1>4, <1>8 DEF TicketsOf
  <2> QED BY <1>2, <1>3, <2>1, SumAgrees
<1>9. Held(b)' = Held(b) + (HeldOn(t)' - HeldOn(t))
  BY <1>1, <1>3, <1>4, <1>6, <1>7
<1> QED BY <1>3, <1>4, <1>7, <1>8, <1>9 DEF Shifts

(* b gets a ticket.                                                         *)
LEMMA HeldGrows ==
  ASSUME TicketsTypeOK, TicketsTypeOK', FlowInv, NEW b \in Builder, NEW t \in Ticket,
         tickets[t].owner \notin Builder, tickets'[t].owner = b,
         \A u \in Ticket : u # t => /\ tickets'[u].owner = tickets[u].owner
                                    /\ HeldOn(u)' = HeldOn(u)
  PROVE  Shifts(b, HeldOn(t)')
<1> DEFINE old == [u \in Ticket |-> HeldOn(u)]
           new == [u \in Ticket |-> HeldOn(u)']
<1>1. \A u \in Ticket : HeldOn(u) \in Nat /\ HeldOn(u)' \in Nat
  BY HeldIsNat, HeldIsNatNext
<1>2. /\ \A d \in Builder : IsFiniteSet(TicketsOf(d)) /\ t \notin TicketsOf(d)
      /\ \A d \in Builder : TicketsOf(d) \subseteq Ticket
      /\ \A d \in Builder : d # b => TicketsOf(d)' = TicketsOf(d)
      /\ TicketsOf(b)' = TicketsOf(b) \cup {t}
  BY DEF TicketsOf, FlowInv
<1>3. \A d \in Builder : /\ Held(d) = SumFunctionOnSet(old, TicketsOf(d))
                         /\ Held(d)' = SumFunctionOnSet(new, TicketsOf(d)')
  BY DEF Held
<1>4. /\ \A u \in Ticket : old[u] \in Nat /\ new[u] \in Nat /\ (u # t => old[u] = new[u])
      /\ new[t] = HeldOn(t)'
  BY <1>1
<1> HIDE DEF old, new
<1>5. \A d \in Builder : \A u \in TicketsOf(d) : old[u] = new[u] /\ old[u] \in Int /\ new[u] \in Int
  BY <1>2, <1>4
<1>6. SumFunctionOnSet(new, TicketsOf(b) \cup {t}) = SumFunctionOnSet(old, TicketsOf(b)) + new[t]
  <2>1. \A u \in TicketsOf(b) \cup {t} : new[u] \in Int
    BY <1>4, <1>5
  <2>2. IsFiniteSet(TicketsOf(b)) /\ t \notin TicketsOf(b)
    BY <1>2
  <2>3. SumFunctionOnSet(new, TicketsOf(b) \cup {t}) = SumFunctionOnSet(new, TicketsOf(b)) + new[t]
    BY <2>1, <2>2, SumGrows
  <2>4. SumFunctionOnSet(new, TicketsOf(b)) = SumFunctionOnSet(old, TicketsOf(b))
    BY <1>5, <2>2, SumAgrees
  <2> QED BY <2>3, <2>4
<1>7. ASSUME NEW d \in Builder, d # b
      PROVE  Held(d)' = Held(d)
  BY <1>2, <1>3, <1>5, <1>7, SumAgrees
<1> QED BY <1>2, <1>3, <1>4, <1>6, <1>7 DEF Shifts

------------------------------------------------------------------------------
(* Where a step takes credits from, and where to: the seven ways of         *)
(* CreditFlow, with what they leave in the journal.                         *)
Claims(b) ==
  \E n \in Nat \ {0} :
    n <= credits[b].pending /\ Booked(b, -n, n, 0, 0, 0, 0, n) /\ Shifts(b, 0)

Moves(b) ==
  \/ \E n \in Amount : \/ Booked(b, n, 0, 0, n, 0, 0, 0) /\ Shifts(b, 0)
                       \/ Booked(b, 0, n, 0, n, 0, 0, 0) /\ Shifts(b, 0)
  \/ \E n \in Nat \ {0} :
       \/ n <= credits[b].available /\ Booked(b, 0, -n, 0, 0, 0, 0, 0) /\ Shifts(b, n)
       \/ n <= Held(b) /\ Booked(b, 0, n, 0, 0, 0, 0, 0) /\ Shifts(b, -n)
  \/ 1 <= Held(b) /\ Booked(b, 0, 0, 1, 0, 0, 0, 0) /\ Shifts(b, -1)
  \/ \E p, a \in Int : Booked(b, p, a, 0, 0, p, a, 0) /\ Shifts(b, 0)

Stands == UNCHANGED creditVars /\ \A b \in Builder : Held(b)' = Held(b)

LEMMA TicketsApart ==
  ASSUME TicketsTypeOK, FlowInv, UNCHANGED << tickets, attempts >>
  PROVE  \A b \in Builder : Held(b)' = Held(b) /\ Shifts(b, 0)
<1>1. \A b \in Builder : Held(b)' = Held(b)
  <2>1. \A t \in Ticket : tickets'[t].owner = tickets[t].owner /\ HeldOn(t)' = HeldOn(t)
    BY DEF HeldOn, AttemptsOn
  <2> QED BY <2>1, HeldStays
<1> QED BY <1>1, HeldIsNat DEF Shifts

LEMMA GrantMoves ==
  ASSUME LedgerTypeOK, FlowInv, NEW b \in Builder, NEW n \in Amount, Grant(b, n)
  PROVE  Moves(b)
<1>1. CreditsTypeOK /\ TicketsTypeOK /\ n \in Nat
  BY CreditAssumption DEF LedgerTypeOK, Amount
<1>2. Shifts(b, 0)
  BY <1>1, TicketsApart DEF Grant, ticketVars
<1>3. \/ Booked(b, n, 0, 0, n, 0, 0, 0)
      \/ Booked(b, 0, n, 0, n, 0, 0, 0)
  BY <1>1, GrantPendingBooked, GrantAvailableBooked DEF Grant
<1> QED BY <1>2, <1>3 DEF Moves

LEMMA ClaimMoves ==
  ASSUME LedgerTypeOK, FlowInv, NEW n \in Intent, ClaimStep(n)
  PROVE  Stands \/ (CompleteClaim(n) /\ \E b \in Builder : Claims(b))
<1>1. CreditsTypeOK /\ TicketsTypeOK
  BY DEF LedgerTypeOK
<1>2. UNCHANGED << tickets, attempts >>
  BY DEF ClaimStep, ticketVars
<1>3. \A b \in Builder : Held(b)' = Held(b) /\ Shifts(b, 0)
  BY <1>1, <1>2, TicketsApart
<1>4. CASE UNCHANGED creditVars
  BY <1>3, <1>4 DEF Stands
<1>5. CASE CompleteClaim(n)
  <2>1. PICK b \in Builder, k \in Nat \ {0} : ClaimCredits(b, k)
    BY <1>5 DEF CompleteClaim, Live, FlowInv, LedgerTypeOK, ClaimsTypeOK, IntentRow
  <2>2. Booked(b, -k, k, 0, 0, 0, 0, k) /\ k <= credits[b].pending
    BY <1>1, <2>1, ClaimBooked, BalanceFields DEF ClaimCredits
  <2> QED BY <1>3, <1>5, <2>2 DEF Claims
<1> QED BY <1>4, <1>5 DEF ClaimStep, CreateClaimIntent, IntentExpires, BroadcastClaim,
     ClaimFinalises, ClaimForkedOut, creditVars

LEMMA FormMoves ==
  ASSUME LedgerTypeOK, FlowInv, NEW f \in Form, FormStep(f)
  PROVE  Stands \/ \E b \in Builder : Moves(b)
<1>1. CreditsTypeOK /\ TicketsTypeOK
  BY DEF LedgerTypeOK
<1>2. UNCHANGED << tickets, attempts >>
  BY DEF FormStep, ticketVars
<1>3. \A b \in Builder : Held(b)' = Held(b) /\ Shifts(b, 0)
  BY <1>1, <1>2, TicketsApart
<1>4. CASE UNCHANGED creditVars
  BY <1>3, <1>4 DEF Stands
<1>5. CASE AdjustBuilderCredits(f)
  <2>1. PICK c \in Command : c = commands[f]
    BY <1>5 DEF LedgerTypeOK, AdjustmentsTypeOK, AdjustBuilderCredits, Sent
  <2>2. PICK b \in Builder : b = c.builder
    BY <2>1 DEF Command
  <2>3. credits[b].pending \in Nat /\ credits[b].available \in Nat
    BY <1>1, BalanceFields
  <2>4. PICK p \in Nat, a \in Nat : p = NextPending(c) /\ a = NextAvailable(c)
    BY <2>1, <2>2, <2>3 DEF NextPending, NextAvailable, Command
  <2>5. AdjustCreditBalances(b, c.revision, p, a)
    BY <1>5, <2>1, <2>2, <2>4 DEF AdjustBuilderCredits
  <2>6. PICK dp \in Int, da \in Int : dp = p - credits[b].pending /\ da = a - credits[b].available
    BY <2>3
  <2>7. Booked(b, dp, da, 0, 0, dp, da, 0)
    BY <1>1, <2>5, <2>6, AdjustBooked
  <2> QED BY <1>3, <2>7 DEF Moves
<1> QED BY <1>4, <1>5 DEF FormStep, SubmitEditForm, ReplayAdjustment, RefuseAdjustment, creditVars

LEMMA NewTicketHolds ==
  ASSUME TicketsTypeOK, TicketsTypeOK', UsesInv, NEW t \in Ticket, ~Created(t),
         NEW owner, NEW uses \in Nat, Insert(t, owner, uses), attempts' = attempts
  PROVE  /\ tickets'[t].owner = owner
         /\ HeldOn(t)' = uses
         /\ \A u \in Ticket : u # t => /\ tickets'[u].owner = tickets[u].owner
                                       /\ HeldOn(u)' = HeldOn(u)
<1>1. /\ tickets'[t].owner = owner /\ tickets'[t].remaining = uses
      /\ \A u \in Ticket : u # t => tickets'[u] = tickets[u]
  BY DEF Insert, TicketsTypeOK
<1>2. \A u, x : AttemptsOn(u, x)' = AttemptsOn(u, x)
  BY DEF AttemptsOn
<1>3. AttemptsOn(t, "open") = {}
  BY DEF UsesInv, AttemptsOn
<1>4. Cardinality(AttemptsOn(t, "open")') = 0
  BY <1>2, <1>3, FS_EmptySet
<1> QED BY <1>1, <1>2, <1>4 DEF HeldOn

LEMMA PurchaseMoves ==
  ASSUME LedgerTypeOK, TicketsTypeOK', UsesInv, FlowInv, NEW q \in Purchase, PurchaseStep(q)
  PROVE  Stands \/ \E b \in Builder : Moves(b)
<1>1. CreditsTypeOK /\ TicketsTypeOK
  BY DEF LedgerTypeOK
<1>2. CASE \E b \in Builder, uses \in 1 .. MaxUses : ValidateOperation(q, b, uses)
  BY <1>1, <1>2, TicketsApart DEF ValidateOperation, Stands
<1>3. ASSUME NEW t \in Ticket, purchases[q].builder \in Builder, CreateTicket(q, t)
      PROVE  \E b \in Builder : Moves(b)
  <2>1. PICK b \in Builder, n \in Nat \ {0} : b = purchases[q].builder /\ n = purchases[q].uses
    BY <1>1, <1>3 DEF CreateTicket, TicketsTypeOK, PurchaseRow
  <2>2. /\ ~Created(t) /\ Insert(t, b, n) /\ DeductCreditsForTicket(b, n)
        /\ attempts' = attempts
    BY <1>3, <2>1 DEF CreateTicket
  <2>3. Booked(b, 0, -n, 0, 0, 0, 0, 0) /\ n <= credits[b].available
    BY <1>1, <2>2, DeductBooked, BalanceFields DEF DeductCreditsForTicket
  <2>4. Shifts(b, n)
    <3>1. /\ tickets'[t].owner = b /\ HeldOn(t)' = n
          /\ \A u \in Ticket : u # t => /\ tickets'[u].owner = tickets[u].owner
                                        /\ HeldOn(u)' = HeldOn(u)
      BY <1>1, <2>2, NewTicketHolds
    <3>2. tickets[t].owner \notin Builder
      BY <2>2, ClaimAssumption DEF Created
    <3> QED BY <1>1, <3>1, <3>2, HeldGrows
  <2> QED BY <2>3, <2>4 DEF Moves
<1> QED BY <1>2, <1>3 DEF PurchaseStep

LEMMA TicketMoves ==
  ASSUME LedgerTypeOK, TicketsTypeOK', UsesInv, FlowInv, NEW t \in Ticket, TicketStep(t)
  PROVE  Stands \/ \E b \in Builder : Moves(b)
<1>1. CreditsTypeOK /\ TicketsTypeOK
  BY DEF LedgerTypeOK
<1>2. ASSUME attempts' = attempts
      PROVE  \A u, x : AttemptsOn(u, x)' = AttemptsOn(u, x)
  BY <1>2 DEF AttemptsOn
<1>3. ASSUME NEW uses \in 1 .. MaxUses, CreateSystemTicket(t, uses)
      PROVE  Stands
  <2>1. /\ tickets[t].owner = NoBuilder /\ tickets'[t].owner = System
        /\ \A u \in Ticket : u # t => /\ tickets'[u].owner = tickets[u].owner
                                      /\ HeldOn(u)' = HeldOn(u)
    BY <1>1, <1>3, NewTicketHolds, TicketAssumption DEF CreateSystemTicket, Created
  <2>2. ASSUME NEW b \in Builder
        PROVE  Held(b)' = Held(b)
    <3>1. TicketsOf(b)' = TicketsOf(b) /\ t \notin TicketsOf(b)
      BY <2>1, TicketAssumption, ClaimAssumption DEF TicketsOf
    <3>2. IsFiniteSet(TicketsOf(b))
          /\ \A u \in TicketsOf(b) : [v \in Ticket |-> HeldOn(v)'][u] = [v \in Ticket |-> HeldOn(v)][u]
      BY <2>1, <3>1 DEF TicketsOf, FlowInv
    <3> QED BY <3>1, <3>2, SumAgrees DEF Held
  <2> QED BY <1>3, <2>2 DEF Stands, CreateSystemTicket
<1>4. ASSUME NEW revoked \in BOOLEAN, SetRevoked(t, revoked)
      PROVE  Stands
  <2>1. /\ tickets'[t].owner = tickets[t].owner /\ tickets'[t].remaining = tickets[t].remaining
        /\ \A u \in Ticket : u # t => tickets'[u] = tickets[u]
        /\ attempts' = attempts
    BY <1>1, <1>4 DEF SetRevoked, TicketsTypeOK
  <2>2. \A u \in Ticket : tickets'[u].owner = tickets[u].owner /\ HeldOn(u)' = HeldOn(u)
    BY <1>2, <2>1 DEF HeldOn
  <2> QED BY <1>4, <2>2, HeldStays DEF SetRevoked, Stands
<1>5. ASSUME NEW delta \in Int, Owned(t), attempts' = attempts,
             tickets'[t].owner = tickets[t].owner,
             tickets'[t].remaining = tickets[t].remaining + delta,
             \A u \in Ticket : u # t => tickets'[u] = tickets[u]
      PROVE  Shifts(tickets[t].owner, delta)
  <2>1. \A u \in Ticket : tickets'[u].owner = tickets[u].owner
    BY <1>5
  <2>2. \A u \in Ticket : u # t => HeldOn(u)' = HeldOn(u)
    BY <1>2, <1>5 DEF HeldOn
  <2>3. HeldOn(t)' - HeldOn(t) = delta
    <3>1. Cardinality(AttemptsOn(t, "open")) \in Nat /\ tickets[t].remaining \in Nat
      BY <1>1, TicketFields DEF Counted
    <3> QED BY <1>2, <1>5, <3>1 DEF HeldOn
  <2>4. Shifts(tickets[t].owner, HeldOn(t)' - HeldOn(t))
    BY <1>1, <1>5, <2>1, <2>2, HeldChanges DEF Owned
  <2> QED BY <2>3, <2>4
<1>6. Owned(t) => tickets[t].remaining <= Held(tickets[t].owner)
  <2> SUFFICES ASSUME Owned(t) PROVE tickets[t].remaining <= Held(tickets[t].owner)
    OBVIOUS
  <2>1. PICK b \in Builder : b = tickets[t].owner
    BY DEF Owned
  <2>2. t \in TicketsOf(b) /\ IsFiniteSet(TicketsOf(b))
    BY <2>1 DEF TicketsOf, FlowInv
  <2>3. \A u \in TicketsOf(b) : [v \in Ticket |-> HeldOn(v)][u] \in Nat
    BY <1>1, HeldIsNat DEF TicketsOf
  <2>4. [v \in Ticket |-> HeldOn(v)][t] <= Held(b)
    BY <2>2, <2>3, SumCoversTerm DEF Held
  <2>5. Held(b) \in Nat /\ HeldOn(t) \in Nat /\ tickets[t].remaining <= HeldOn(t)
    BY <1>1, HeldIsNat, TicketFields
  <2> QED BY <1>1, <2>1, <2>4, <2>5, TicketFields
<1>7. ASSUME NEW delta \in -MaxUses .. MaxUses, delta # 0, UpdateOwnedUses(t, delta)
      PROVE  \E b \in Builder : Moves(b)
  <2>1. PICK b \in Builder : b = tickets[t].owner
    BY <1>7 DEF UpdateOwnedUses, Owned
  <2>2. delta \in Int /\ tickets[t].remaining + delta >= 0 /\ Owned(t)
    BY <1>7, TicketAssumption DEF UpdateOwnedUses, AcceptsDelta
  <2>3. Shifts(b, delta)
    BY <1>1, <1>5, <1>7, <2>1, <2>2 DEF UpdateOwnedUses, TicketsTypeOK
  <2>4. CASE delta > 0
    <3>1. delta \in Nat \ {0} /\ DeductCreditsForTicket(b, delta)
      BY <1>7, <2>1, <2>2, <2>4 DEF UpdateOwnedUses
    <3>2. Booked(b, 0, -delta, 0, 0, 0, 0, 0) /\ delta <= credits[b].available
      BY <1>1, <3>1, DeductBooked, BalanceFields DEF DeductCreditsForTicket
    <3> QED BY <2>3, <3>1, <3>2 DEF Moves
  <2>5. CASE delta < 0
    <3>1. PICK n \in Nat \ {0} : n = -delta /\ delta = -n
      BY <2>2, <2>5
    <3>2. RefundCreditsFromTicket(b, n)
      BY <1>7, <2>1, <2>5, <3>1 DEF UpdateOwnedUses
    <3>3. Booked(b, 0, n, 0, 0, 0, 0, 0)
      BY <1>1, <3>2, RefundBooked
    <3>4. n <= Held(b)
      <4>1. tickets[t].remaining \in Nat /\ Held(b) \in Nat
        BY <1>1, TicketFields, HeldIsNat
      <4> QED BY <1>6, <2>1, <2>2, <3>1, <4>1
    <3> QED BY <2>3, <3>1, <3>3, <3>4 DEF Moves
  <2> QED BY <1>7, <2>2, <2>4, <2>5
<1>8. CASE ArchiveOwned(t)
  <2>1. PICK b \in Builder : b = tickets[t].owner
    BY <1>8 DEF ArchiveOwned, MayArchive, Owned
  <2>2. /\ tickets[t].remaining \in Nat /\ ~tickets[t].archived /\ Owned(t)
        /\ tickets[t].retired = 0 /\ attempts' = attempts
        /\ tickets'[t].owner = tickets[t].owner /\ tickets'[t].remaining = 0
        /\ \A u \in Ticket : u # t => tickets'[u] = tickets[u]
    BY <1>1, <1>8, TicketFields DEF ArchiveOwned, MayArchive, UsesInv, TicketsTypeOK
  <2>3. PICK n \in Nat : n = tickets[t].remaining
    BY <2>2
  <2>4. Retires(tickets[t]) = n /\ tickets'[t].remaining = tickets[t].remaining + (-n)
    BY <2>2, <2>3 DEF Retires
  <2>5. Shifts(b, -n)
    BY <1>5, <2>1, <2>2, <2>3, <2>4
  <2>6. CASE n = 0
    <3>1. UNCHANGED creditVars
      BY <1>8, <2>4, <2>6 DEF ArchiveOwned
    <3>2. Held(b)' = Held(b)
      BY <1>1, <2>5, <2>6, HeldIsNat DEF Shifts
    <3> QED BY <2>5, <3>1, <3>2 DEF Stands, Shifts
  <2>7. CASE n # 0
    <3>1. RefundCreditsFromTicket(b, n) /\ n \in Nat \ {0}
      BY <1>8, <2>1, <2>4, <2>7 DEF ArchiveOwned
    <3>2. Booked(b, 0, n, 0, 0, 0, 0, 0)
      BY <1>1, <3>1, RefundBooked
    <3> QED BY <1>6, <2>1, <2>2, <2>3, <2>5, <3>1, <3>2 DEF Moves
  <2> QED BY <2>6, <2>7
<1> QED BY <1>3, <1>4, <1>7, <1>8 DEF TicketStep

LEMMA AttemptMovesCredits ==
  ASSUME LedgerTypeOK, TicketsTypeOK', UsesInv, FlowInv, NEW a \in Attempt, AttemptStep(a)
  PROVE  Stands \/ \E b \in Builder : Moves(b)
<1>1. CreditsTypeOK /\ TicketsTypeOK
  BY DEF LedgerTypeOK
<1>2. \A u \in Ticket : /\ tickets[u].remaining \in Nat /\ Counted(u, "open") \in Nat
                        /\ HeldOn(u) = tickets[u].remaining + Counted(u, "open")
                        /\ HeldOn(u)' = tickets'[u].remaining + Counted(u, "open")'
  BY <1>1, TicketFields DEF HeldOn, Counted
<1>3. ASSUME NEW t \in Ticket, ReserveTicketCredit(a, t)
      PROVE  Stands
  <2>1. /\ tickets'[t].remaining = tickets[t].remaining - 1
        /\ tickets'[t].owner = tickets[t].owner
        /\ \A u \in Ticket : u # t => tickets'[u] = tickets[u]
        /\ attempts[a].state = "none"
        /\ attempts'[a].ticket = t /\ attempts'[a].state = "open"
        /\ \A c \in Attempt : c # a => attempts'[c] = attempts[c]
        /\ "open" \in AttemptState
    BY <1>1, <1>3 DEF ReserveTicketCredit, TicketsTypeOK, AttemptState
  <2>2. \A u \in Ticket : Counted(u, "open")' = Counted(u, "open") + (IF u = t THEN 1 ELSE 0)
    <3>1. \A u \in Ticket : a \notin AttemptsOn(u, "open")
      BY <2>1 DEF AttemptsOn
    <3>2. \A u, x : Counted(u, x)' = Counted(u, x) + (IF u = t /\ x = "open" THEN 1 ELSE 0)
                                      - (IF a \in AttemptsOn(u, x) THEN 1 ELSE 0)
      BY <1>1, <2>1, AttemptMoves
    <3> QED BY <1>2, <3>1, <3>2
  <2>3. \A u \in Ticket : tickets'[u].owner = tickets[u].owner /\ HeldOn(u)' = HeldOn(u)
    BY <1>2, <2>1, <2>2
  <2> QED BY <1>3, <2>3, HeldStays DEF ReserveTicketCredit, Stands
<1>4. CASE RollbackTicketReservation(a)
  <2>1. PICK t \in Ticket : t = attempts[a].ticket
    BY <1>1, <1>4 DEF RollbackTicketReservation, TicketsTypeOK
  <2>2. /\ tickets'[t].remaining = tickets[t].remaining + 1
        /\ tickets'[t].owner = tickets[t].owner
        /\ \A u \in Ticket : u # t => tickets'[u] = tickets[u]
        /\ attempts[a].state = "open"
        /\ attempts'[a].ticket = t /\ attempts'[a].state = "rolled_back"
        /\ \A c \in Attempt : c # a => attempts'[c] = attempts[c]
        /\ "rolled_back" \in AttemptState
    BY <1>1, <1>4, <2>1 DEF RollbackTicketReservation, TicketsTypeOK, AttemptState
  <2>3. \A u \in Ticket : Counted(u, "open")' = Counted(u, "open") - (IF u = t THEN 1 ELSE 0)
    <3>1. \A u \in Ticket : a \in AttemptsOn(u, "open") <=> u = t
      BY <2>1, <2>2 DEF AttemptsOn
    <3>2. \A u, x : Counted(u, x)' = Counted(u, x) + (IF u = t /\ x = "rolled_back" THEN 1 ELSE 0)
                                      - (IF a \in AttemptsOn(u, x) THEN 1 ELSE 0)
      BY <1>1, <2>2, AttemptMoves
    <3> QED BY <1>2, <3>1, <3>2
  <2>4. \A u \in Ticket : tickets'[u].owner = tickets[u].owner /\ HeldOn(u)' = HeldOn(u)
    BY <1>2, <2>2, <2>3
  <2> QED BY <1>4, <2>4, HeldStays DEF RollbackTicketReservation, Stands
<1>5. CASE CompleteAccountCreation(a)
  <2>1. PICK t \in Ticket : t = attempts[a].ticket
    BY <1>1, <1>5 DEF CompleteAccountCreation, TicketsTypeOK
  <2>2. /\ tickets' = tickets
        /\ attempts[a].state = "open"
        /\ attempts'[a].ticket = t /\ attempts'[a].state = "completed"
        /\ \A c \in Attempt : c # a => attempts'[c] = attempts[c]
        /\ "completed" \in AttemptState
    BY <1>1, <1>5, <2>1 DEF CompleteAccountCreation, TicketsTypeOK, AttemptState
  <2>3. \A u \in Ticket : Counted(u, "open")' = Counted(u, "open") - (IF u = t THEN 1 ELSE 0)
    <3>1. \A u \in Ticket : a \in AttemptsOn(u, "open") <=> u = t
      BY <2>1, <2>2 DEF AttemptsOn
    <3>2. \A u, x : Counted(u, x)' = Counted(u, x) + (IF u = t /\ x = "completed" THEN 1 ELSE 0)
                                      - (IF a \in AttemptsOn(u, x) THEN 1 ELSE 0)
      BY <1>1, <2>2, AttemptMoves
    <3> QED BY <1>2, <3>1, <3>2
  <2>4. \A u \in Ticket : u # t => HeldOn(u)' = HeldOn(u)
    BY <1>2, <2>2, <2>3
  <2>5. CASE ~Owned(t)
    <3>1. ASSUME NEW b \in Builder
          PROVE  Held(b)' = Held(b)
      <4>1. TicketsOf(b)' = TicketsOf(b) /\ t \notin TicketsOf(b)
        BY <2>2, <2>5 DEF TicketsOf, Owned
      <4>2. IsFiniteSet(TicketsOf(b))
            /\ \A u \in TicketsOf(b) : [v \in Ticket |-> HeldOn(v)'][u] = [v \in Ticket |-> HeldOn(v)][u]
        BY <2>4, <4>1 DEF TicketsOf, FlowInv
      <4> QED BY <4>1, <4>2, SumAgrees DEF Held
    <3> QED BY <1>5, <2>1, <2>5, <3>1 DEF CompleteAccountCreation, Stands
  <2>6. CASE Owned(t)
    <3>1. PICK b \in Builder : b = tickets[t].owner
      BY <2>6 DEF Owned
    <3>2. MarkCreditsAsConsumed(b, 1)
      BY <1>5, <2>1, <2>6, <3>1 DEF CompleteAccountCreation
    <3>3. Booked(b, 0, 0, 1, 0, 0, 0, 0)
      BY <1>1, <3>2, ConsumeBooked
    <3>4. Shifts(b, HeldOn(t)' - HeldOn(t)) /\ HeldOn(t) <= Held(b)
      BY <1>1, <2>2, <2>4, <3>1, HeldChanges
    <3>5. HeldOn(t)' - HeldOn(t) = -1
      BY <1>2, <2>2, <2>3
    <3>6. 1 <= HeldOn(t)
      <4>1. a \in AttemptsOn(t, "open")
        BY <2>1, <2>2 DEF AttemptsOn
      <4>2. Counted(t, "open") # 0
        BY <4>1, CountedIsNat
      <4> QED BY <1>2, <4>2
    <3>7. HeldOn(t) \in Nat /\ Held(b) \in Nat
      BY <1>1, HeldIsNat
    <3>8. Shifts(b, -1) /\ 1 <= Held(b)
      BY <3>4, <3>5, <3>6, <3>7
    <3> QED BY <3>3, <3>8 DEF Moves
  <2> QED BY <2>5, <2>6
<1> QED BY <1>3, <1>4, <1>5 DEF AttemptStep

LEMMA EveryStepMoves ==
  ASSUME LedgerTypeOK, LedgerTypeOK', UsesInv, FlowInv, Next
  PROVE  Stands \/ \E b \in Builder : Claims(b) \/ Moves(b)
<1>1. TicketsTypeOK'
  BY DEF LedgerTypeOK
<1> QED BY <1>1, GrantMoves, ClaimMoves, FormMoves, PurchaseMoves, TicketMoves,
     AttemptMovesCredits DEF Next

------------------------------------------------------------------------------
(* A builder has finitely many tickets, whatever codes there are, since a   *)
(* step creates one at most; and an intent is for credits there were.       *)
LEMMA FlowStep ==
  ASSUME LedgerTypeOK, FlowInv, Next
  PROVE  FlowInv'
<1>1. TicketsTypeOK /\ ClaimsTypeOK
  BY DEF LedgerTypeOK
<1>2. ASSUME NEW t \in Ticket, \A u \in Ticket : u # t => tickets'[u].owner = tickets[u].owner
      PROVE  \A b \in Builder : IsFiniteSet(TicketsOf(b)')
  <2> SUFFICES ASSUME NEW b \in Builder PROVE IsFiniteSet(TicketsOf(b)')
    OBVIOUS
  <2>1. TicketsOf(b)' \subseteq TicketsOf(b) \cup {t}
    BY <1>2 DEF TicketsOf
  <2>2. IsFiniteSet(TicketsOf(b) \cup {t})
    BY FS_AddElement DEF FlowInv
  <2> QED BY <2>1, <2>2, FS_Subset
<1>3. ASSUME UNCHANGED tickets
      PROVE  \A b \in Builder : IsFiniteSet(TicketsOf(b)')
  BY <1>3 DEF TicketsOf, FlowInv
<1>4. ASSUME NEW b \in Builder, NEW n \in Amount, Grant(b, n)
      PROVE  FlowInv'
  BY <1>3, <1>4 DEF Grant, claimVars, ticketVars, FlowInv
<1>5. ASSUME NEW n \in Intent, ClaimStep(n)
      PROVE  FlowInv'
  <2>1. UNCHANGED tickets
    BY <1>5 DEF ClaimStep, ticketVars
  <2>2. \A m \in Intent : intents'[m].state # "absent" => intents'[m].amount > 0
    <3>1. CASE \E b \in Builder : CreateClaimIntent(b, n)
      BY <3>1 DEF CreateClaimIntent, FlowInv
    <3>2. CASE IntentExpires(n)
      BY <1>1, <3>2 DEF IntentExpires, FlowInv, ClaimsTypeOK, Live
    <3>3. CASE CompleteClaim(n)
      BY <3>3 DEF CompleteClaim, Complete, LiveIntents, Live, FlowInv
    <3>4. CASE UNCHANGED intents
      BY <3>4 DEF FlowInv
    <3> QED BY <1>5, <3>1, <3>2, <3>3, <3>4 DEF ClaimStep, BroadcastClaim, ClaimFinalises,
         ClaimForkedOut
  <2> QED BY <1>3, <2>1, <2>2 DEF FlowInv
<1>6. ASSUME NEW f \in Form, FormStep(f)
      PROVE  FlowInv'
  <2>1. UNCHANGED << intents, tickets >>
    BY <1>6 DEF FormStep, SubmitEditForm, ReplayAdjustment, RefuseAdjustment,
       AdjustBuilderCredits, claimVars, ticketVars
  <2> QED BY <1>3, <2>1 DEF FlowInv
<1>7. ASSUME NEW q \in Purchase, PurchaseStep(q)
      PROVE  FlowInv'
  <2>1. UNCHANGED intents
    BY <1>7 DEF PurchaseStep, ValidateOperation, CreateTicket, claimVars
  <2>2. CASE \E t \in Ticket : CreateTicket(q, t)
    BY <1>1, <1>2, <2>1, <2>2 DEF CreateTicket, Insert, TicketsTypeOK, FlowInv
  <2>3. CASE UNCHANGED tickets
    BY <1>3, <2>1, <2>3 DEF FlowInv
  <2> QED BY <1>7, <2>2, <2>3 DEF PurchaseStep, ValidateOperation
<1>8. ASSUME NEW t \in Ticket, TicketStep(t)
      PROVE  FlowInv'
  <2>1. UNCHANGED intents
    BY <1>8 DEF TicketStep, CreateSystemTicket, SetRevoked, UpdateOwnedUses, ArchiveOwned,
       claimVars
  <2>2. \A u \in Ticket : u # t => tickets'[u] = tickets[u]
    BY <1>1, <1>8 DEF TicketStep, CreateSystemTicket, Insert, SetRevoked, UpdateOwnedUses,
       ArchiveOwned, TicketsTypeOK
  <2> QED BY <1>2, <2>1, <2>2 DEF FlowInv
<1>9. ASSUME NEW a \in Attempt, AttemptStep(a)
      PROVE  FlowInv'
  <2>1. UNCHANGED intents
    BY <1>9 DEF AttemptStep, ReserveTicketCredit, RollbackTicketReservation,
       CompleteAccountCreation, claimVars
  <2>2. CASE \E t \in Ticket : ReserveTicketCredit(a, t)
    <3>1. PICK t \in Ticket : ReserveTicketCredit(a, t)
      BY <2>2
    <3>2. \A u \in Ticket : u # t => tickets'[u] = tickets[u]
      BY <1>1, <3>1 DEF ReserveTicketCredit, TicketsTypeOK
    <3> QED BY <1>2, <2>1, <3>2 DEF FlowInv
  <2>3. CASE RollbackTicketReservation(a)
    <3>1. attempts[a].ticket \in Ticket
      BY <1>1, <2>3 DEF RollbackTicketReservation, TicketsTypeOK
    <3>2. \A u \in Ticket : u # attempts[a].ticket => tickets'[u] = tickets[u]
      BY <1>1, <2>3 DEF RollbackTicketReservation, TicketsTypeOK
    <3> QED BY <1>2, <2>1, <3>1, <3>2 DEF FlowInv
  <2>4. CASE CompleteAccountCreation(a)
    BY <1>3, <2>1, <2>4 DEF CompleteAccountCreation, FlowInv
  <2> QED BY <1>9, <2>2, <2>3, <2>4 DEF AttemptStep
<1> QED BY <1>4, <1>5, <1>6, <1>7, <1>8, <1>9 DEF Next

LEMMA InitFlow ==
  ASSUME Init
  PROVE  /\ FlowInv
         /\ \A b \in Builder : TicketsOf(b) = {} /\ Held(b) = 0 /\ Claimed(b) = {}
<1>1. \A b \in Builder : TicketsOf(b) = {} /\ Claimed(b) = {}
  BY TicketAssumption, ClaimAssumption
     DEF Init, TicketsInit, ClaimsInit, NoIntent, TicketsOf, Claimed
<1> QED BY <1>1, FS_EmptySet, SumOfNone DEF Held, FlowInv, Init, ClaimsInit, NoIntent

THEOREM FlowInvariant == Spec => []FlowInv
<1>1. LedgerTypeOK /\ FlowInv /\ [Next]_vars => FlowInv'
  <2> SUFFICES ASSUME LedgerTypeOK, FlowInv, [Next]_vars PROVE FlowInv'
    OBVIOUS
  <2>1. CASE UNCHANGED vars
    BY <2>1 DEF vars, claimVars, ticketVars, FlowInv, TicketsOf
  <2> QED BY <2>1, FlowStep
<1>2. Init => FlowInv
  BY InitFlow
<1> QED BY <1>1, <1>2, LedgerTypes, PTL DEF Spec

------------------------------------------------------------------------------
(* What Moves and Stands say of what was claimed.                           *)
LEMMA NothingClaimed ==
  ASSUME CreditsTypeOK, Stands \/ \E b \in Builder : Moves(b)
  PROVE  \A b \in Builder : NoneClaimed(b)
<1> SUFFICES ASSUME NEW b \in Builder, Moves(b), NEW d \in Builder
             PROVE  NoneClaimed(d)
  BY DEF Stands, creditVars, NoneClaimed
<1>1. audit[b]["claim_credits"] \in Int
  BY BalanceFields DEF Operation
<1>2. Writes(b) /\ audit'[b]["claim_credits"] = audit[b]["claim_credits"] + 0
  BY DEF Moves, Booked
<1> QED BY <1>1, <1>2 DEF Writes, NoneClaimed

LEMMA ClaimsStep ==
  ASSUME LedgerTypeOK, LedgerTypeOK', UsesInv, FlowInv, ClaimsAddUp, Next
  PROVE  ClaimsAddUp'
<1>1. CreditsTypeOK /\ TicketsTypeOK'
  BY DEF LedgerTypeOK
<1>2. ASSUME UNCHANGED intents, Stands \/ \E b \in Builder : Moves(b)
      PROVE  ClaimsAddUp'
  BY <1>1, <1>2, NothingClaimed, ClaimsStand DEF SameClaims
<1>3. ASSUME NEW n \in Intent, ClaimStep(n)
      PROVE  ClaimsAddUp'
  <2>1. CASE CompleteClaim(n)
    BY <2>1, ClaimAddsUp
  <2>2. CASE Stands /\ ~CompleteClaim(n)
    <3>1. SameClaims
      BY <1>3, <2>2 DEF ClaimStep, CreateClaimIntent, IntentExpires, BroadcastClaim,
         ClaimFinalises, ClaimForkedOut, SameClaims, Live, LedgerTypeOK, ClaimsTypeOK
    <3> QED BY <1>1, <2>2, <3>1, NothingClaimed, ClaimsStand
  <2> QED BY <1>3, <2>1, <2>2, ClaimMoves
<1>4. ASSUME NEW b \in Builder, NEW n \in Amount, Grant(b, n)
      PROVE  ClaimsAddUp'
  BY <1>2, <1>4, GrantMoves DEF Grant, claimVars
<1>5. ASSUME NEW f \in Form, FormStep(f)
      PROVE  ClaimsAddUp'
  <2>1. UNCHANGED intents
    BY <1>5 DEF FormStep, SubmitEditForm, ReplayAdjustment, RefuseAdjustment,
       AdjustBuilderCredits, claimVars
  <2> QED BY <1>2, <1>5, <2>1, FormMoves
<1>6. ASSUME NEW q \in Purchase, PurchaseStep(q)
      PROVE  ClaimsAddUp'
  <2>1. UNCHANGED intents
    BY <1>6 DEF PurchaseStep, ValidateOperation, CreateTicket, claimVars
  <2> QED BY <1>1, <1>2, <1>6, <2>1, PurchaseMoves
<1>7. ASSUME NEW t \in Ticket, TicketStep(t)
      PROVE  ClaimsAddUp'
  <2>1. UNCHANGED intents
    BY <1>7 DEF TicketStep, CreateSystemTicket, SetRevoked, UpdateOwnedUses, ArchiveOwned,
       claimVars
  <2> QED BY <1>1, <1>2, <1>7, <2>1, TicketMoves
<1>8. ASSUME NEW a \in Attempt, AttemptStep(a)
      PROVE  ClaimsAddUp'
  <2>1. UNCHANGED intents
    BY <1>8 DEF AttemptStep, ReserveTicketCredit, RollbackTicketReservation,
       CompleteAccountCreation, claimVars
  <2> QED BY <1>1, <1>2, <1>8, <2>1, AttemptMovesCredits
<1> QED BY <1>3, <1>4, <1>5, <1>6, <1>7, <1>8 DEF Next

(* Credits become available by a claim only against an irreversible         *)
(* operation, and once per operation: the journal's claims are the amounts  *)
(* of the intents completed.                                                *)
THEOREM ClaimsAreBackedUp == Spec => []ClaimsAreBacked
<1>1. Init => ClaimsAddUp
  <2> SUFFICES ASSUME Init, NEW b \in Builder
               PROVE  /\ IsFiniteSet(Claimed(b))
                      /\ audit[b]["claim_credits"] = SumFunctionOnSet(Amounts, Claimed(b))
    BY DEF ClaimsAddUp
  <2>1. Claimed(b) = {}
    BY InitFlow
  <2>2. audit[b]["claim_credits"] = 0
    BY DEF Init, CreditsInit, NoAudit, Operation
  <2> QED BY <2>1, <2>2, FS_EmptySet, SumOfNone
<1>2. LedgerTypeOK /\ LedgerTypeOK' /\ UsesInv /\ FlowInv /\ ClaimsAddUp /\ [Next]_vars
        => ClaimsAddUp'
  <2> SUFFICES ASSUME LedgerTypeOK, LedgerTypeOK', UsesInv, FlowInv, ClaimsAddUp, [Next]_vars
               PROVE  ClaimsAddUp'
    OBVIOUS
  <2>1. CASE UNCHANGED vars
    <3>1. SameClaims /\ \A b \in Builder : NoneClaimed(b)
      BY <2>1 DEF vars, creditVars, claimVars, SameClaims, NoneClaimed
    <3> QED BY <3>1, ClaimsStand
  <2> QED BY <2>1, ClaimsStep
<1>3. ClaimsAddUp /\ ClaimedIsIrreversible => ClaimsAreBacked
  BY DEF ClaimsAddUp, ClaimedIsIrreversible, ClaimsAreBacked, Claimed, Amounts
<1> QED BY <1>1, <1>2, <1>3, LedgerTypes, UsesInvariant, FlowInvariant, ClaimsAreIrreversible,
     PTL DEF Spec

------------------------------------------------------------------------------
(* The flow of a builder's credits, as a step of it sees them.              *)
Total(b) == credits[b].pending + credits[b].available + Held(b) + credits[b].consumed

LEMMA FlowFields ==
  ASSUME LedgerTypeOK, FlowInv
  PROVE  \A b \in Builder :
           /\ credits[b].pending \in Nat /\ credits[b].available \in Nat
           /\ credits[b].consumed \in Nat /\ credits[b].issued \in Nat
           /\ Held(b) \in Nat /\ audit[b]["admin_adjust_pending"] \in Int
           /\ audit[b]["admin_adjustment"] \in Int
<1>1. CreditsTypeOK /\ TicketsTypeOK
  BY DEF LedgerTypeOK
<1>2. \A b \in Builder : Held(b) \in Nat
  BY <1>1, HeldIsNat
<1> QED BY <1>1, <1>2, BalanceFields DEF Operation

(* What was issued, and what the forms made of it, is where the credits are.*)
Conserved(b) == credits[b].issued + Adjusted(b) = Total(b)

LEMMA BookedConserves ==
  ASSUME LedgerTypeOK, FlowInv, NEW b \in Builder, Conserved(b),
         NEW p \in Int, NEW a \in Int, NEW c \in Int, NEW i \in Int,
         NEW x \in Int, NEW y \in Int, NEW h \in Int, NEW k,
         Booked(b, p, a, c, i, x, y, k), Shifts(b, h),
         i + x + y = p + a + h + c
  PROVE  Conserved(b)'
<1>1. PICK p0, a0, c0, i0, h0 \in Nat, x0, y0 \in Int :
        /\ p0 = credits[b].pending /\ a0 = credits[b].available /\ c0 = credits[b].consumed
        /\ i0 = credits[b].issued /\ h0 = Held(b)
        /\ x0 = audit[b]["admin_adjust_pending"] /\ y0 = audit[b]["admin_adjustment"]
  BY FlowFields
<1>2. i0 + (x0 + y0) = p0 + a0 + h0 + c0
  BY <1>1 DEF Conserved, Adjusted, Total
<1>3. (i0 + i) + ((x0 + x) + (y0 + y)) = (p0 + p) + (a0 + a) + (h0 + h) + (c0 + c)
  BY <1>2
<1>4. /\ credits'[b].pending = p0 + p /\ credits'[b].available = a0 + a
      /\ credits'[b].consumed = c0 + c /\ credits'[b].issued = i0 + i
      /\ Held(b)' = h0 + h
      /\ audit'[b]["admin_adjust_pending"] = x0 + x /\ audit'[b]["admin_adjustment"] = y0 + y
  BY <1>1 DEF Booked, Shifts
<1> QED BY <1>3, <1>4 DEF Conserved, Adjusted, Total

LEMMA ConservedByStep ==
  ASSUME LedgerTypeOK, FlowInv, \A b \in Builder : Conserved(b),
         Stands \/ \E b \in Builder : Claims(b) \/ Moves(b)
  PROVE  \A b \in Builder : Conserved(b)'
<1>1. CASE Stands
  BY <1>1 DEF Stands, creditVars, Conserved, Adjusted, Total
<1>2. ASSUME NEW b \in Builder, Claims(b) \/ Moves(b), NEW d \in Builder
      PROVE  Conserved(d)'
  <2>1. CASE d # b
    <3>1. credits'[d] = credits[d] /\ audit'[d] = audit[d] /\ Held(d)' = Held(d)
      BY <1>2, <2>1 DEF Claims, Moves, Booked, Writes, Shifts
    <3> QED BY <3>1 DEF Conserved, Adjusted, Total
  <2>2. CASE d = b
    <3>1. CASE Claims(b)
      <4>1. PICK n \in Nat \ {0} : Booked(b, -n, n, 0, 0, 0, 0, n) /\ Shifts(b, 0)
        BY <3>1 DEF Claims
      <4>2. 0 + 0 + 0 = -n + n + 0 + 0
        OBVIOUS
      <4> QED BY <2>2, <4>1, <4>2, BookedConserves
    <3>2. ASSUME NEW n \in Amount,
                 \/ Booked(b, n, 0, 0, n, 0, 0, 0) /\ Shifts(b, 0)
                 \/ Booked(b, 0, n, 0, n, 0, 0, 0) /\ Shifts(b, 0)
          PROVE  Conserved(b)'
      <4>1. n \in Int /\ n + 0 + 0 = n + 0 + 0 + 0 /\ n + 0 + 0 = 0 + n + 0 + 0
        BY CreditAssumption DEF Amount
      <4> QED BY <3>2, <4>1, BookedConserves
    <3>3. ASSUME NEW n \in Nat \ {0},
                 \/ Booked(b, 0, -n, 0, 0, 0, 0, 0) /\ Shifts(b, n)
                 \/ Booked(b, 0, n, 0, 0, 0, 0, 0) /\ Shifts(b, -n)
          PROVE  Conserved(b)'
      <4>1. -n \in Int /\ 0 + 0 + 0 = 0 + (-n) + n + 0 /\ 0 + 0 + 0 = 0 + n + (-n) + 0
        OBVIOUS
      <4> QED BY <3>3, <4>1, BookedConserves
    <3>4. CASE Booked(b, 0, 0, 1, 0, 0, 0, 0) /\ Shifts(b, -1)
      <4>1. 0 + 0 + 0 = 0 + 0 + (-1) + 1
        OBVIOUS
      <4> QED BY <2>2, <3>4, <4>1, BookedConserves
    <3>5. ASSUME NEW x \in Int, NEW y \in Int, Booked(b, x, y, 0, 0, x, y, 0), Shifts(b, 0)
          PROVE  Conserved(b)'
      <4>1. 0 + x + y = x + y + 0 + 0
        OBVIOUS
      <4> QED BY <3>5, <4>1, BookedConserves
    <3>6. CASE Moves(b)
      BY <2>2, <3>2, <3>3, <3>4, <3>5, <3>6 DEF Moves
    <3> QED BY <1>2, <2>2, <3>1, <3>6
  <2> QED BY <2>1, <2>2
<1> QED BY <1>1, <1>2

(* No order of the operations makes or loses a credit.                      *)
THEOREM CreditsConserved == Spec => []CreditsAreConserved
<1> DEFINE AllConserved == \A b \in Builder : Conserved(b)
<1>1. Init => AllConserved
  <2> SUFFICES ASSUME Init, NEW b \in Builder PROVE Conserved(b)
    OBVIOUS
  <2>1. Held(b) = 0
    BY InitFlow
  <2>2. /\ credits[b].pending = 0 /\ credits[b].available = 0
        /\ credits[b].issued = 0 /\ credits[b].consumed = 0
    BY DEF Init, CreditsInit, NoRow
  <2>3. audit[b]["admin_adjust_pending"] = 0 /\ audit[b]["admin_adjustment"] = 0
    BY DEF Init, CreditsInit, NoAudit, Operation
  <2> QED BY <2>1, <2>2, <2>3 DEF Conserved, Adjusted, Total
<1>2. LedgerTypeOK /\ LedgerTypeOK' /\ UsesInv /\ FlowInv /\ AllConserved /\ [Next]_vars
        => AllConserved'
  <2> SUFFICES ASSUME LedgerTypeOK, LedgerTypeOK', UsesInv, FlowInv, AllConserved, [Next]_vars
               PROVE  AllConserved'
    OBVIOUS
  <2>1. CASE UNCHANGED vars
    BY <2>1 DEF vars, creditVars, ticketVars, Conserved, Adjusted, Total, Held, TicketsOf,
       HeldOn, AttemptsOn
  <2>2. CASE Next
    <3>1. Stands \/ \E b \in Builder : Claims(b) \/ Moves(b)
      BY <2>2, EveryStepMoves
    <3> QED BY <3>1, ConservedByStep
  <2> QED BY <2>1, <2>2
<1>3. LedgerTypeOK /\ FlowInv /\ AllConserved => CreditsAreConserved
  <2> SUFFICES ASSUME LedgerTypeOK, FlowInv, NEW b \in Builder, Conserved(b)
               PROVE  credits[b].issued + audit[b]["admin_adjust_pending"]
                        + audit[b]["admin_adjustment"] =
                      credits[b].pending + credits[b].available + Held(b) + credits[b].consumed
    BY DEF CreditsAreConserved
  <2>1. /\ credits[b].issued \in Nat /\ audit[b]["admin_adjust_pending"] \in Int
        /\ audit[b]["admin_adjustment"] \in Int
    BY BalanceFields DEF LedgerTypeOK, Operation
  <2> QED BY <2>1 DEF Conserved, Adjusted, Total
<1> QED BY <1>1, <1>2, <1>3, LedgerTypes, UsesInvariant, FlowInvariant, PTL DEF Spec

------------------------------------------------------------------------------
(* The refinement.  A step of the ledger changes the row of one builder in  *)
(* the abstract flow, and changes it as CreditFlow does.                    *)
FlowOf(b) == [issued |-> credits[b].issued,
              adjustedPending |-> audit[b]["admin_adjust_pending"],
              adjustedAvailable |-> audit[b]["admin_adjustment"],
              pending |-> credits[b].pending, available |-> credits[b].available,
              held |-> Held(b), consumed |-> credits[b].consumed]

FlowMoves(b, r) ==
  [d \in Builder |-> FlowOf(d)]' = [[d \in Builder |-> FlowOf(d)] EXCEPT ![b] = r]

LEMMA MoveMaps ==
  ASSUME NEW b \in Builder,
         NEW p, NEW a, NEW c, NEW h, NEW i, NEW x, NEW y, NEW k,
         Booked(b, p, a, c, i, x, y, k), Shifts(b, h)
  PROVE  FlowMoves(b,
           [issued |-> credits[b].issued + i,
            adjustedPending |-> audit[b]["admin_adjust_pending"] + x,
            adjustedAvailable |-> audit[b]["admin_adjustment"] + y,
            pending |-> credits[b].pending + p, available |-> credits[b].available + a,
            held |-> Held(b) + h, consumed |-> credits[b].consumed + c])
<1>1. FlowOf(b)' = [issued |-> credits[b].issued + i,
                    adjustedPending |-> audit[b]["admin_adjust_pending"] + x,
                    adjustedAvailable |-> audit[b]["admin_adjustment"] + y,
                    pending |-> credits[b].pending + p, available |-> credits[b].available + a,
                    held |-> Held(b) + h, consumed |-> credits[b].consumed + c]
  BY DEF Booked, Shifts, FlowOf
<1>2. \A d \in Builder : d # b => FlowOf(d)' = FlowOf(d)
  BY DEF Booked, Writes, Shifts, FlowOf
<1>3. [d \in Builder |-> FlowOf(d)'] =
        [[d \in Builder |-> FlowOf(d)] EXCEPT ![b] = FlowOf(b)']
  BY <1>2
<1> QED BY <1>1, <1>3 DEF FlowMoves

LEMMA MoveImplements ==
  ASSUME LedgerTypeOK, LedgerTypeOK', FlowInv, NEW b \in Builder, Claims(b) \/ Moves(b)
  PROVE  Flow!FlowNext
<1> DEFINE Books(i, x, y, p, a, h, c) ==
             [issued |-> i, adjustedPending |-> x, adjustedAvailable |-> y,
              pending |-> p, available |-> a, held |-> h, consumed |-> c]
<1>1. PICK i0, p0, a0, h0, c0 \in Nat, x0, y0 \in Int :
        /\ i0 = credits[b].issued /\ p0 = credits[b].pending /\ a0 = credits[b].available
        /\ h0 = Held(b) /\ c0 = credits[b].consumed
        /\ x0 = audit[b]["admin_adjust_pending"] /\ y0 = audit[b]["admin_adjustment"]
  BY FlowFields
<1>2. FlowOf(b) = Books(i0, x0, y0, p0, a0, h0, c0)
  BY <1>1 DEF FlowOf
<1>3. ASSUME NEW p, NEW a, NEW c, NEW h, NEW i, NEW x, NEW y, NEW k,
             Booked(b, p, a, c, i, x, y, k), Shifts(b, h),
             NEW i1, i1 = i0 + i, NEW x1, x1 = x0 + x, NEW y1, y1 = y0 + y,
             NEW p1, p1 = p0 + p, NEW a1, a1 = a0 + a, NEW h1, h1 = h0 + h, NEW c1, c1 = c0 + c
      PROVE  FlowMoves(b, Books(i1, x1, y1, p1, a1, h1, c1))
  BY <1>1, <1>3, MoveMaps
<1>4. CASE Claims(b)
  <2>1. PICK n \in Nat \ {0} :
          n <= p0 /\ Booked(b, -n, n, 0, 0, 0, 0, n) /\ Shifts(b, 0)
    BY <1>1, <1>4 DEF Claims
  <2>2. FlowMoves(b, Books(i0, x0, y0, p0 - n, a0 + n, h0, c0))
    BY <1>1, <1>3, <2>1
  <2>3. Flow!Claim(b, n)
    BY <1>2, <2>1, <2>2 DEF FlowMoves, FlowOf, Flow!Claim
  <2>4. n \in 1 .. credits[b].pending
    BY <1>1, <2>1
  <2> QED BY <2>3, <2>4 DEF Flow!FlowNext
<1>5. ASSUME NEW n \in Amount, Booked(b, n, 0, 0, n, 0, 0, 0), Shifts(b, 0)
      PROVE  Flow!FlowNext
  <2>1. n \in Nat
    BY CreditAssumption DEF Amount
  <2>2. FlowMoves(b, Books(i0 + n, x0, y0, p0 + n, a0, h0, c0))
    BY <1>1, <1>3, <1>5, <2>1
  <2>3. Flow!IssuePending(b, n)
    BY <1>1, <1>2, <1>5, <2>2 DEF FlowMoves, FlowOf, Flow!IssuePending
  <2> QED BY <2>3 DEF Flow!FlowNext, Amount
<1>6. ASSUME NEW n \in Amount, Booked(b, 0, n, 0, n, 0, 0, 0), Shifts(b, 0)
      PROVE  Flow!FlowNext
  <2>1. n \in Nat
    BY CreditAssumption DEF Amount
  <2>2. FlowMoves(b, Books(i0 + n, x0, y0, p0, a0 + n, h0, c0))
    BY <1>1, <1>3, <1>6, <2>1
  <2>3. Flow!IssueAvailable(b, n)
    BY <1>1, <1>2, <1>6, <2>2 DEF FlowMoves, FlowOf, Flow!IssueAvailable
  <2> QED BY <2>3 DEF Flow!FlowNext, Amount
<1>7. ASSUME NEW n \in Nat \ {0}, n <= credits[b].available,
             Booked(b, 0, -n, 0, 0, 0, 0, 0), Shifts(b, n)
      PROVE  Flow!FlowNext
  <2>1. n \in Nat
    BY CreditAssumption DEF Amount
  <2>2. FlowMoves(b, Books(i0, x0, y0, p0, a0 - n, h0 + n, c0))
    BY <1>1, <1>3, <1>7, <2>1
  <2>3. Flow!Fund(b, n)
    BY <1>1, <1>2, <1>7, <2>2 DEF FlowMoves, FlowOf, Flow!Fund
  <2>4. n \in 1 .. credits[b].available
    BY <1>1, <1>7
  <2> QED BY <2>3, <2>4 DEF Flow!FlowNext
<1>8. ASSUME NEW n \in Nat \ {0}, n <= Held(b),
             Booked(b, 0, n, 0, 0, 0, 0, 0), Shifts(b, -n)
      PROVE  Flow!FlowNext
  <2>1. n \in Nat
    BY CreditAssumption DEF Amount
  <2>2. FlowMoves(b, Books(i0, x0, y0, p0, a0 + n, h0 - n, c0))
    BY <1>1, <1>3, <1>8, <2>1
  <2>3. Flow!Refund(b, n)
    BY <1>1, <1>2, <1>8, <2>2 DEF FlowMoves, FlowOf, Flow!Refund
  <2>4. n \in 1 .. Held(b)
    BY <1>1, <1>8
  <2> QED BY <2>3, <2>4 DEF Flow!FlowNext
<1>9. CASE 1 <= Held(b) /\ Booked(b, 0, 0, 1, 0, 0, 0, 0) /\ Shifts(b, -1)
  <2>1. FlowMoves(b, Books(i0, x0, y0, p0, a0, h0 - 1, c0 + 1))
    BY <1>1, <1>3, <1>9
  <2>2. Flow!Consume(b)
    BY <1>1, <1>2, <1>9, <2>1 DEF FlowMoves, FlowOf, Flow!Consume
  <2> QED BY <2>2 DEF Flow!FlowNext
<1>10. ASSUME NEW p \in Int, NEW a \in Int, Booked(b, p, a, 0, 0, p, a, 0), Shifts(b, 0)
       PROVE  Flow!FlowNext
  <2>1. PICK p1, a1 \in Nat : p1 = credits'[b].pending /\ a1 = credits'[b].available
    BY DEF LedgerTypeOK, CreditsTypeOK, CreditRow
  <2>2. p1 = p0 + p /\ a1 = a0 + a
    BY <1>1, <1>10, <2>1 DEF Booked
  <2>3. p1 - p0 = p /\ a1 - a0 = a
    BY <2>2
  <2>4. FlowMoves(b, Books(i0, x0 + (p1 - p0), y0 + (a1 - a0), p1, a1, h0, c0))
    BY <1>1, <1>3, <1>10, <2>2, <2>3
  <2>5. Flow!SetBalances(b)
    BY <1>2, <2>4 DEF FlowMoves, FlowOf, Flow!SetBalances
  <2> QED BY <2>5 DEF Flow!FlowNext
<1> QED BY <1>4, <1>5, <1>6, <1>7, <1>8, <1>9, <1>10 DEF Moves

(* The ledger implements the flow of credits: whatever the operations and   *)
(* their order, a builder's credits move between pending, available, held   *)
(* and consumed as CreditFlow says, all of an operation's or none.          *)
THEOREM LedgerImplementsFlow == Spec => ImplementsCreditFlow
<1>1. Init => Flow!FlowInit
  <2> SUFFICES ASSUME Init PROVE Flow!FlowInit
    OBVIOUS
  <2>1. \A b \in Builder : /\ Held(b) = 0 /\ credits[b].pending = 0
                           /\ credits[b].available = 0 /\ credits[b].consumed = 0
                           /\ credits[b].issued = 0
    BY InitFlow DEF Init, CreditsInit, NoRow
  <2>2. \A b \in Builder : /\ audit[b]["admin_adjust_pending"] = 0
                           /\ audit[b]["admin_adjustment"] = 0
    BY DEF Init, CreditsInit, NoAudit, Operation
  <2> QED BY <2>1, <2>2 DEF Flow!FlowInit, Flow!Empty
<1>2. LedgerTypeOK /\ LedgerTypeOK' /\ UsesInv /\ FlowInv /\ [Next]_vars
        => [Flow!FlowNext]_Flow!flowVars
  <2> SUFFICES ASSUME LedgerTypeOK, LedgerTypeOK', UsesInv, FlowInv, [Next]_vars
               PROVE  [Flow!FlowNext]_Flow!flowVars
    OBVIOUS
  <2>1. CASE Stands \/ UNCHANGED vars
    <3>1. credits' = credits /\ audit' = audit /\ \A b \in Builder : Held(b)' = Held(b)
      <4>1. CASE Stands
        BY <4>1 DEF Stands, creditVars
      <4>2. CASE UNCHANGED vars
        BY <4>2 DEF vars, creditVars, ticketVars, Held, TicketsOf, HeldOn, AttemptsOn
      <4> QED BY <2>1, <4>1, <4>2
    <3> QED BY <3>1 DEF Flow!flowVars
  <2>2. CASE \E b \in Builder : Claims(b) \/ Moves(b)
    BY <2>2, MoveImplements
  <2> QED BY <2>1, <2>2, EveryStepMoves
<1> QED BY <1>1, <1>2, LedgerTypes, UsesInvariant, FlowInvariant,
     PTL DEF Spec, ImplementsCreditFlow, Flow!FlowSpec
==============================================================================
