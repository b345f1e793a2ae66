----------------------------- MODULE AtomicStore ------------------------------
(***************************************************************************)
(* What access to the database promises, and what the other modules take   *)
(* for granted when they make a transaction one action: each unit of work  *)
(* takes effect at one moment, wholly, on the store as it is at that       *)
(* moment.  One that has not taken effect is not answered with a result;   *)
(* one that fails has taken effect wholly or not at all.                   *)
(***************************************************************************)
CONSTANTS
  Unit,            (* units of work: isolated statements, transactions      *)
  EffectsOf        (* the effects a unit may have                           *)
VARIABLES
  store,           (* the effects in the database                           *)
  taken,           (* per unit: what it saw and wrote, once it took effect  *)
  answer           (* per unit: "none", "returned" or "thrown"              *)

storeVars == << store, taken, answer >>

StoreInit ==
  /\ store = {}
  /\ taken = [u \in Unit |-> {}]
  /\ answer = [u \in Unit |-> "none"]

TakeEffect(u) ==
  /\ taken[u] = {} /\ answer[u] = "none"
  /\ \E effects \in SUBSET EffectsOf[u] :
       /\ store' = store \cup effects
       /\ taken' = [taken EXCEPT ![u] = {[saw |-> store, wrote |-> effects]}]
  /\ UNCHANGED answer

Return(u) ==
  /\ taken[u] # {} /\ answer[u] = "none"
  /\ answer' = [answer EXCEPT ![u] = "returned"]
  /\ UNCHANGED << store, taken >>

(* Several at once when the process they run in stops.                      *)
Throw(us) ==
  /\ \A u \in us : answer[u] = "none"
  /\ answer' = [u \in Unit |-> IF u \in us THEN "thrown" ELSE answer[u]]
  /\ UNCHANGED << store, taken >>

StoreNext ==
  \/ \E u \in Unit : TakeEffect(u) \/ Return(u)
  \/ \E us \in SUBSET Unit : Throw(us)

StoreSpec == StoreInit /\ [][StoreNext]_storeVars
==============================================================================
