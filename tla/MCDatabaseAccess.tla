--------------------------- MODULE MCDatabaseAccess ---------------------------
(***************************************************************************)
(* An instance of DatabaseAccess for TLC: one process makes a transaction  *)
(* with another nested in it, and a read snapshot with two reads and a     *)
(* transaction that it refuses; another makes an isolated write.           *)
(*                                                                         *)
(*   p:  outer(inner(put))   snapshot(get1, get2, wrong)      q:  alone    *)
(***************************************************************************)
EXTENDS DatabaseAccess

CONSTANTS p, q, outer, inner, put, snapshot, get1, get2, wrong, alone

Processes == [c \in Call |-> IF c = alone THEN q ELSE p]

Kinds == [c \in Call |->
  CASE c \in {outer, inner, wrong} -> "write"
    [] c = snapshot                -> "read"
    [] OTHER                       -> "statement"]

Parents == [c \in Call |->
  CASE c = inner                 -> outer
    [] c = put                   -> inner
    [] c \in {get1, get2, wrong} -> snapshot
    [] OTHER                     -> NoCall]

Roots == [c \in Call |->
  CASE c \in {inner, put}        -> outer
    [] c \in {get1, get2, wrong} -> snapshot
    [] OTHER                     -> c]

Writes == {put, alone}
==============================================================================
