-------------------------- MODULE TemporalPromise --------------------------
(***************************************************************************)
(* What the temporal daemon promises about one check of an owner task:     *)
(*                                                                         *)
(*   none -> active (tries 1, 2, ...) -> one end, for good.                *)
(*                                                                         *)
(* A try follows a failed try and never one past the budget.  Checks of    *)
(* one occurrence follow one another, each after the deferral of the one   *)
(* before, so that an occurrence is answered, given up or superseded once. *)
(* A transaction may move several checks at once.                          *)
(***************************************************************************)
EXTENDS Naturals

CONSTANTS
  Checks,        \* the checks there may be
  SameOcc(_, _), \* whether two checks are of one occurrence of one task
  Budget         \* the number of tries of a check

VARIABLE check   \* check[c]: its phase and its tries

Answers == {"resolved", "final_no_update", "deferred"}

Init == \A c \in Checks : check[c].phase \in {"none", "active"} /\ check[c].tries <= 1

Others(c) == {b \in Checks \ {c} : SameOcc(b, c)}

Begins(c, next) ==
  /\ check[c].phase = "none"
  /\ next = [phase |-> "active", tries |-> 1]
  /\ \A b \in Others(c) : check[b].phase \in {"none", "deferred"}

TriesAgain(c, next) ==
  /\ check[c].phase = "active" /\ check[c].tries < Budget
  /\ next = [phase |-> "active", tries |-> check[c].tries + 1]

EndsOnce(c, next) ==
  /\ check[c].phase = "active"
  /\ next.phase \in Answers \cup {"superseded", "exhausted"}
  /\ next.tries = check[c].tries

Next ==
  /\ check' # check
  /\ DOMAIN check' = DOMAIN check
  /\ \A c \in Checks :
       \/ check'[c] = check[c]
       \/ Begins(c, check'[c]) \/ TriesAgain(c, check'[c]) \/ EndsOnce(c, check'[c])

Spec == Init /\ [][Next]_check
=============================================================================
