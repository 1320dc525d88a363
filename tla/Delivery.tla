------------------------------ MODULE Delivery ------------------------------
(***************************************************************************)
(* What the ways of a body promise, in either direction: the parts that    *)
(* one end hands over arrive at the other in order, none twice and none    *)
(* left out; and the receiver takes the body for complete only when the    *)
(* sender said it was at its end and everything has arrived.  A way that   *)
(* breaks is cut, which the receiver learns.                               *)
(***************************************************************************)
EXTENDS Naturals, Sequences

CONSTANT Part

VARIABLES
    given,    \* what the sender handed over, in order
    ended,    \* the sender is at its end
    taken,    \* what arrived
    outcome   \* "open", "complete" or "cut", as the receiver sees it

vars == <<given, ended, taken, outcome>>

TypeOK ==
    /\ given \in Seq(Part)
    /\ ended \in BOOLEAN
    /\ taken \in Seq(Part)
    /\ outcome \in {"open", "complete", "cut"}

(* the receiver may be gone before it starts                               *)
Init ==
    /\ given = <<>>
    /\ ended = FALSE
    /\ taken = <<>>
    /\ outcome \in {"open", "cut"}

Give ==
    /\ ~ended
    /\ \E part \in Part : given' = Append(given, part)
    /\ ended' \in BOOLEAN
    /\ UNCHANGED <<taken, outcome>>

End ==
    /\ ~ended
    /\ ended' = TRUE
    /\ UNCHANGED <<given, taken, outcome>>

Take ==
    /\ outcome = "open"
    /\ Len(taken) < Len(given)
    /\ taken' = Append(taken, given[Len(taken) + 1])
    /\ outcome' \in {"open"} \cup {o \in {"complete"} : ended /\ taken' = given}
    /\ UNCHANGED <<given, ended>>

(* a part that reaches the receiver in the step that hands it over         *)
Pass ==
    /\ outcome = "open" /\ ~ended
    /\ taken = given
    /\ \E part \in Part : given' = Append(given, part)
    /\ taken' = given'
    /\ ended' \in BOOLEAN
    /\ outcome' \in {"open"} \cup {o \in {"complete"} : ended'}

Complete ==
    /\ outcome = "open"
    /\ ended' = TRUE
    /\ taken = given
    /\ outcome' = "complete"
    /\ UNCHANGED <<given, taken>>

(* the sender may be told in the same step, or go on for nobody            *)
Cut ==
    /\ outcome = "open"
    /\ outcome' = "cut"
    /\ ended' \in {ended, TRUE}
    /\ UNCHANGED <<given, taken>>

Next == Give \/ End \/ Take \/ Pass \/ Complete \/ Cut

Spec == Init /\ [][Next]_vars
=============================================================================
