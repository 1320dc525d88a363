------------------------------- MODULE Queues -------------------------------
(***************************************************************************)
(* What the properties of the channels say about a queue of messages.      *)
(***************************************************************************)
EXTENDS Naturals, Sequences, FiniteSets

(* how many places of a queue hold one of these messages                   *)
Among(queue, messages) == Cardinality({i \in DOMAIN queue : queue[i] \in messages})
=============================================================================
