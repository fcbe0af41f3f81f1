------------------------------ MODULE LockStep ------------------------------
(***************************************************************************)
(* What netplay promises: there is one sequence of inputs per player, and  *)
(* every machine that plays along feeds its game that sequence, in order   *)
(* and without a gap, until it stops. Machines that start equal and are    *)
(* fed the same inputs stay equal.                                         *)
(***************************************************************************)
EXTENDS Naturals, Sequences

CONSTANTS Clients, Players, Keys

VARIABLES
  record,    (* per player, the inputs decided so far                      *)
  used       (* per client and player, the inputs its game has been fed    *)

vars == <<record, used>>

Init ==
  /\ record = [p \in Players |-> <<>>]
  /\ used = [c \in Clients |-> [p \in Players |-> <<>>]]

Decide(p, k) ==
  /\ record' = [record EXCEPT ![p] = Append(@, k)]
  /\ UNCHANGED used

Feed(c, p) ==
  /\ Len(used[c][p]) < Len(record[p])
  /\ used' = [used EXCEPT ![c][p] = Append(@, record[p][Len(@) + 1])]
  /\ UNCHANGED record

Next ==
  \/ \E p \in Players, k \in Keys : Decide(p, k)
  \/ \E c \in Clients, p \in Players : Feed(c, p)

Spec == Init /\ [][Next]_vars
=============================================================================
