------------------------------ MODULE SaveOrder ------------------------------
(***************************************************************************)
(* What whoever asks for savestates relies on, without threads, queue and  *)
(* lock: a file goes through the states captured for it one by one, in the *)
(* order of their capture; none is skipped, repeated or overtaken.         *)
(***************************************************************************)
EXTENDS Naturals

CONSTANT PATHS  (* the files, by name or by slot                           *)

VARIABLES
  captures,  (* number of states captured                                  *)
  files,     (* the state in each file, 0 if there is none                 *)
  pending    (* the states not yet written, for each file                  *)

vars == <<captures, files, pending>>

Init ==
  /\ captures = 0
  /\ files = [p \in PATHS |-> 0]
  /\ pending = [p \in PATHS |-> {}]

Capture(p) ==
  /\ captures' = captures + 1
  /\ pending' = [pending EXCEPT ![p] = @ \cup {captures + 1}]
  /\ UNCHANGED files

Store(p, s) ==
  /\ s \in pending[p]
  /\ \A other \in pending[p] : s <= other
  /\ files' = [files EXCEPT ![p] = s]
  /\ pending' = [pending EXCEPT ![p] = @ \ {s}]
  /\ UNCHANGED captures

Next == \E p \in PATHS : Capture(p) \/ \E s \in pending[p] : Store(p, s)

Spec == Init /\ [][Next]_vars

=============================================================================
