------------------------------ MODULE DmaQueue ------------------------------
(***************************************************************************)
(* What a DMA engine of the RCP promises to the program that drives it:    *)
(* the transfers it accepts complete one by one, in the order they were    *)
(* submitted, each of them as it was submitted, and an engine that is full *)
(* accepts nothing. The registers, the busy bits and the events that       *)
(* implement it are those of the modules that instantiate this one.        *)
(***************************************************************************)
EXTENDS Naturals, Sequences

CONSTANTS
  Transfers,   (* what may be asked of the engine                          *)
  Capacity     (* transfers it holds, the one in progress included         *)

VARIABLES
  queue,       (* the transfers accepted and not completed                 *)
  done         (* <<t>> after a step that completed t, as it was carried   *)
               (* out, and empty after any other step                      *)

vars == <<queue, done>>

Init == queue = <<>> /\ done = <<>>

Submit(t) ==
  /\ Len(queue) < Capacity
  /\ queue' = Append(queue, t)
  /\ done' = <<>>

Complete ==
  /\ queue # <<>>
  /\ done' = <<Head(queue)>>
  /\ queue' = Tail(queue)

(* Transfers in progress are given up by a reset, and only all together.   *)
Reset == queue' = <<>> /\ done' = <<>>

(* A step of the system that is none of the engine's.                      *)
Other == queue' = queue /\ done' = <<>>

Next == (\E t \in Transfers : Submit(t)) \/ Complete \/ Reset \/ Other

Spec == Init /\ [][Next]_vars

(* A full engine has room again.                                           *)
RoomAgain == (Len(queue) = Capacity) ~> (Len(queue) < Capacity)
=============================================================================
