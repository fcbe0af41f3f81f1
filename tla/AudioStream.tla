----------------------------- MODULE AudioStream -----------------------------
(***************************************************************************)
(* What the audio interface promises: the buffers the program submits are  *)
(* played one after the other, every sample of a buffer exactly once and   *)
(* in order. At most two buffers are held; a third replaces the one that   *)
(* waits.                                                                  *)
(***************************************************************************)
EXTENDS Naturals, Sequences

CONSTANT Buffers   (* [addr, len]: where a buffer is and how many samples  *)

VARIABLES
  playing,   (* the buffer being played and the one that waits for it      *)
  pos,       (* samples of the first one already played                    *)
  stopped,   (* a reset stopped the interface in the middle of a buffer    *)
  out        (* <<chunk>> after a step that played samples, else empty     *)

vars == <<playing, pos, stopped, out>>

(* Samples from .. to - 1 of a buffer, played in one go.                   *)
Chunk(b, from, to) == IF from = to THEN <<>> ELSE <<[addr |-> b.addr, from |-> from, to |-> to]>>

Init == playing = <<>> /\ pos = 0 /\ stopped = FALSE /\ out = <<>>

Submit(b) ==
  /\ ~stopped
  /\ playing' = IF Len(playing) < 2 THEN Append(playing, b) ELSE <<playing[1], b>>
  /\ out' = <<>>
  /\ UNCHANGED <<pos, stopped>>

Play(to) ==
  /\ playing # <<>>
  /\ pos' = to
  /\ out' = Chunk(Head(playing), pos, to)
  /\ UNCHANGED <<playing, stopped>>

(* The rest of the buffer is played and the next one starts.               *)
Finish ==
  /\ playing # <<>>
  /\ out' = Chunk(Head(playing), pos, Head(playing).len)
  /\ playing' = Tail(playing)
  /\ pos' = 0
  /\ stopped' = FALSE

(* A reset may keep the samples not yet played of the first buffer for a   *)
(* last time; a new buffer then replaces it.                               *)
Stop ==
  /\ \/ playing' = <<>> /\ pos' = 0 /\ stopped' = FALSE
     \/ /\ playing # <<>>
        /\ playing' = <<Head(playing)>>
        /\ pos' = pos
        /\ stopped' = TRUE
  /\ out' = <<>>

Restart(b) ==
  /\ stopped
  /\ playing' = <<b>>
  /\ pos' = 0
  /\ stopped' = FALSE
  /\ out' = <<>>

Other == out' = <<>> /\ UNCHANGED <<playing, pos, stopped>>

Next ==
  \/ \E b \in Buffers : Submit(b) \/ Restart(b)
  \/ playing # <<>> /\ \E to \in pos .. Head(playing).len : Play(to)
  \/ Finish \/ Stop \/ Other

Spec == Init /\ [][Next]_vars
=============================================================================
