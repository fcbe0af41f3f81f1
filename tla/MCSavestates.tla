---------------------------- MODULE MCSavestates ----------------------------
(* A small instance of Savestates: one file, two slots.                    *)
EXTENDS Savestates

MCWork == [func : {"save"}, path : Paths, state : 1 .. MAX_SAVES]
=============================================================================
