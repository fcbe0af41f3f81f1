------------------------------- MODULE Netplay -------------------------------
(***************************************************************************)
(* The netplay client. Each time the game polls the controllers, a client  *)
(* sends the inputs of the players it controls to the server, and then     *)
(* takes the input of every player from what the server has sent: for each *)
(* player it keeps netplay_count, the number of inputs taken, and a list   *)
(* of inputs received and not yet taken. When the one it needs is missing, *)
(* a thread asks for it every 5 ms; after 10 s it declares the connection  *)
(* lost, and the game is stopped.                                          *)
(*                                                                         *)
(* Packets are lost, duplicated and reordered by the network, which the    *)
(* model needs no buffer for: what the server has decided once it never    *)
(* changes, so that an old packet holds some of the inputs decided by now. *)
(* The server is external: it decides the n-th input of a player when a    *)
(* client first needs it.                                                  *)
(***************************************************************************)
EXTENDS Naturals, SequencesExt

CONSTANTS
  Clients,
  NPlayers,    (* number of players                                        *)
  Keys,        (* the input of a player: buttons and stick                 *)
  MAX_TRIES,   (* requests within the 10 s of netplay_require_response     *)
  MAX_COUNT    (* bound: inputs per player                                 *)

Players == 1 .. NPlayers

ASSUME NetplayAssumption ==
  /\ NPlayers \in Nat \ {0}
  /\ MAX_TRIES \in Nat
  /\ MAX_COUNT \in Nat

VARIABLES
  count,     (* netplay_count, per client and player                       *)
  events,    (* the linked lists of inputs, per client and player          *)
  at,        (* where the emulation thread of a client is: phase, player   *)
  thread,    (* its request thread: none, check, ask, ok or failed; tries  *)
  udp,       (* l_udpChannel is not -1                                     *)
  stopped,   (* the core has been told to stop                             *)
  record,    (* the inputs the server has decided, per player              *)
  used       (* history: the inputs taken, per client and player           *)

vars == <<count, events, at, thread, udp, stopped, record, used>>

Phases == {"idle", "get", "loop", "join"}
Event(n, k) == [count |-> n, keys |-> k]

(* check_valid, and for the event the client needs.                        *)
CheckValid(c, p, n) == \E i \in DOMAIN events[c][p] : events[c][p][i].count = n
Valid(c, p) == CheckValid(c, p, count[c][p])

-----------------------------------------------------------------------------
Init ==
  /\ count = [c \in Clients |-> [p \in Players |-> 0]]
  /\ events = [c \in Clients |-> [p \in Players |-> <<>>]]
  /\ at = [c \in Clients |-> [phase |-> "idle", player |-> 1]]
  /\ thread = [c \in Clients |-> [state |-> "none", tries |-> 0]]
  /\ udp = [c \in Clients |-> TRUE]
  /\ stopped = [c \in Clients |-> FALSE]
  /\ record = [p \in Players |-> <<>>]
  /\ used = [c \in Clients |-> [p \in Players |-> <<>>]]

(* netplay_update_input: the game polls the controllers. What the client   *)
(* sends of its own players only matters to the server.                    *)
PollInput(c) ==
  /\ at[c].phase = "idle" /\ ~stopped[c]
  /\ \A p \in Players : count[c][p] < MAX_COUNT
  /\ at' = [at EXCEPT ![c].phase = "get"]
  /\ UNCHANGED <<count, events, thread, udp, stopped, record, used>>

(* netplay_process, one input of a packet: it is put in front of the list  *)
(* of its player unless it has been taken, or recorded already.            *)
Decided(p) == {Event(n - 1, record[p][n]) : n \in DOMAIN record[p]}

BadWanted(c, p, e) == e.count >= count[c][p]

Wanted(c, p, e) == e.count >= count[c][p] /\ ~CheckValid(c, p, e.count)

Receive(c) ==
  /\ at[c].phase \in {"get", "loop"}
  /\ \E p \in Players : \E e \in Decided(p) :
       /\ Wanted(c, p, e)
       /\ events' = [events EXCEPT ![c][p] = Cons(e, @)]
  /\ UNCHANGED <<count, at, thread, udp, stopped, used, record>>

(* The next player, or the end of netplay_get_raw_input.                   *)
BadNextPlayer(c) == [phase |-> "get", player |-> at[c].player + 1]

NextPlayer(c) ==
  IF at[c].player = NPlayers THEN [phase |-> "idle", player |-> 1]
  ELSE [phase |-> "get", player |-> at[c].player + 1]

NoThread == [state |-> "none", tries |-> 0]

(* The place in the list of the event that netplay_get_input takes.        *)
BadTaken(c, p) == 1

Taken(c, p) ==
  CHOOSE i \in DOMAIN events[c][p] :
    /\ events[c][p][i].count = count[c][p]
    /\ \A j \in 1 .. i - 1 : events[c][p][j].count # count[c][p]

(* netplay_get_input, the input is there: netplay_delete_event.            *)
TakeInput(c, p) ==
  /\ used' = [used EXCEPT ![c][p] = Append(@, events[c][p][Taken(c, p)].keys)]
  /\ events' = [events EXCEPT ![c][p] = RemoveAt(@, Taken(c, p))]
  /\ count' = [count EXCEPT ![c][p] = @ + 1]
  /\ UNCHANGED stopped

(* netplay_get_input, the connection is lost: the core is told to stop.    *)
LoseConnection(c) ==
  /\ stopped' = [stopped EXCEPT ![c] = TRUE]
  /\ UNCHANGED <<count, events, used>>

(* netplay_get_input once the socket is drained: a request in advance,     *)
(* then netplay_ensure_valid, where no thread is needed or it is no use.   *)
EnsureValid(c) ==
  LET p == at[c].player IN
  /\ at[c].phase = "get"
  /\ \/ Valid(c, p) /\ TakeInput(c, p) /\ at' = [at EXCEPT ![c] = NextPlayer(c)]
          /\ UNCHANGED thread
     \/ ~Valid(c, p) /\ ~udp[c] /\ LoseConnection(c)
          /\ at' = [at EXCEPT ![c] = NextPlayer(c)] /\ UNCHANGED thread
     \/ ~Valid(c, p) /\ udp[c]
          /\ thread' = [thread EXCEPT ![c] = [state |-> "check", tries |-> 0]]
          /\ at' = [at EXCEPT ![c].phase = "loop"]
          /\ UNCHANGED <<count, events, stopped, used>>
  /\ UNCHANGED <<udp, record>>

(* netplay_ensure_valid: the end of the loop that processes packets; after *)
(* it the thread is waited for.                                            *)
BadLoopDone(c) == Valid(c, at[c].player)

LoopDone(c) == Valid(c, at[c].player) \/ ~udp[c]

LeaveLoop(c) ==
  /\ at[c].phase = "loop" /\ LoopDone(c)
  /\ at' = [at EXCEPT ![c].phase = "join"]
  /\ UNCHANGED <<count, events, thread, udp, stopped, record, used>>

JoinThread(c) ==
  /\ at[c].phase = "join"
  /\ \/ thread[c].state = "ok" /\ TakeInput(c, at[c].player)
     \/ thread[c].state = "failed" /\ LoseConnection(c)
  /\ thread' = [thread EXCEPT ![c] = NoThread]
  /\ at' = [at EXCEPT ![c] = NextPlayer(c)]
  /\ UNCHANGED <<udp, record>>

(* netplay_require_response: the test of the loop, then its body.          *)
CheckResponse(c) ==
  /\ thread[c].state = "check"
  /\ thread' = [thread EXCEPT ![c].state = IF Valid(c, at[c].player) THEN "ok" ELSE "ask"]
  /\ UNCHANGED <<count, events, at, udp, stopped, used, record>>

RequireResponse(c) ==
  /\ thread[c].state = "ask"
  /\ IF thread[c].tries >= MAX_TRIES
     THEN /\ udp' = [udp EXCEPT ![c] = FALSE]
          /\ thread' = [thread EXCEPT ![c].state = "failed"]
     ELSE /\ thread' = [thread EXCEPT ![c] = [state |-> "check", tries |-> @.tries + 1]]
          /\ UNCHANGED udp
  /\ UNCHANGED <<count, events, at, stopped, used, record>>

(* The server decides the next input of p, which a client needs.           *)
Asks(c, p) == at[c].phase # "idle" /\ at[c].player = p

Decide(p) ==
  /\ \E c \in Clients : Asks(c, p) /\ count[c][p] = Len(record[p])
  /\ \E k \in Keys : record' = [record EXCEPT ![p] = Append(@, k)]
  /\ UNCHANGED <<count, events, at, thread, udp, stopped, used>>

EmulationThread(c) == PollInput(c) \/ EnsureValid(c) \/ LeaveLoop(c) \/ JoinThread(c)
RequestThread(c) == CheckResponse(c) \/ RequireResponse(c)

Next ==
  \/ \E c \in Clients : EmulationThread(c) \/ RequestThread(c) \/ Receive(c)
  \/ \E p \in Players : Decide(p)

Spec == Init /\ [][Next]_vars

(* The threads of a client run; nothing is assumed of the network or of    *)
(* the server.                                                             *)
Fairness == \A c \in Clients : WF_vars(EmulationThread(c)) /\ WF_vars(RequestThread(c))
FairSpec == Spec /\ Fairness

-----------------------------------------------------------------------------
(* Properties.                                                             *)

TypeOK ==
  /\ count \in [Clients -> [Players -> Nat]]
  /\ events \in [Clients -> [Players -> Seq([count : Nat, keys : Keys])]]
  /\ at \in [Clients -> [phase : Phases, player : Players]]
  /\ thread \in [Clients -> [state : {"none", "check", "ask", "ok", "failed"}, tries : Nat]]
  /\ udp \in [Clients -> BOOLEAN] /\ stopped \in [Clients -> BOOLEAN]
  /\ record \in [Players -> Seq(Keys)]
  /\ used \in [Clients -> [Players -> Seq(Keys)]]

(* The list of a player holds each input once and none that was taken,     *)
(* however often and in whatever order the network delivers it: its length *)
(* is what the client reports to the server and what decides whether it    *)
(* runs fast forward.                                                      *)
BufferExact ==
  \A c \in Clients, p \in Players : \A i, j \in DOMAIN events[c][p] :
    /\ events[c][p][i].count >= count[c][p]
    /\ events[c][p][i].count = events[c][p][j].count => i = j

(* Whatever the network does and whenever a timeout meets a late answer,   *)
(* every game is fed the inputs the server has decided, in their order.    *)
Inputs == INSTANCE LockStep
InputsSpec == Inputs!Spec

(* A client never hangs: whatever is lost, it has its input or gives up.   *)
NeverHangs ==
  \A c \in Clients : (at[c].phase # "idle") ~> (at[c].phase = "idle")
=============================================================================
