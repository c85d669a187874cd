------------------------- MODULE ConnectionContract -------------------------
(***************************************************************************)
(* What every event loop promises of a connection (event_loop.h): it is a  *)
(* state machine the callbacks drive, "callbacks are part of state         *)
(* machine, each callback is responsible for state transition".  In state  *)
(* read the loop fills the connection's buffer and asks on_read only when  *)
(* it holds something; in state write it empties the buffer and asks       *)
(* on_write only when nothing is left; die ends it.  Only bytes received   *)
(* enter the buffer and only bytes sent leave it.                          *)
(***************************************************************************)
EXTENDS Naturals

CONSTANTS
    Clients,
    Capacity    \* bytes a connection's buffer holds

VARIABLES
    phase,      \* "new", "open" or "closed"
    state,      \* of an open connection: el_connection_state
    held        \* of an open connection: bytes in its buffer

vars == <<phase, state, held>>

Init ==
    /\ phase = [c \in Clients |-> "new"]
    /\ state = [c \in Clients |-> "idle"]
    /\ held = [c \in Clients |-> 0]

(* on_connect chooses the first state; the buffer is fresh.                *)
Open(c) ==
    /\ phase[c] = "new"
    /\ phase' = [phase EXCEPT ![c] = "open"]
    /\ \E s \in {"idle", "read", "write"} : state' = [state EXCEPT ![c] = s]
    /\ UNCHANGED held

Refuse(c) ==
    /\ phase[c] = "new"
    /\ phase' = [phase EXCEPT ![c] = "closed"]
    /\ UNCHANGED <<state, held>>

Receive(c) ==
    /\ phase[c] = "open" /\ state[c] = "read"
    /\ \E n \in 1 .. Capacity - held[c] : held' = [held EXCEPT ![c] = @ + n]
    /\ UNCHANGED <<phase, state>>

Send(c) ==
    /\ phase[c] = "open" /\ state[c] = "write"
    /\ \E n \in 1 .. held[c] : held' = [held EXCEPT ![c] = @ - n]
    /\ UNCHANGED <<phase, state>>

AskOnRead(c) ==
    /\ phase[c] = "open" /\ state[c] = "read" /\ held[c] > 0
    /\ \E s \in {"read", "write"} : state' = [state EXCEPT ![c] = s]
    /\ UNCHANGED <<phase, held>>

AskOnWrite(c) ==
    /\ phase[c] = "open" /\ state[c] = "write" /\ held[c] = 0
    /\ \E s \in {"read", "write"} : state' = [state EXCEPT ![c] = s]
    /\ UNCHANGED <<phase, held>>

End(c) ==
    /\ phase[c] = "open"
    /\ phase' = [phase EXCEPT ![c] = "closed"]
    /\ state' = [state EXCEPT ![c] = "idle"]
    /\ held' = [held EXCEPT ![c] = 0]

Next ==
    \E c \in Clients :
        \/ Open(c) \/ Refuse(c) \/ Receive(c) \/ Send(c)
        \/ AskOnRead(c) \/ AskOnWrite(c) \/ End(c)

Spec == Init /\ [][Next]_vars
=============================================================================
