--------------------------- MODULE ConnectionService ---------------------------
(***************************************************************************)
(* What a WebServer promises about connections, without threads, handlers  *)
(* or descriptors: a connection is queued while the server is up, taken    *)
(* at most once, answered only while it is open and always closed in the   *)
(* end; no more connections are open than the pool has room for, plus the  *)
(* one the acceptor is holding; a server that is down holds none.          *)
(***************************************************************************)
EXTENDS Naturals, FiniteSets

CONSTANTS Conn, Capacity

VARIABLES
    up,         \* the server accepts connections or has some left
    state,      \* [Conn -> "new", "queued", "open", "closed", "dropped"]
    answered    \* [Conn -> BOOLEAN]

vars == <<up, state, answered>>

Held == {c \in Conn : state[c] = "open"}

Init ==
    /\ up = FALSE
    /\ state = [c \in Conn |-> "new"]
    /\ answered = [c \in Conn |-> FALSE]

GoUp == ~up /\ up' = TRUE /\ UNCHANGED <<state, answered>>

Queue(c) ==
    /\ up /\ state[c] = "new"
    /\ state' = [state EXCEPT ![c] = "queued"]
    /\ UNCHANGED <<up, answered>>

Take(c) ==
    /\ up /\ state[c] = "queued"
    /\ Cardinality(Held) <= Capacity
    /\ state' = [state EXCEPT ![c] = "open"]
    /\ UNCHANGED <<up, answered>>

Answer(c) ==
    /\ state[c] = "open" /\ ~answered[c]
    /\ answered' = [answered EXCEPT ![c] = TRUE]
    /\ UNCHANGED <<up, state>>

Close(c) ==
    /\ state[c] = "open"
    /\ state' = [state EXCEPT ![c] = "closed"]
    /\ UNCHANGED <<up, answered>>

(* The listener is closed: every connection still queued is reset.         *)
Drop ==
    /\ up
    /\ state' = [c \in Conn |-> IF state[c] = "queued" THEN "dropped" ELSE state[c]]
    /\ UNCHANGED <<up, answered>>

GoDown ==
    /\ up /\ Held = {} /\ \A c \in Conn : state[c] /= "queued"
    /\ up' = FALSE
    /\ UNCHANGED <<state, answered>>

Next == GoUp \/ GoDown \/ Drop \/ \E c \in Conn : Queue(c) \/ Take(c) \/ Answer(c) \/ Close(c)

Spec == Init /\ [][Next]_vars /\ \A c \in Conn : WF_vars(Close(c))
=============================================================================
