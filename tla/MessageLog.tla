----------------------------- MODULE MessageLog -----------------------------
(***************************************************************************)
(* What the message store promises to the rest of the server: a log of     *)
(* messages, each under an id of its own, in which a stored message is     *)
(* never altered.  A crash may lose what was appended since the last time  *)
(* the log reached the disk, and nothing else.                             *)
(***************************************************************************)
CONSTANTS
    Mid,        \* the ids there are
    Payload     \* message bodies

VARIABLES
    log,        \* the messages readers see: a function from ids to Payload
    durable     \* the messages a crash leaves behind

vars == <<log, durable>>

NoMessages == [m \in {} |-> m]

Init ==
    /\ log = NoMessages
    /\ durable = NoMessages

Append(m, p) ==
    /\ m \notin DOMAIN log
    /\ log' = [k \in DOMAIN log \cup {m} |-> IF k = m THEN p ELSE log[k]]
    /\ UNCHANGED durable

Persist ==
    /\ durable' = log
    /\ UNCHANGED log

Lose ==
    /\ log' = durable
    /\ UNCHANGED durable

Next ==
    \/ \E m \in Mid, p \in Payload : Append(m, p)
    \/ Persist
    \/ Lose

Spec == Init /\ [][Next]_vars
=============================================================================
