------------------------------ MODULE ApduPort ------------------------------
(***************************************************************************)
(* What the port of transport/emrtd_transceiver.h promises the layers      *)
(* above it: one command APDU out and one response APDU back, with the     *)
(* command executed by the card at most once.  Nothing is said of blocks,  *)
(* numbers, extensions or losses.                                          *)
(***************************************************************************)
EXTENDS Naturals

CONSTANT NCommands      \* commands of a read

VARIABLES
    state,      \* "down", "ready", "busy", "over" or "closed"
    call,       \* the command being exchanged, or the last one
    executed,   \* how often the card has executed each command
    result      \* what the last call returned

vars == <<state, call, executed, result>>

Errors == {"CardLost", "Transport", "Protocol", "BufferTooSmall",
           "SecureMessaging", "Refused"}

Init ==
    /\ state = "down" /\ call = 0 /\ result = "none"
    /\ executed = [c \in 1..NCommands |-> 0]

Open == state = "down" /\ state' = "ready" /\ UNCHANGED <<call, executed, result>>

Call ==
    /\ state = "ready" /\ call < NCommands
    /\ state' = "busy" /\ call' = call + 1 /\ result' = "pending"
    /\ UNCHANGED executed

\* The card executes the command it was called with, once.
Execute ==
    /\ state = "busy" /\ executed[call] = 0
    /\ executed' = [executed EXCEPT ![call] = 1]
    /\ UNCHANGED <<state, call, result>>

Return ==
    /\ state = "busy" /\ executed[call] = 1
    /\ state' = "ready" /\ result' = "ok"
    /\ UNCHANGED <<call, executed>>

\* A failure says nothing about whether the command was executed, and leaves it
\* to the caller whether to go on.
Fail ==
    /\ state = "busy"
    /\ state' \in {"ready", "over"} /\ result' \in Errors
    /\ UNCHANGED <<call, executed>>

Close ==
    /\ state # "busy" /\ state # "closed" /\ state' = "closed"
    /\ UNCHANGED <<call, executed, result>>

Next == Open \/ Call \/ Execute \/ Return \/ Fail \/ Close

Spec == Init /\ [][Next]_vars
=============================================================================
