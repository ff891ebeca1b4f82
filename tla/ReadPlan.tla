------------------------------ MODULE ReadPlan ------------------------------
(***************************************************************************)
(* What emrtd_worker_read is to the screens and threads around it: a walk  *)
(* through the stages of docs/architecture.md from the application to the  *)
(* files, which begins with an empty record, opens a session on the way or *)
(* never, and ends once, with the reason it ended for.  Nothing is said of *)
(* drivers, files, queues or threads.                                      *)
(***************************************************************************)
VARIABLES
    phase,          \* "idle", the stage the read is in, or "over"
    asked,          \* somebody has asked for the read to stop
    authenticated,  \* a session is open
    verdict         \* "none", "stopped" or "failed"

vars == <<phase, asked, authenticated, verdict>>

\* A read may be looked at from the start of the application on, or from where
\* the card has opened.
Init ==
    /\ phase \in {"idle", "selecting"}
    /\ asked = FALSE /\ authenticated = FALSE /\ verdict = "none"

\* The record is wiped, and the request to stop the read before with it.
Prepare ==
    /\ phase = "idle"
    /\ asked' = FALSE /\ authenticated' = FALSE /\ verdict' = "none"
    /\ UNCHANGED phase

\* There is no room for a read.
Refuse ==
    /\ phase = "idle"
    /\ authenticated' = FALSE /\ verdict' = "failed"
    /\ UNCHANGED <<phase, asked>>

Ask == asked' = TRUE /\ UNCHANGED <<phase, authenticated, verdict>>

\* Nothing is selected for a read that is to stop, or with the record of another.
Begin ==
    /\ phase = "idle" /\ ~asked /\ ~authenticated /\ verdict = "none"
    /\ phase' = "selecting"
    /\ UNCHANGED <<asked, authenticated, verdict>>

Advance ==
    /\ \/ phase = "selecting" /\ phase' = "cardAccess"
       \/ phase = "cardAccess" /\ phase' = "authenticating"
    /\ UNCHANGED <<asked, authenticated, verdict>>

Authenticate ==
    /\ phase = "authenticating" /\ authenticated' = TRUE
    /\ \/ phase' = "files" /\ UNCHANGED verdict
       \/ asked /\ phase' = "over" /\ verdict' = "stopped"
    /\ UNCHANGED asked

\* Without EF.CardAccess the read goes on: there is nothing to fail for.
Fail ==
    /\ phase \in {"idle", "selecting", "authenticating", "files"}
    /\ phase' = "over" /\ verdict' = "failed"
    /\ UNCHANGED <<asked, authenticated>>

\* "Cancelled" is what the user is not told of, so it must be the user's.
Stop ==
    /\ phase # "over" /\ asked
    /\ phase' = "over" /\ verdict' = "stopped"
    /\ UNCHANGED <<asked, authenticated>>

Complete ==
    /\ phase = "files" /\ phase' = "over"
    /\ UNCHANGED <<asked, authenticated, verdict>>

\* The verdict stands until the next read.
Leave ==
    /\ phase = "over" /\ phase' = "idle"
    /\ UNCHANGED <<asked, authenticated, verdict>>

Next ==
    \/ Prepare \/ Refuse \/ Ask \/ Begin \/ Advance \/ Authenticate
    \/ Fail \/ Stop \/ Complete \/ Leave

Spec == Init /\ [][Next]_vars
=============================================================================
