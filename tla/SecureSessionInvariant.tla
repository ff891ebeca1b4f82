----------------------- MODULE SecureSessionInvariant -----------------------
(***************************************************************************)
(* The inductive invariant of the protected session.  A count belongs to   *)
(* one command, and the answer the chip gives to that command carries the  *)
(* next one; that is all a checksum says, and all that is needed.          *)
(***************************************************************************)
EXTENDS SecureSession

\* Who has a session, and that the reader never outlives its own trust in it.
Sessions ==
    /\ active => cOpen
    /\ ~cOpen => ~trusted /\ \A c \in Cmds : under[c] = 0
    /\ trusted /\ phase \in {"ready", "waiting"} => active
    /\ ~active => ssc = 0

\* The pending command carries the reader's count; every count before it is
\* smaller.
Counts ==
    /\ phase = "waiting" => cmd \in Cmds /\ under[cmd] = ssc
    /\ phase = "waiting" /\ active => ssc # 0 /\ ssc < 2 * cmd
    /\ active => \A c \in Cmds : c <= cmd => under[c] <= ssc
    /\ \A c, d \in Cmds : c < d /\ d <= cmd /\ under[d] # 0 => under[c] < under[d]
    /\ trusted => \A c \in Cmds : base < c /\ c <= cmd => under[c] # 0
    /\ trusted /\ phase = "waiting" => base < cmd

\* What the chip executed under a seal, it executed once and then counted past.
Executions ==
    /\ \A c \in Cmds : c > cmd => runs[c] = 0
    /\ \A c \in Cmds : under[c] # 0 => runs[c] = 0 \/ (runs[c] = 1 /\ under[c] < cSsc)
    /\ \A a \in answers :
          /\ a.cmd <= cmd /\ under[a.cmd] # 0 /\ runs[a.cmd] = 1
          /\ a.count = under[a.cmd] + 1

Believed ==
    /\ phase = "waiting" => result = "pending"
    /\ trusted /\ result = "ok" => cmd \in Cmds /\ answered = cmd /\ runs[cmd] = 1

InStep ==
    ~slipped /\ active =>
        /\ phase = "ready" => ssc = cSsc
        /\ phase = "waiting" =>
              \/ copies = 0 /\ ssc = cSsc + 1 /\ runs[cmd] = 0
              \/ copies = 1 /\ ssc + 1 = cSsc

IInv == TypeOK /\ Sessions /\ Counts /\ Executions /\ Believed /\ InStep
=============================================================================
