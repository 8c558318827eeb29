--------------------------- MODULE CommandService ---------------------------
(***************************************************************************)
(* What a serial session promises the phone: every command written while   *)
(* the link is up is carried out once, in the order of writing, and each   *)
(* command that has a reply is answered before the next one is touched.    *)
(* A broken link may lose the reply that is owed and every command not yet *)
(* carried out; at most one of them, the one in flight, may still be       *)
(* carried out on an incomplete text.                                      *)
(***************************************************************************)
EXTENDS Integers, Sequences

CONSTANTS Message,     \* the commands
          ReplyTo(_)   \* the reply type a command type is answered with, or 0

VARIABLES inbox,     \* commands written and not carried out
          owed,      \* reply type of the command just carried out, or 0
          answered,  \* reply types answered so far
          up

vars == <<inbox, owed, answered, up>>

Init == inbox = <<>> /\ owed = 0 /\ answered = <<>> /\ up = TRUE

Submit(m) ==
  /\ inbox' = Append(inbox, m)
  /\ UNCHANGED <<owed, answered, up>>

\* Carrying out a command of a broken link is allowed: it had arrived.
Serve ==
  /\ owed = 0 /\ inbox # <<>>
  /\ inbox' = Tail(inbox)
  /\ owed' = ReplyTo(Head(inbox).msgType)
  /\ UNCHANGED <<answered, up>>

Answer ==
  /\ owed # 0
  /\ answered' = Append(answered, owed)
  /\ owed' = 0
  /\ UNCHANGED <<inbox, up>>

\* The reply that is owed may be lost with the link.
Break ==
  /\ up
  /\ up' = FALSE
  /\ owed' \in {owed, 0}
  /\ UNCHANGED <<inbox, answered>>

\* The command in flight when the link broke: of its type at most a prefix
\* of the digits is known, so it counts as itself or as no known command.
CutShort ==
  /\ ~up /\ owed = 0 /\ inbox # <<>>
  /\ inbox' = <<>>
  /\ owed' \in {0, ReplyTo(Head(inbox).msgType)}
  /\ UNCHANGED <<answered, up>>

Abandon ==
  /\ ~up /\ owed # 0
  /\ owed' = 0
  /\ UNCHANGED <<inbox, answered, up>>

Next ==
  \/ \E m \in Message : Submit(m)
  \/ Serve \/ Answer \/ Break \/ CutShort \/ Abandon

Spec == Init /\ [][Next]_vars

\* While the link is up the gateway keeps carrying out and answering.
FairSpec == Spec /\ WF_vars(up /\ (Serve \/ Answer))
=============================================================================
