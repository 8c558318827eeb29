-------------------------------- MODULE Line --------------------------------
(***************************************************************************)
(* What the rest of the gateway sees of cmd_listen: a call that waits for  *)
(* a phone, attaches it to the tty of device 1 and returns some time       *)
(* later; the tty itself; and th_RDWR's descriptor of that tty.            *)
(* CmdListen shows that the real call behaves like this.                   *)
(***************************************************************************)
VARIABLES
  call,    \* the cmd_listen call of th_Listen
  tty,     \* device 1: "gone" is hung up but not yet removed
  reader   \* th_RDWR's descriptor of /dev/rfcomm1, in use or never closed

lineVars == <<call, tty, reader>>

LineType ==
  /\ call \in {"idle", "waiting", "connected"}
  /\ tty \in {"none", "live", "gone"}
  /\ reader \in {"none", "live", "stale"}

LineInit == call = "idle" /\ tty = "none" /\ reader = "none"

Enter ==
  /\ call = "idle"
  /\ call' = "waiting"
  /\ UNCHANGED <<tty, reader>>

\* The tty exists before cmd_listen has opened it.
Create ==
  /\ call = "waiting" /\ tty = "none"
  /\ tty' = "live"
  /\ UNCHANGED <<call, reader>>

Attach ==
  /\ call = "waiting" /\ tty = "live"
  /\ call' = "connected"
  /\ UNCHANGED <<tty, reader>>

\* The call gives up; a tty it made may stay.
Fail ==
  /\ call = "waiting"
  /\ call' = "idle"
  /\ UNCHANGED <<tty, reader>>

\* The call ends after a hang-up, or drops the phone itself: the last
\* descriptor of a live tty takes the link with it.
Leave ==
  /\ call = "connected"
  /\ call' = "idle"
  /\ tty' = IF tty = "live" /\ reader # "live" THEN "gone" ELSE tty
  /\ UNCHANGED reader

HangUp ==
  /\ tty = "live"
  /\ tty' = "gone"
  /\ reader' = IF reader = "live" THEN "stale" ELSE reader
  /\ UNCHANGED call

Vanish ==
  /\ tty = "gone"
  /\ tty' = "none"
  /\ UNCHANGED <<call, reader>>

\* A descriptor that was never closed does not keep th_RDWR from another.
ReaderOpen ==
  /\ tty = "live" /\ reader # "live"
  /\ reader' = "live"
  /\ UNCHANGED <<call, tty>>

ReaderClose ==
  /\ reader # "none"
  /\ reader' = "none"
  /\ tty' = IF reader = "live" /\ call # "connected" THEN "gone" ELSE tty
  /\ UNCHANGED call

LineNext ==
  \/ Enter \/ Create \/ Attach \/ Fail \/ Leave
  \/ HangUp \/ Vanish \/ ReaderOpen \/ ReaderClose

LineSpec == LineInit /\ [][LineNext]_lineVars
=============================================================================
