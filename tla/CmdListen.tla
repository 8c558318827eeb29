----------------------------- MODULE CmdListen -----------------------------
(***************************************************************************)
(* cmd_listen, called over and over by th_Listen: the listening socket sk, *)
(* the accepted socket nsk and the descriptor fd of the tty, on every path *)
(* through the function, with one phone that may call and hang up at any   *)
(* moment.  The flags master, auth, encryption, secure, linger and         *)
(* rfcomm_raw_tty are never set, so the branches on them are dead; th_Listen *)
(* passes ctl = 0, so the ioctl of the release path goes to the standard   *)
(* input and releases nothing.                                             *)
(***************************************************************************)
EXTENDS Integers

CONSTANTS
  Tries,   \* how often the open of the tty is tried again (30)
  MaxFds   \* descriptors the process may still open

ASSUME TriesAssumption == Tries \in Nat
ASSUME FdsAssumption == MaxFds \in Nat

VARIABLES
  pc,        \* where the call is
  sk,        \* the listening socket of this call is open
  nsk,       \* the accepted socket: "none", "live", or its link is "dead"
  fd,        \* the tty is open
  try,
  heldSk,    \* listening sockets that returned calls left open
  heldNsk,   \* accepted sockets that returned calls left open
  tty,       \* device 1: "gone" is hung up but not yet removed
  peer,      \* the phone
  reader,    \* th_RDWR's descriptor of the tty
  canceled,  \* __io_canceled, which nothing resets
  hup        \* the handler of SIGHUP is installed, and stays

callVars == <<sk, nsk, fd, try>>
heldVars == <<heldSk, heldNsk>>
vars == <<pc, callVars, heldVars, tty, peer, reader, canceled, hup>>

TypeOK ==
  /\ pc \in {"idle", "bind", "accept", "create", "open", "wait", "poll", "close"}
  /\ sk \in BOOLEAN /\ fd \in BOOLEAN
  /\ nsk \in {"none", "live", "dead"}
  /\ try \in 0..Tries
  /\ heldSk \in Nat /\ heldNsk \in Nat
  /\ tty \in {"none", "live", "gone"}
  /\ peer \in {"away", "calling", "linked"}
  /\ reader \in {"none", "live", "stale"}
  /\ canceled \in BOOLEAN /\ hup \in BOOLEAN

Init ==
  /\ pc = "idle" /\ sk = FALSE /\ nsk = "none" /\ fd = FALSE /\ try = 0
  /\ heldSk = 0 /\ heldNsk = 0
  /\ tty = "none" /\ peer = "away" /\ reader = "none"
  /\ canceled = FALSE /\ hup = FALSE

Count(open) == IF open THEN 1 ELSE 0
Used == heldSk + heldNsk + Count(sk) + Count(nsk # "none") + Count(fd)

\* A listening socket that is closed drops the caller waiting on it.
DropCaller == peer' = IF peer = "calling" THEN "away" ELSE peer

-----------------------------------------------------------------------------
(* The call. *)

\* socket(); without a free descriptor the call returns at once.
Socket ==
  /\ pc = "idle" /\ Used < MaxFds
  /\ sk' = TRUE /\ pc' = "bind"
  /\ UNCHANGED <<nsk, fd, try, heldVars, tty, peer, reader, canceled, hup>>

\* bind() and listen(): the channel is taken while any socket is bound to it.
Bind ==
  /\ pc = "bind" /\ heldSk = 0
  /\ pc' = "accept"
  /\ UNCHANGED <<callVars, heldVars, tty, peer, reader, canceled, hup>>

\* Slip: the socket that could not be bound is not closed.
BindFailsOpen ==
  /\ pc = "bind" /\ heldSk > 0
  /\ sk' = FALSE /\ heldSk' = heldSk + 1 /\ pc' = "idle"
  /\ UNCHANGED <<nsk, fd, try, heldNsk, tty, peer, reader, canceled, hup>>

BindFails ==
  /\ pc = "bind" /\ heldSk > 0
  /\ sk' = FALSE /\ pc' = "idle"
  /\ UNCHANGED <<nsk, fd, try, heldVars, tty, peer, reader, canceled, hup>>

Accept ==
  /\ pc = "accept" /\ peer = "calling" /\ Used < MaxFds
  /\ nsk' = "live" /\ peer' = "linked" /\ pc' = "create"
  /\ UNCHANGED <<sk, fd, try, heldVars, tty, reader, canceled, hup>>

\* accept() fails for want of a descriptor, or by a SIGHUP once its handler
\* is installed.  Its result is not looked at: getsockname(-1) fails, and
\* that path closes nsk, not sk.
AcceptFails ==
  /\ pc = "accept"
  /\ hup \/ (peer = "calling" /\ Used >= MaxFds)
  /\ heldSk' = heldSk + 1 /\ sk' = FALSE /\ pc' = "idle"
  /\ UNCHANGED <<nsk, fd, try, heldNsk, tty, peer, reader, canceled, hup>>

\* ioctl(RFCOMMCREATEDEV) needs a live link and a free device number.
CreateDev ==
  /\ pc = "create" /\ nsk = "live" /\ tty = "none"
  /\ tty' = "live" /\ try' = Tries /\ pc' = "open"
  /\ UNCHANGED <<sk, nsk, fd, heldVars, peer, reader, canceled, hup>>

\* This path closes sk, not nsk.
CreateDevFails ==
  /\ pc = "create" /\ ~(nsk = "live" /\ tty = "none")
  /\ sk' = FALSE /\ DropCaller
  /\ heldNsk' = heldNsk + 1 /\ nsk' = "none" /\ pc' = "idle"
  /\ UNCHANGED <<fd, try, heldSk, tty, reader, canceled, hup>>

\* open() of the tty, the sockets closed and the handlers installed.
OpenTty ==
  /\ pc = "open" /\ tty = "live" /\ Used < MaxFds
  /\ fd' = TRUE /\ sk' = FALSE /\ nsk' = "none" /\ DropCaller
  /\ hup' = TRUE /\ pc' = "wait"
  /\ UNCHANGED <<try, heldVars, tty, reader, canceled>>

\* Slip: the tries are not counted.
OpenAgainForever ==
  /\ pc = "open" /\ try > 0
  /\ try' = IF try = Tries THEN try - 1 ELSE Tries
  /\ UNCHANGED <<pc, sk, nsk, fd, heldVars, tty, peer, reader, canceled, hup>>

\* Slip: the count goes on below zero.
OpenAgainUnguarded ==
  /\ pc = "open"
  /\ try' = try - 1
  /\ UNCHANGED <<pc, sk, nsk, fd, heldVars, tty, peer, reader, canceled, hup>>

\* The node is not there yet, or no more.
OpenAgain ==
  /\ pc = "open" /\ try > 0
  /\ try' = try - 1
  /\ UNCHANGED <<pc, sk, nsk, fd, heldVars, tty, peer, reader, canceled, hup>>

\* Slip: the device is taken away under a descriptor of th_RDWR.
ReleaseDevice ==
  /\ pc = "open"
  /\ sk' = FALSE /\ DropCaller
  /\ heldNsk' = heldNsk + 1 /\ nsk' = "none" /\ pc' = "idle"
  /\ tty' = "none"
  /\ UNCHANGED <<fd, try, heldSk, reader, canceled, hup>>

\* release: no tries are left, or the node may not be opened (EACCES).
Release ==
  /\ pc = "open"
  /\ sk' = FALSE /\ DropCaller
  /\ heldNsk' = heldNsk + 1 /\ nsk' = "none" /\ pc' = "idle"
  /\ UNCHANGED <<fd, try, heldSk, tty, reader, canceled, hup>>

TestCanceled ==
  /\ pc = "wait"
  /\ pc' = IF canceled THEN "close" ELSE "poll"
  /\ UNCHANGED <<callVars, heldVars, tty, peer, reader, canceled, hup>>

\* ppoll() reports POLLERR or POLLHUP.
PollReturns ==
  /\ pc = "poll" /\ tty # "live"
  /\ pc' = "close"
  /\ UNCHANGED <<callVars, heldVars, tty, peer, reader, canceled, hup>>

\* close(fd): the last descriptor of a live tty takes the link with it.
CloseTty ==
  /\ pc = "close"
  /\ fd' = FALSE /\ pc' = "idle"
  /\ IF tty = "live" /\ reader # "live"
     THEN tty' = "gone" /\ peer' = "away"
     ELSE UNCHANGED <<tty, peer>>
  /\ UNCHANGED <<sk, nsk, try, heldVars, reader, canceled, hup>>

Listener ==
  \/ Socket \/ Bind \/ BindFails \/ Accept \/ AcceptFails
  \/ CreateDev \/ CreateDevFails \/ OpenTty \/ OpenAgain \/ Release
  \/ TestCanceled \/ PollReturns \/ CloseTty

-----------------------------------------------------------------------------
(* The phone, the operator, the kernel and th_RDWR. *)

Call ==
  /\ peer = "away"
  /\ heldSk > 0 \/ (sk /\ pc \in {"accept", "create", "open"})
  /\ peer' = "calling"
  /\ UNCHANGED <<pc, callVars, heldVars, tty, reader, canceled, hup>>

HangUp ==
  /\ peer # "away"
  /\ peer' = "away"
  /\ nsk' = IF nsk = "live" THEN "dead" ELSE nsk
  /\ tty' = IF tty = "live" THEN "gone" ELSE tty
  /\ reader' = IF reader = "live" THEN "stale" ELSE reader
  /\ UNCHANGED <<pc, sk, fd, try, heldVars, canceled, hup>>

\* Ctrl-C while its handler is installed: any thread may get the signal, and
\* only in this one does it interrupt ppoll().
CtrlC ==
  /\ pc \in {"wait", "poll"}
  /\ canceled' = TRUE
  /\ pc' \in {pc, "wait"}
  /\ UNCHANGED <<callVars, heldVars, tty, peer, reader, hup>>

Vanish ==
  /\ tty = "gone"
  /\ tty' = "none"
  /\ UNCHANGED <<pc, callVars, heldVars, peer, reader, canceled, hup>>

ReaderOpen ==
  /\ tty = "live" /\ reader # "live"
  /\ reader' = "live"
  /\ UNCHANGED <<pc, callVars, heldVars, tty, peer, canceled, hup>>

ReaderClose ==
  /\ reader # "none"
  /\ reader' = "none"
  /\ IF reader = "live" /\ ~fd
     THEN tty' = "gone" /\ peer' = "away" /\ nsk' = IF nsk = "live" THEN "dead" ELSE nsk
     ELSE UNCHANGED <<tty, peer, nsk>>
  /\ UNCHANGED <<pc, sk, fd, try, heldVars, canceled, hup>>

Next ==
  \/ Listener
  \/ Call \/ HangUp \/ CtrlC \/ Vanish \/ ReaderOpen \/ ReaderClose

Spec == Init /\ [][Next]_vars

\* th_Listen is a thread and calls again, and a hung up tty that nobody
\* holds is removed.  The phone, the operator and th_RDWR promise nothing.
FairSpec ==
  /\ Spec
  /\ WF_vars(Listener)
  /\ WF_vars(~fd /\ reader = "none" /\ Vanish)
-----------------------------------------------------------------------------
(* Properties. *)

\* The channel is lost at most once, and then for good: a listening socket
\* that a failed accept left open makes every later bind fail, so no later
\* call gets as far as accept.  It can be lost only by a SIGHUP after a first
\* phone was attached, or when lost connections have eaten the descriptors.
ChannelLostForGood ==
  /\ heldSk > 0 => /\ heldSk = 1
                   /\ pc \in {"idle", "bind"}
                   /\ hup \/ heldNsk + 1 >= MaxFds
  /\ Used <= MaxFds

\* Which descriptors the call holds is a matter of where it is, and th_RDWR's
\* descriptor is only as live as the tty.
HeldByCall ==
  /\ sk <=> (pc \in {"bind", "accept", "create", "open"})
  /\ (nsk # "none") <=> (pc \in {"create", "open"})
  /\ fd <=> (pc \in {"wait", "poll", "close"})
  /\ reader = "live" => tty = "live"

ListenInv == HeldByCall /\ ChannelLostForGood

\* A phone that calls is not left waiting: it is accepted or dropped, unless
\* the channel is lost.
CallerAnswered == (peer = "calling") ~> (peer # "calling" \/ heldSk > 0)

\* When the phone is away the gateway comes to listen again, whatever the
\* last call ended with, unless the channel or the descriptors are lost.
ListensAgain ==
  (peer = "away") ~> (peer # "away" \/ pc = "accept" \/ heldSk > 0 \/ heldNsk >= MaxFds)

\* th_Listen takes the return of cmd_listen for the end of the connection.
ReturnMeansDisconnected == pc = "idle" => peer # "linked"

LineSeen == INSTANCE Line WITH
  call <- IF pc = "idle" THEN "idle"
          ELSE IF fd THEN "connected" ELSE "waiting"

\* The rest of the gateway sees a Line.
ImplementsLine == LineSeen!LineSpec
=============================================================================
