------------------------------ MODULE Gateway ------------------------------
(***************************************************************************)
(* The threads of the default build around the phone's line: th_Listen,    *)
(* which looks for a free /dev/rfcommN and calls cmd_listen; th_RDWR, which *)
(* looks for an existing one and serves it; main, which waits for "q" and  *)
(* joins them.  They share global_x, global_comm, global_isWaiting and     *)
(* g_isExit with no lock: an increment of global_x is a load and a store,  *)
(* and th_RDWR reads global_comm once to look and once to open.  A sprintf *)
(* of global_x into global_comm is one step.  A session of th_RDWR is seen *)
(* from outside: it blocks while its descriptor is live (see Session).     *)
(*                                                                         *)
(* global_isWaiting is only ever 1 or 2: nothing assigns 0 or 3.  th_Listen *)
(* has no end, so main never gets past its first pthread_join.             *)
(***************************************************************************)
EXTENDS Line, Integers

CONSTANTS
  OtherNodes,  \* the N of the /dev/rfcommN that other programs made
  Wrap         \* th_RDWR counts global_x below this (10)

ASSUME WrapAssumption == Wrap \in Nat /\ Wrap > 1
ASSUME NodesAssumption == OtherNodes \subseteq 0 .. (Wrap - 1) /\ 1 \notin OtherNodes

VARIABLES
  global_x, global_comm,   \* global_comm is the N of "/dev/rfcommN"
  global_isWaiting, g_isExit,
  listen, comm, lx,        \* th_Listen: its place, its comm, a loaded global_x
  rdwr, rx,                \* th_RDWR: its place, the incremented global_x
  other,                   \* th_RDWR's descriptor is of another program's node
  main

listenVars == <<listen, comm, lx>>
rdwrVars   == <<rdwr, rx, other>>
vars == <<lineVars, global_x, global_comm, global_isWaiting, g_isExit,
          listenVars, rdwrVars, main>>

TypeOK ==
  /\ LineType
  /\ global_x \in Nat /\ global_comm \in Nat /\ comm \in Nat
  /\ lx \in Nat /\ rx \in Nat
  /\ global_isWaiting \in {1, 2}
  /\ g_isExit \in BOOLEAN /\ other \in BOOLEAN
  /\ listen \in {"loadComm", "storeComm", "loadGlobal", "storeGlobal", "switch",
                 "load", "comm", "global_comm", "cmd_listen"}
  /\ rdwr \in {"init", "switch", "access", "open", "reopen", "serve", "check",
               "load", "store", "wrap", "global_comm", "ended"}
  /\ main \in {"scan", "pthread_join"}

Init ==
  /\ LineInit
  /\ global_x = 1 /\ global_comm = 0
  /\ global_isWaiting = 1 /\ g_isExit = FALSE
  /\ listen = "loadComm" /\ comm = 0 /\ lx = 0
  /\ rdwr = "init" /\ rx = 0 /\ other = FALSE
  /\ main = "scan"

\* access("/dev/rfcommN"): a hung up tty still has its node until it is removed.
Exists(n) == n \in OtherNodes \/ (n = 1 /\ tty # "none")

Step(thread, from, to) == thread = from /\ thread' = to

-----------------------------------------------------------------------------
(* th_Listen. *)

\* Before the loop: comm and global_comm each take the next global_x.
Name ==
  /\ \/ Step(listen, "loadComm", "storeComm") \/ Step(listen, "loadGlobal", "storeGlobal")
  /\ lx' = global_x
  /\ UNCHANGED <<lineVars, global_x, global_comm, global_isWaiting, g_isExit, comm, rdwrVars, main>>

NameComm ==
  /\ Step(listen, "storeComm", "loadGlobal")
  /\ global_x' = lx + 1 /\ comm' = lx
  /\ UNCHANGED <<lineVars, global_comm, global_isWaiting, g_isExit, lx, rdwrVars, main>>

NameGlobal ==
  /\ Step(listen, "storeGlobal", "switch")
  /\ global_x' = lx + 1 /\ global_comm' = lx
  /\ UNCHANGED <<lineVars, global_isWaiting, g_isExit, comm, lx, rdwrVars, main>>

\* case 1: a name that is free lets the thread wait for a phone.
FreeNode ==
  /\ Step(listen, "switch", "switch") /\ global_isWaiting = 1
  /\ ~Exists(comm)
  /\ global_isWaiting' = 2
  /\ UNCHANGED <<lineVars, global_x, global_comm, g_isExit, comm, lx, rdwrVars, main>>

\* case 1: one that is taken is passed over.  The test of g_isExit that
\* follows only leaves the switch.
TakenNode ==
  /\ Step(listen, "switch", "load") /\ global_isWaiting = 1
  /\ Exists(comm)
  /\ lx' = global_x
  /\ UNCHANGED <<lineVars, global_x, global_comm, global_isWaiting, g_isExit, comm, rdwrVars, main>>

\* Slip: the number is not moved on.
NextNodeStays ==
  /\ Step(listen, "load", "comm")
  /\ global_x' = lx
  /\ UNCHANGED <<lineVars, global_comm, global_isWaiting, g_isExit, comm, lx, rdwrVars, main>>

NextNode ==
  /\ Step(listen, "load", "comm")
  /\ global_x' = lx + 1
  /\ UNCHANGED <<lineVars, global_comm, global_isWaiting, g_isExit, comm, lx, rdwrVars, main>>

NextComm ==
  /\ Step(listen, "comm", "global_comm")
  /\ comm' = global_x
  /\ UNCHANGED <<lineVars, global_x, global_comm, global_isWaiting, g_isExit, lx, rdwrVars, main>>

NextGlobal ==
  /\ Step(listen, "global_comm", "switch")
  /\ global_comm' = global_x
  /\ UNCHANGED <<lineVars, global_x, global_isWaiting, g_isExit, comm, lx, rdwrVars, main>>

\* case 2: cmd_listen is called, for device 1 whatever comm says.
CallListen ==
  /\ Step(listen, "switch", "cmd_listen") /\ global_isWaiting = 2
  /\ Enter
  /\ UNCHANGED <<global_x, global_comm, global_isWaiting, g_isExit, comm, lx, rdwrVars, main>>

\* Slip: the state after a disconnection is 0, which neither thread leaves.
ListenReturnsZero ==
  /\ Step(listen, "cmd_listen", "switch") /\ call = "idle"
  /\ global_isWaiting' = 0
  /\ UNCHANGED <<lineVars, global_x, global_comm, g_isExit, comm, lx, rdwrVars, main>>

\* It returns; here too the test of g_isExit only leaves the switch.
ListenReturns ==
  /\ Step(listen, "cmd_listen", "switch") /\ call = "idle"
  /\ global_isWaiting' = 1
  /\ UNCHANGED <<lineVars, global_x, global_comm, g_isExit, comm, lx, rdwrVars, main>>

th_Listen ==
  \/ Name \/ NameComm \/ NameGlobal
  \/ FreeNode \/ TakenNode \/ NextNode \/ NextComm \/ NextGlobal
  \/ CallListen \/ ListenReturns

-----------------------------------------------------------------------------
(* th_RDWR. *)

\* global_comm is named after global_x before the loop and at the end of
\* every turn.
NameNode ==
  /\ Step(rdwr, "init", "switch") \/ Step(rdwr, "global_comm", "switch")
  /\ global_comm' = global_x
  /\ UNCHANGED <<lineVars, global_x, global_isWaiting, g_isExit, listenVars, rx, other, main>>

\* Only case 1 looks for a node.
Switch ==
  /\ rdwr = "switch"
  /\ rdwr' = IF global_isWaiting = 1 THEN "access" ELSE "check"
  /\ UNCHANGED <<lineVars, global_x, global_comm, global_isWaiting, g_isExit, listenVars, rx, other, main>>

Access ==
  /\ rdwr = "access"
  /\ rdwr' = IF Exists(global_comm) THEN "open" ELSE "check"
  /\ UNCHANGED <<lineVars, global_x, global_comm, global_isWaiting, g_isExit, listenVars, rx, other, main>>

\* sniffer_Open opens what global_comm names by now.  It does not succeed
\* after a first try that failed with the node open: the standard input is
\* still no terminal.
OpenNode ==
  /\ rdwr \in {"open", "reopen"} /\ rdwr' = "serve"
  /\ reader = "none"
  /\ \/ global_comm = 1 /\ ReaderOpen /\ UNCHANGED other
     \/ global_comm \in OtherNodes /\ other' = TRUE /\ UNCHANGED lineVars
  /\ UNCHANGED <<global_x, global_comm, global_isWaiting, g_isExit, listenVars, rx, main>>

\* An open that fails is tried once more after three seconds; a second
\* failure ends the thread.  UART0_Open fails for a missing node, and for any
\* node when the standard input is no terminal: it has the node open by then,
\* does not close it, and the descriptor keeps a live tty alive.
OpenFails ==
  /\ Step(rdwr, "open", "reopen") \/ Step(rdwr, "reopen", "ended")
  /\ UNCHANGED lineVars \/ (global_comm = 1 /\ ReaderOpen)
  /\ UNCHANGED <<global_x, global_comm, global_isWaiting, g_isExit, listenVars, rx, other, main>>

\* One turn of the inner loop: a command was read, or the descriptor is stale
\* and the reads return at once.  Only g_isExit ends the loop.
Serve ==
  /\ rdwr = "serve"
  /\ IF g_isExit
     THEN /\ rdwr' = "check" /\ other' = FALSE
          /\ IF reader # "none" THEN ReaderClose ELSE UNCHANGED lineVars
     ELSE UNCHANGED <<rdwr, other, lineVars>>
  /\ UNCHANGED <<global_x, global_comm, global_isWaiting, g_isExit, listenVars, rx, main>>

\* Slip: only the state of the line ends the thread.
CheckState ==
  /\ rdwr = "check"
  /\ rdwr' = IF global_isWaiting = 0 THEN "ended" ELSE "load"
  /\ UNCHANGED <<lineVars, global_x, global_comm, global_isWaiting, g_isExit, listenVars, rx, other, main>>

CheckExit ==
  /\ rdwr = "check"
  /\ rdwr' = IF g_isExit THEN "ended" ELSE "load"
  /\ UNCHANGED <<lineVars, global_x, global_comm, global_isWaiting, g_isExit, listenVars, rx, other, main>>

\* if (++global_x >= 10) global_x = 0
Increment ==
  /\ Step(rdwr, "load", "store")
  /\ rx' = global_x + 1
  /\ UNCHANGED <<lineVars, global_x, global_comm, global_isWaiting, g_isExit, listenVars, other, main>>

\* Slip: only one count wraps, which th_Listen may step over.
StoreEqual ==
  /\ rdwr = "store"
  /\ global_x' = rx
  /\ rdwr' = IF rx = Wrap THEN "wrap" ELSE "global_comm"
  /\ UNCHANGED <<lineVars, global_comm, global_isWaiting, g_isExit, listenVars, rx, other, main>>

Store ==
  /\ rdwr = "store"
  /\ global_x' = rx
  /\ rdwr' = IF rx >= Wrap THEN "wrap" ELSE "global_comm"
  /\ UNCHANGED <<lineVars, global_comm, global_isWaiting, g_isExit, listenVars, rx, other, main>>

WrapX ==
  /\ Step(rdwr, "wrap", "global_comm")
  /\ global_x' = 0
  /\ UNCHANGED <<lineVars, global_comm, global_isWaiting, g_isExit, listenVars, rx, other, main>>

Seeks == NameNode \/ Switch \/ Access \/ OpenNode \/ OpenFails \/ CheckExit
         \/ Increment \/ Store \/ WrapX

th_RDWR == Seeks \/ Serve

-----------------------------------------------------------------------------
(* main, and the line. *)

Quit ==
  /\ Step(main, "scan", "pthread_join")
  /\ g_isExit' = TRUE
  /\ UNCHANGED <<lineVars, global_x, global_comm, global_isWaiting, listenVars, rdwrVars>>

PhoneLine ==
  /\ Create \/ Attach \/ Fail \/ Leave \/ HangUp \/ Vanish
  /\ UNCHANGED <<global_x, global_comm, global_isWaiting, g_isExit, listenVars, rdwrVars, main>>

Next == th_Listen \/ th_RDWR \/ Quit \/ PhoneLine

Spec == Init /\ [][Next]_vars

\* Each thread runs on while it can.  A turn of Serve ends for sure only on a
\* descriptor whose reads return at once; nobody has to type "q", and neither
\* the phone nor cmd_listen has to do anything.
FairSpec ==
  /\ Spec
  /\ WF_vars(th_Listen)
  /\ WF_vars(Seeks)
  /\ WF_vars(reader = "stale" /\ Serve)

-----------------------------------------------------------------------------
(* Properties. *)

\* global_x never runs away from the numbers that names are made of (comm is
\* a char[16]): neither the increments that the two threads lose or add to
\* each other's, nor a store that undoes the wrap, carry it or a name made of
\* it further than five past Wrap.
PortsBounded ==
  /\ global_x <= Wrap + 5
  /\ comm <= Wrap + 5 /\ global_comm <= Wrap + 5

\* After "q" th_RDWR ends, unless it is blocked in a read of a phone that is
\* still there.
ReaderEnds == g_isExit ~> (rdwr = "ended" \/ (rdwr = "serve" /\ reader # "stale"))

\* While th_RDWR serves one node, th_Listen gets past the taken names and
\* waits for the next phone.
ListensWhileServing == (rdwr = "serve") ~> (call # "idle" \/ rdwr # "serve")

\* "q" makes th_Listen stop listening ("decide whether the thread has to
\* leave", NW_ARM_4G_PRO.c:90 and 109).
QuitEndsListening == g_isExit ~> [](call = "idle")

\* A phone that cmd_listen has attached is served by th_RDWR while it stays.
PhoneServed ==
  (call = "connected" /\ tty = "live")
    ~> ((rdwr = "serve" /\ reader = "live") \/ call # "connected" \/ tty # "live" \/ g_isExit)

\* The node that th_Listen found free is the one that cmd_listen creates: it
\* does not start to listen for a node that exists (NW_ARM_4G_PRO.c:75-78).
ListensOnFreeNode == [][call = "idle" /\ call' = "waiting" => tty = "none"]_vars
=============================================================================
