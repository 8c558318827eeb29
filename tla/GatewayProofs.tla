--------------------------- MODULE GatewayProofs ---------------------------
(***************************************************************************)
(* Proofs about Gateway: its type invariant, and the bound on the numbers  *)
(* that the two threads make names of, for every Wrap and every set of     *)
(* other nodes.                                                            *)
(***************************************************************************)
EXTENDS Gateway, TLAPS

\* What an action of the line alone keeps.
LEMMA LineSteps ==
  ASSUME LineType, LineNext
  PROVE  LineType'
  BY DEF LineType, LineNext, Enter, Create, Attach, Fail, Leave, HangUp, Vanish,
         ReaderOpen, ReaderClose

\* What th_Listen and th_RDWR do to the line.
LEMMA LineOrStutter ==
  ASSUME LineType, [Next]_vars
  PROVE  LineNext \/ UNCHANGED lineVars
  BY DEF Next, vars, LineNext, th_Listen, Name, NameComm, NameGlobal, FreeNode, TakenNode,
         NextNode, NextComm, NextGlobal, CallListen, ListenReturns, th_RDWR, Seeks, NameNode,
         Switch, Access, OpenNode, OpenFails, Serve, CheckExit, Increment, Store, WrapX, Quit,
         PhoneLine

-----------------------------------------------------------------------------
(* Types. *)

LEMMA InitType == Init => TypeOK
<1> SUFFICES ASSUME Init PROVE TypeOK
  OBVIOUS
<1>1. LineType /\ g_isExit \in BOOLEAN /\ other \in BOOLEAN
  BY Zenon DEF Init, LineInit, LineType
<1>2. global_x \in Nat /\ global_comm \in Nat /\ comm \in Nat /\ lx \in Nat /\ rx \in Nat
  BY DEF Init
<1> QED
  BY <1>1, <1>2 DEF Init, TypeOK

LEMMA NextType ==
  ASSUME TypeOK, [Next]_vars
  PROVE  TypeOK'
<1>1. LineType'
  BY LineSteps, LineOrStutter DEF TypeOK, LineType, lineVars
<1>2. CASE th_Listen
  BY <1>1, <1>2 DEF TypeOK, th_Listen, Step, rdwrVars, Name, NameComm, NameGlobal, FreeNode,
     TakenNode, NextNode, NextComm, NextGlobal, CallListen, ListenReturns
<1>3. CASE Seeks
  <2>1. g_isExit' \in BOOLEAN /\ other' \in BOOLEAN
    BY <1>3, Zenon DEF TypeOK, Seeks, NameNode, Switch, Access, OpenNode, OpenFails,
       CheckExit, Increment, Store, WrapX
  <2>2. UNCHANGED <<listenVars, global_isWaiting, main>>
    BY <1>3 DEF Seeks, NameNode, Switch, Access, OpenNode, OpenFails, CheckExit, Increment,
       Store, WrapX
  <2>3. global_x' \in Nat /\ global_comm' \in Nat /\ rx' \in Nat /\ rdwr' \in
          {"init", "switch", "access", "open", "reopen", "serve", "check", "load", "store",
           "wrap", "global_comm", "ended"}
    BY <1>3 DEF TypeOK, Seeks, Step, NameNode, Switch, Access, OpenNode, OpenFails, CheckExit,
       Increment, Store, WrapX
  <2> QED
    BY <1>1, <2>1, <2>2, <2>3 DEF TypeOK, listenVars
<1>4. CASE Serve
  BY <1>1, <1>4 DEF TypeOK, Serve, listenVars
<1>5. CASE Quit \/ PhoneLine
  BY <1>1, <1>5 DEF TypeOK, Quit, PhoneLine, Step, listenVars, rdwrVars
<1>6. CASE UNCHANGED vars
  BY <1>1, <1>6 DEF TypeOK, vars, listenVars, rdwrVars
<1> QED
  BY <1>2, <1>3, <1>4, <1>5, <1>6 DEF Next, th_RDWR

\* In every behaviour of the threads the shared variables keep their types;
\* in particular global_isWaiting is never a state that both threads ignore.
THEOREM TypeCorrect == Spec => []TypeOK
<1>1. TypeOK /\ [Next]_vars => TypeOK'
  BY NextType
<1> QED
  BY <1>1, InitType, PTL DEF Spec

-----------------------------------------------------------------------------
(* The bound on global_x.  A number at or past Wrap that th_RDWR stored is  *)
(* one it wraps next, so only th_Listen can leave one for th_RDWR to go on  *)
(* from; and th_Listen goes on only while comm, a number it read before,    *)
(* names a node, so is below Wrap.                                          *)

\* th_RDWR goes on from u at most, and gets one further before it wraps.
Reaches(u) ==
  /\ rdwr # "wrap" => global_x <= u
  /\ global_x <= u + 1
  /\ rdwr = "store" => rx <= u + 1

\* How far it has got, by the place of th_Listen.
Reached ==
  /\ listen \in {"loadComm", "storeComm"} => Reaches(Wrap - 1)
  /\ listen \in {"loadGlobal", "storeGlobal"} =>
       Reaches(Wrap + 1) /\ (comm < Wrap => Reaches(Wrap))
  /\ listen = "comm" => Reaches(Wrap + 4)
  /\ listen \in {"switch", "load", "global_comm", "cmd_listen"} =>
       Reaches(Wrap + 4) /\ (comm < Wrap => Reaches(Wrap + 2))

\* What th_Listen has loaded and not yet stored.
Loaded ==
  /\ listen = "storeComm" => lx <= Wrap
  /\ listen = "storeGlobal" => lx <= Wrap + 2 /\ (comm < Wrap => lx <= Wrap + 1)
  /\ listen = "load" => comm < Wrap /\ lx <= Wrap + 3

\* A low number to be stored by either thread leaves no high one with the other.
StaleIsLow ==
  /\ global_x < Wrap /\ rdwr = "store" => rx <= Wrap
  /\ listen \in {"storeComm", "storeGlobal", "load"} /\ lx < Wrap => Reaches(Wrap - 1)

PortsInv ==
  /\ Reached /\ Loaded /\ StaleIsLow
  /\ comm <= Wrap + 5 /\ global_comm <= Wrap + 5

LEMMA InitPorts == Init => PortsInv
<1> USE WrapAssumption DEF Init, PortsInv
<1>1. Init => Reached /\ Loaded /\ StaleIsLow
  BY DEF Reached, Reaches, Loaded, StaleIsLow
<1> QED
  BY <1>1

LEMMA ListenPorts ==
  ASSUME TypeOK, PortsInv, th_Listen
  PROVE  PortsInv'
<1> USE WrapAssumption DEF TypeOK, PortsInv, Reached, Reaches, Loaded, StaleIsLow, Step, rdwrVars
<1>1. CASE Name
  BY <1>1 DEF Name
<1>2. CASE NameComm
  BY <1>2 DEF NameComm
<1>3. CASE NameGlobal
  BY <1>3 DEF NameGlobal
<1>4. CASE FreeNode \/ CallListen \/ ListenReturns
  BY <1>4 DEF FreeNode, CallListen, ListenReturns
<1>5. CASE TakenNode
  <2>1. comm < Wrap
    BY <1>5, NodesAssumption DEF TakenNode, Exists
  <2> QED
    BY <1>5, <2>1 DEF TakenNode
<1>6. CASE NextNode
  BY <1>6 DEF NextNode
<1>7. CASE NextComm
  BY <1>7 DEF NextComm
<1>8. CASE NextGlobal
  BY <1>8 DEF NextGlobal
<1> QED
  BY <1>1, <1>2, <1>3, <1>4, <1>5, <1>6, <1>7, <1>8 DEF th_Listen

LEMMA SeeksPorts ==
  ASSUME TypeOK, PortsInv, Seeks
  PROVE  PortsInv'
<1> USE WrapAssumption DEF TypeOK, PortsInv, Reached, Reaches, Loaded, StaleIsLow, Step, listenVars
<1>1. CASE NameNode
  BY <1>1 DEF NameNode
<1>2. CASE Switch \/ Access \/ OpenNode \/ OpenFails \/ CheckExit
  BY <1>2 DEF Switch, Access, OpenNode, OpenFails, CheckExit
<1>3. CASE Increment
  BY <1>3 DEF Increment
<1>4. CASE Store
  BY <1>4 DEF Store
<1>5. CASE WrapX
  BY <1>5 DEF WrapX
<1> QED
  BY <1>1, <1>2, <1>3, <1>4, <1>5 DEF Seeks

LEMMA NextPorts ==
  ASSUME TypeOK, PortsInv, [Next]_vars
  PROVE  PortsInv'
<1> USE DEF PortsInv, Reached, Reaches, Loaded, StaleIsLow, listenVars, rdwrVars
<1>1. CASE Serve
  BY <1>1 DEF Serve
<1>2. CASE Quit \/ PhoneLine \/ UNCHANGED vars
  BY <1>2 DEF Quit, PhoneLine, vars
<1> QED
  BY <1>1, <1>2, ListenPorts, SeeksPorts DEF Next, th_RDWR

LEMMA PortsInvBounds == TypeOK /\ PortsInv => PortsBounded
  BY WrapAssumption DEF TypeOK, PortsInv, Reached, Reaches, PortsBounded

\* However the two threads interleave their unlocked increments, global_x and
\* the names made of it stay within five of Wrap: sprintf never meets a number
\* that does not fit comm.
THEOREM PortsStayBounded == Spec => []PortsBounded
<1>1. TypeOK /\ PortsInv /\ [Next]_vars => PortsInv'
  BY NextPorts
<1> QED
  BY <1>1, TypeCorrect, InitPorts, PortsInvBounds, PTL DEF Spec
=============================================================================
