-------------------------- MODULE CmdListenProofs --------------------------
(***************************************************************************)
(* Proofs about CmdListen, for any number of tries and of descriptors: the *)
(* channel is lost at most once and for good, and the call is what Line    *)
(* says it is.                                                             *)
(***************************************************************************)
EXTENDS CmdListen, TLAPS

LEMMA ListenInit == Init => TypeOK /\ ListenInv
<1> SUFFICES ASSUME Init PROVE TypeOK /\ ListenInv
  OBVIOUS
<1>1. TypeOK
  <2>1. try \in 0..Tries /\ heldSk \in Nat /\ heldNsk \in Nat
    BY TriesAssumption DEF Init
  <2>2. QED BY <2>1 DEF Init, TypeOK
<1>2. HeldByCall
  BY DEF Init, HeldByCall
<1>3. ChannelLostForGood
  BY FdsAssumption DEF Init, ChannelLostForGood, Used, Count
<1>4. QED BY <1>1, <1>2, <1>3 DEF ListenInv

LEMMA ListenTypeNext == TypeOK /\ [Next]_vars => TypeOK'
<1> SUFFICES ASSUME TypeOK, [Next]_vars PROVE TypeOK'
  OBVIOUS
<1> USE TriesAssumption DEF TypeOK, callVars, heldVars, DropCaller
<1>1. CASE Socket \/ Bind \/ BindFails
  BY <1>1 DEF Socket, Bind, BindFails
<1>2. CASE Accept \/ AcceptFails
  <2>1. heldSk' \in Nat /\ heldNsk' = heldNsk /\ try' = try
    BY <1>2 DEF Accept, AcceptFails
  <2>2. QED BY <1>2, <2>1 DEF Accept, AcceptFails
<1>3. CASE CreateDev \/ CreateDevFails
  <2>1. heldNsk' \in Nat /\ heldSk' = heldSk /\ try' \in 0..Tries
    BY <1>3 DEF CreateDev, CreateDevFails
  <2>2. QED BY <1>3, <2>1 DEF CreateDev, CreateDevFails
<1>4. CASE OpenTty
  BY <1>4 DEF OpenTty
<1>5. CASE OpenAgain \/ Release
  <2>1. heldNsk' \in Nat /\ heldSk' = heldSk /\ try' \in 0..Tries
    BY <1>5 DEF OpenAgain, Release
  <2>2. QED BY <1>5, <2>1 DEF OpenAgain, Release
<1>6. CASE TestCanceled \/ PollReturns \/ CloseTty
  BY <1>6 DEF TestCanceled, PollReturns, CloseTty
<1>7. CASE Call \/ HangUp \/ CtrlC \/ Vanish
  BY <1>7 DEF Call, HangUp, CtrlC, Vanish
<1>8. CASE ReaderOpen \/ ReaderClose
  BY <1>8 DEF ReaderOpen, ReaderClose
<1>9. CASE UNCHANGED vars
  BY <1>9 DEF vars
<1>10. QED
  BY <1>1, <1>2, <1>3, <1>4, <1>5, <1>6, <1>7, <1>8, <1>9 DEF Next, Listener

LEMMA HeldNext == TypeOK /\ HeldByCall /\ [Next]_vars => HeldByCall'
<1> SUFFICES ASSUME TypeOK, HeldByCall, [Next]_vars PROVE HeldByCall'
  OBVIOUS
<1> USE DEF TypeOK, HeldByCall, callVars, heldVars
<1>1. CASE Socket \/ Bind \/ BindFails
  BY <1>1 DEF Socket, Bind, BindFails
<1>2. CASE Accept \/ AcceptFails
  BY <1>2 DEF Accept, AcceptFails
<1>3. CASE CreateDev \/ CreateDevFails
  BY <1>3 DEF CreateDev, CreateDevFails
<1>4. CASE OpenTty
  BY <1>4 DEF OpenTty
<1>5. CASE OpenAgain \/ Release
  BY <1>5 DEF OpenAgain, Release
<1>6. CASE TestCanceled \/ PollReturns \/ CloseTty
  BY <1>6 DEF TestCanceled, PollReturns, CloseTty
<1>7. CASE Call \/ HangUp \/ CtrlC \/ Vanish
  BY <1>7 DEF Call, HangUp, CtrlC, Vanish
<1>8. CASE ReaderOpen \/ ReaderClose
  BY <1>8 DEF ReaderOpen, ReaderClose
<1>9. CASE UNCHANGED vars
  BY <1>9 DEF vars
<1>10. QED
  BY <1>1, <1>2, <1>3, <1>4, <1>5, <1>6, <1>7, <1>8, <1>9 DEF Next, Listener

\* Every step but these four uses no descriptor more and loses no channel.
LEMMA ChannelNext ==
  TypeOK /\ ListenInv /\ [Next]_vars => ChannelLostForGood'
<1> SUFFICES ASSUME TypeOK, ListenInv, [Next]_vars PROVE ChannelLostForGood'
  OBVIOUS
<1> USE FdsAssumption
    DEF TypeOK, ListenInv, HeldByCall, ChannelLostForGood, Used, Count, callVars, heldVars
<1>1. CASE Socket \/ Bind \/ BindFails
  BY <1>1 DEF Socket, Bind, BindFails
<1>2. CASE Accept
  BY <1>2 DEF Accept
<1>3. CASE AcceptFails
  BY <1>3 DEF AcceptFails
<1>4. CASE CreateDev \/ CreateDevFails
  BY <1>4 DEF CreateDev, CreateDevFails
<1>5. CASE OpenTty
  BY <1>5 DEF OpenTty
<1>6. CASE OpenAgain \/ Release
  BY <1>6 DEF OpenAgain, Release
<1>7. CASE TestCanceled \/ PollReturns \/ CloseTty
  BY <1>7 DEF TestCanceled, PollReturns, CloseTty
<1>8. CASE Call \/ HangUp \/ CtrlC \/ Vanish
  BY <1>8 DEF Call, HangUp, CtrlC, Vanish
<1>9. CASE ReaderOpen \/ ReaderClose
  BY <1>9 DEF ReaderOpen, ReaderClose
<1>10. CASE UNCHANGED vars
  BY <1>10 DEF vars
<1>11. QED
  BY <1>1, <1>2, <1>3, <1>4, <1>5, <1>6, <1>7, <1>8, <1>9, <1>10 DEF Next, Listener

\* The variables of cmd_listen keep their types on every one of its paths, for
\* any number of tries of the open and of descriptors of the process.
THEOREM TypeCorrect == Spec => []TypeOK
<1>1. Init => TypeOK
  BY ListenInit
<1>2. TypeOK /\ [Next]_vars => TypeOK'
  BY ListenTypeNext
<1>3. QED BY <1>1, <1>2, PTL DEF Spec

\* A failed accept loses the channel (cmd_listen closes the wrong descriptor
\* when getsockname fails): once, for good, and only after a first phone was
\* attached or when lost connections have eaten the descriptors.
THEOREM ChannelLost == Spec => []ChannelLostForGood
<1>1. Init => TypeOK /\ ListenInv
  BY ListenInit
<1>2. TypeOK /\ ListenInv /\ [Next]_vars => (TypeOK /\ ListenInv)'
  BY ListenTypeNext, HeldNext, ChannelNext DEF ListenInv
<1>3. ListenInv => ChannelLostForGood
  BY DEF ListenInv
<1>4. QED BY <1>1, <1>2, <1>3, PTL DEF Spec

-----------------------------------------------------------------------------
(* The refinement of Line. *)

LEMMA LineStep ==
  TypeOK /\ HeldByCall /\ [Next]_vars => [LineSeen!LineNext]_(LineSeen!lineVars)
<1> SUFFICES ASSUME TypeOK, HeldByCall, [Next]_vars
             PROVE  LineSeen!LineNext \/ UNCHANGED LineSeen!lineVars
  OBVIOUS
<1> USE DEF TypeOK, HeldByCall, callVars, heldVars, LineSeen!lineVars, LineSeen!LineNext
<1>1. CASE Socket
  <2>1. LineSeen!Enter
    BY <1>1 DEF Socket, LineSeen!Enter
  <2>2. QED BY <2>1
<1>2. CASE Bind \/ Accept \/ OpenAgain
  BY <1>2 DEF Bind, Accept, OpenAgain
<1>3. CASE BindFails \/ AcceptFails \/ CreateDevFails \/ Release
  <2>1. LineSeen!Fail
    BY <1>3 DEF BindFails, AcceptFails, CreateDevFails, Release, LineSeen!Fail
  <2>2. QED BY <2>1
<1>4. CASE CreateDev
  <2>1. LineSeen!Create
    BY <1>4 DEF CreateDev, LineSeen!Create
  <2>2. QED BY <2>1
<1>5. CASE OpenTty
  <2>1. LineSeen!Attach
    BY <1>5 DEF OpenTty, LineSeen!Attach
  <2>2. QED BY <2>1
<1>6. CASE TestCanceled \/ PollReturns \/ CtrlC \/ Call
  BY <1>6 DEF TestCanceled, PollReturns, CtrlC, Call
<1>7. CASE CloseTty
  <2>1. LineSeen!Leave
    BY <1>7 DEF CloseTty, LineSeen!Leave
  <2>2. QED BY <2>1
<1>8. CASE HangUp
  <2>1. CASE tty = "live"
    <3>1. LineSeen!HangUp
      BY <1>8, <2>1 DEF HangUp, LineSeen!HangUp
    <3>2. QED BY <3>1
  <2>2. CASE tty # "live"
    <3>1. tty' = tty /\ fd' = fd /\ pc' = pc
      BY <1>8, <2>2 DEF HangUp
    <3>2. reader' = reader
      BY <1>8, <2>2 DEF HangUp
    <3>3. QED BY <3>1, <3>2
  <2>3. QED BY <2>1, <2>2
<1>9. CASE Vanish
  <2>1. LineSeen!Vanish
    BY <1>9 DEF Vanish, LineSeen!Vanish
  <2>2. QED BY <2>1
<1>10. CASE ReaderOpen
  <2>1. LineSeen!ReaderOpen
    BY <1>10 DEF ReaderOpen, LineSeen!ReaderOpen
  <2>2. QED BY <2>1
<1>11. CASE ReaderClose
  <2>1. LineSeen!ReaderClose
    BY <1>11 DEF ReaderClose, LineSeen!ReaderClose
  <2>2. QED BY <2>1
<1>12. CASE UNCHANGED vars
  BY <1>12 DEF vars
<1>13. QED
  BY <1>1, <1>2, <1>3, <1>4, <1>5, <1>6, <1>7, <1>8, <1>9, <1>10, <1>11, <1>12
  DEF Next, Listener

\* Every behaviour of the real call, with all its error paths, is one the
\* Line allows.
THEOREM ListenIsLine == Spec => ImplementsLine
<1>1. Init => TypeOK /\ HeldByCall /\ LineSeen!LineInit
  BY ListenInit DEF ListenInv, Init, LineSeen!LineInit
<1>2. TypeOK /\ HeldByCall /\ [Next]_vars => (TypeOK /\ HeldByCall)'
  BY ListenTypeNext, HeldNext
<1>3. QED BY <1>1, <1>2, LineStep, PTL DEF Spec, ImplementsLine, LineSeen!LineSpec
=============================================================================
