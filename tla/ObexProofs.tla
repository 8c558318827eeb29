----------------------------- MODULE ObexProofs -----------------------------
(***************************************************************************)
(* Proofs about Obex, for every bound: types, the answer a wait ends with, *)
(* the file a push streams, and the handshake with the phone.              *)
(***************************************************************************)
EXTENDS Obex, SequenceTheorems, TLAPS

USE DEF setVars, openVars, ttyVars, doneVars, fileVars, phoneVars

-----------------------------------------------------------------------------
(* Types.  A phone that is not an R320 is sent OBEX packets only. *)

Quiet == (Commands \union {"body", "end"}) \X Nat

PacketsOnly == ~r320 => inbox \in Seq(Quiet)

TypeInv == TypeOK /\ PacketsOnly

\* What is written to a phone that is not an R320.
LEMMA WriteQuiet ==
  ASSUME PacketsOnly, ~r320, UNCHANGED r320, NEW m \in Quiet, Write(m)
  PROVE  PacketsOnly'
  BY AppendProperties DEF PacketsOnly, Write

LEMMA ConnectType ==
  ASSUME TypeInv, NEW next \in {"connected", "serve"},
         CobexConnect(next) \/ CobexInit(next)
  PROVE  TypeInv'
<1>1. opened' \in 0 .. MaxOpens
  BY BoundsAssumption DEF TypeInv, TypeOK, CobexConnect, CobexInit
<1>2. UNCHANGED <<program, r320, fileVars, request, phoneVars, asked, clientdone, stale>>
  BY DEF CobexConnect, CobexInit, Connected
<1>3. serverdone' \in BOOLEAN /\ mixed' \in BOOLEAN /\ then' \in {"connected", "serve"}
  BY Zenon DEF TypeInv, TypeOK, CobexConnect, CobexInit, Connected
<1>4. /\ doing' \in {"connected", "serve", "atz"}
      /\ tty' \in {"open", "dead"} /\ (doing' = "atz" => r320)
      /\ tty' # "open" => line' = <<>>
  BY DEF TypeInv, TypeOK, CobexConnect, CobexInit, Connected
<1>5. TypeOK'
  BY <1>1, <1>2, <1>3, <1>4 DEF TypeInv, TypeOK
<1>6. PacketsOnly'
  BY <1>2 DEF TypeInv, PacketsOnly, CobexConnect, CobexInit
<1> QED
  BY <1>5, <1>6 DEF TypeInv

LEMMA CableType ==
  ASSUME TypeInv, cable
  PROVE  TypeInv'
<1>1. r320 /\ UNCHANGED r320
  BY DEF TypeInv, TypeOK, cable, AtzDone, EobexDone, CobexCleanup, NotAnswered
<1>2. TypeOK'
  BY <1>1 DEF TypeInv, TypeOK, cable, AtzDone, EobexDone, CobexCleanup, NotAnswered,
     CobexDoAtCmd, Connected, TransportDisconnect
<1> QED
  BY <1>1, <1>2 DEF TypeInv, PacketsOnly

LEMMA RequestType ==
  ASSUME TypeInv, NEW cmd \in Commands,
         Request(cmd) \/ RequestRefused(cmd) \/ RequestLinkErr(cmd)
  PROVE  TypeInv'
<1>1. fileDesc' \in 0 .. MaxRequests /\ asked' \in 0 .. MaxRequests
  <2>1. Asks(cmd)
    BY DEF Request, RequestRefused, RequestLinkErr
  <2>2. asked \in 0 .. MaxRequests /\ fileDesc \in 0 .. MaxRequests
    BY DEF TypeInv, TypeOK
  <2>3. asked + 1 \in 0 .. MaxRequests
    BY <2>1, <2>2, BoundsAssumption DEF Asks
  <2> QED
    BY <2>1, <2>2, <2>3 DEF Asks
<1>2. refused' \in BOOLEAN
  BY DEF TypeInv, TypeOK, Request, RequestRefused, RequestLinkErr
<1>3. CASE Request(cmd)
  <2>1. request' \in [cmd : Commands, file : 0 .. MaxRequests]
    BY <1>3, BoundsAssumption DEF TypeInv, TypeOK, Request, Asks
  <2>2. TypeOK'
    BY <1>1, <1>2, <1>3, <2>1 DEF TypeInv, TypeOK, Request
  <2>3. ~r320 => PacketsOnly'
    <3>1. <<cmd, opened>> \in Quiet
      <4>1. opened \in Nat
        BY BoundsAssumption DEF TypeInv, TypeOK
      <4> QED
        BY <4>1 DEF Quiet
    <3> QED
      BY <1>3, <3>1, WriteQuiet DEF TypeInv, Request
  <2> QED
    BY <1>3, <2>2, <2>3 DEF TypeInv, PacketsOnly, Request
<1>4. CASE RequestRefused(cmd) \/ RequestLinkErr(cmd)
  <2>1. TypeOK'
    BY <1>1, <1>2, <1>4 DEF TypeInv, TypeOK, RequestRefused, RequestLinkErr,
       TransportDisconnect
  <2> QED
    BY <1>4, <2>1 DEF TypeInv, PacketsOnly, RequestRefused, RequestLinkErr
<1> QED
  BY <1>3, <1>4

LEMMA HandleInputType ==
  ASSUME TypeInv, HandleInput
  PROVE  TypeInv'
<1>1. CASE ClientDone \/ ServerRequest \/ PassOver
  <2>1. UNCHANGED <<setVars, doing, openVars, fileVars, inbox, phoneVars, asked>>
    BY <1>1 DEF ClientDone, ServerRequest, PassOver
  <2>2. clientdone' \in BOOLEAN /\ serverdone' \in BOOLEAN /\ stale' \in BOOLEAN
    BY <1>1, Zenon DEF TypeInv, TypeOK, ClientDone, ServerRequest, PassOver
  <2>3. tty' \in {"closed", "open"} /\ (tty' # "open" => line' = <<>>) /\ doing \in {"wait", "serve"}
    BY <1>1 DEF ClientDone, ServerRequest, PassOver, Handling, TransportDisconnect
  <2>4. request' \in {request, NoRequest}
    BY <1>1 DEF ClientDone, ServerRequest, PassOver
  <2>5. TypeOK'
    BY <2>1, <2>2, <2>3, <2>4 DEF TypeInv, TypeOK
  <2> QED
    BY <2>1, <2>5 DEF TypeInv, PacketsOnly
<1>2. CASE Fillstream \/ FillstreamEnd \/ FillstreamError
  <2>1. request' \in [cmd : Commands, file : 0 .. MaxRequests] \union {NoRequest}
    BY <1>2, BoundsAssumption DEF TypeInv, TypeOK, Streams, Fillstream, FillstreamEnd, FillstreamError, NoRequest
  <2>2. TypeOK'
    BY <1>2, <2>1, BoundsAssumption DEF TypeInv, TypeOK, Streams, Fillstream, FillstreamEnd, FillstreamError,
       Handling
  <2>3. ~r320 => PacketsOnly'
    <3>1. <<"body", opened>> \in Quiet /\ <<"end", opened>> \in Quiet
      <4>1. opened \in Nat
        BY BoundsAssumption DEF TypeInv, TypeOK
      <4> QED
        BY <4>1 DEF Quiet
    <3> QED
      BY <1>2, <3>1, WriteQuiet DEF TypeInv, Streams, Fillstream, FillstreamEnd, FillstreamError
  <2> QED
    BY <1>2, <2>2, <2>3 DEF TypeInv, PacketsOnly, Streams, Fillstream, FillstreamEnd, FillstreamError
<1> QED
  BY <1>1, <1>2 DEF HandleInput

LEMMA PhoneType ==
  ASSUME TypeInv, PhoneReads \/ PhoneAsks \/ CableOff
  PROVE  TypeInv'
<1>1. CASE PhoneReads
  <2>1. ~r320 => Head(inbox) \in Quiet /\ Tail(inbox) \in Seq(Quiet)
    BY <1>1, HeadTailProperties DEF TypeInv, PacketsOnly, PhoneReads
  <2>2. phone' \in {"at", "obex", "left"} /\ (~r320 => phone' = "obex")
    BY <1>1, <2>1 DEF TypeInv, TypeOK, PhoneReads, Quiet, Commands
  <2>3. tty # "open" => line' = line
    BY <1>1 DEF PhoneReads, Answers
  <2> QED
    BY <1>1, <2>1, <2>2, <2>3 DEF TypeInv, TypeOK, PacketsOnly, PhoneReads
<1>2. CASE PhoneAsks
  BY <1>2, BoundsAssumption DEF TypeInv, TypeOK, PacketsOnly, PhoneAsks
<1>3. CASE CableOff
  BY <1>3 DEF TypeInv, TypeOK, PacketsOnly, CableOff
<1> QED
  BY <1>1, <1>2, <1>3

LEMMA NextType ==
  ASSUME TypeInv, [Next]_vars
  PROVE  TypeInv'
<1>1. CASE ConnectGivenUp \/ client \/ SyncwaitError \/ ObexRecvFile \/ ServerDoEnds \/ Quit
  <2>1. UNCHANGED <<setVars, openVars, fileVars, request, inbox, phoneVars, asked>>
    BY <1>1 DEF ConnectGivenUp, client, SyncwaitDone, SyncwaitNoFd, SyncwaitError,
       ObexRecvFile, ServerDoEnds, Quit
  <2>2. clientdone' \in BOOLEAN /\ serverdone' \in BOOLEAN /\ stale' \in BOOLEAN
    BY <1>1, Zenon DEF TypeInv, TypeOK, ConnectGivenUp, client, SyncwaitDone, SyncwaitNoFd,
       SyncwaitError, ObexRecvFile, ServerDoEnds, Quit, Connected
  <2>3. /\ tty' \in {"closed", "open", "dead"} /\ (tty' # "open" => line' = <<>>)
        /\ doing' \in {"prompt", "serve", "end"}
    BY <1>1 DEF TypeInv, TypeOK, ConnectGivenUp, client, SyncwaitDone, SyncwaitNoFd,
       SyncwaitError, ObexRecvFile, ServerDoEnds, Quit, Connected, TransportDisconnect
  <2>4. TypeOK'
    BY <2>1, <2>2, <2>3 DEF TypeInv, TypeOK
  <2> QED
    BY <2>1, <2>4 DEF TypeInv, PacketsOnly
<1>2. CASE UNCHANGED vars
  BY <1>2 DEF TypeInv, TypeOK, PacketsOnly, vars
<1>3. CASE PushOpenFails
  <2>1. fileDesc' \in 0 .. MaxRequests
    BY <1>3, BoundsAssumption DEF PushOpenFails
  <2> QED
    BY <1>3, <2>1 DEF TypeInv, TypeOK, PacketsOnly, PushOpenFails
<1> QED
  BY <1>1, <1>2, <1>3, ConnectType, CableType, RequestType, HandleInputType, PhoneType DEF Next

LEMMA InitType ==
  ASSUME Init
  PROVE  TypeInv
<1>1. /\ clientdone \in BOOLEAN /\ serverdone \in BOOLEAN /\ r320 \in BOOLEAN
      /\ stale \in BOOLEAN /\ mixed \in BOOLEAN /\ refused \in BOOLEAN
  BY Zenon DEF Init
<1>2. asked \in 0 .. MaxRequests /\ fileDesc \in 0 .. MaxRequests
        /\ opened \in 0 .. MaxOpens /\ asks \in 0 .. MaxAsked
  BY BoundsAssumption DEF Init
<1>3. TypeOK
  BY <1>1, <1>2 DEF Init, TypeOK
<1> QED
  BY <1>3 DEF Init, TypeInv, PacketsOnly

\* The types of all variables, for every bound.
THEOREM TypeCorrect == Spec => []TypeOK
  BY InitType, NextType, PTL DEF Spec, TypeInv

-----------------------------------------------------------------------------
(* The answer of a wait. *)

\* clientdone is TRUE only in a wait whose request is finished, or because of
\* an answer that nobody waited for.
DoneInv == clientdone => stale \/ (doing = "wait" /\ request = NoRequest)

LEMMA DoneStep ==
  ASSUME DoneInv, [Next]_vars
  PROVE  DoneInv'
<1>1. CASE client \/ SyncwaitError
  BY <1>1 DEF DoneInv, client, SyncwaitDone, SyncwaitNoFd, SyncwaitError
<1>2. CASE HandleInput
  BY <1>2 DEF DoneInv, HandleInput, ClientDone, Fillstream, FillstreamEnd, FillstreamError, Streams,
     ServerRequest, PassOver, Handling
<1>3. ASSUME NEW cmd \in Commands,
             Request(cmd) \/ RequestRefused(cmd) \/ RequestLinkErr(cmd)
      PROVE  DoneInv'
  BY <1>3 DEF DoneInv, Request, RequestRefused, RequestLinkErr, Asks
<1>4. CASE \/ \E next \in {"connected", "serve"} : CobexConnect(next) \/ CobexInit(next)
           \/ cable
  BY <1>4 DEF DoneInv, CobexConnect, CobexInit, Connected, cable, AtzDone, EobexDone,
     CobexCleanup, NotAnswered
<1>5. CASE PushOpenFails \/ ConnectGivenUp \/ ObexRecvFile \/ ServerDoEnds \/ Quit
  BY <1>5 DEF DoneInv, PushOpenFails, ConnectGivenUp, ObexRecvFile, ServerDoEnds, Quit, Connected
<1>6. CASE PhoneReads \/ PhoneAsks \/ CableOff \/ UNCHANGED vars
  BY <1>6 DEF DoneInv, PhoneReads, PhoneAsks, CableOff, vars
<1> QED
  BY <1>1, <1>2, <1>3, <1>4, <1>5, <1>6 DEF Next

\* A wait ends with its own answer, or a late answer came before it.
THEOREM OwnAnswerCorrect == Spec => OwnAnswer
<1>1. Init => DoneInv
  BY DEF Init, DoneInv
<1>2. DoneInv /\ [Next]_vars =>
        [doing = "wait" /\ clientdone /\ doing' = "prompt" => request = NoRequest \/ stale]_vars
  BY DEF DoneInv
<1> QED
  BY <1>1, <1>2, DoneStep, PTL DEF Spec, OwnAnswer

-----------------------------------------------------------------------------
(* The file of a push. *)

LEMMA StreamStep ==
  ASSUME TypeOK, StreamsItsFile, [Next]_vars
  PROVE  StreamsItsFile'
<1>1. ASSUME NEW cmd \in Commands,
             Request(cmd) \/ RequestRefused(cmd) \/ RequestLinkErr(cmd)
      PROVE  StreamsItsFile'
  <2>1. asked + 1 # 0
    BY DEF TypeOK
  <2>2. CASE Request(cmd)
    BY <2>1, <2>2 DEF StreamsItsFile, Request, Asks
  <2>3. CASE RequestRefused(cmd)
    BY <2>1, <2>3 DEF StreamsItsFile, RequestRefused, Asks
  <2>4. CASE RequestLinkErr(cmd)
    BY <2>4 DEF StreamsItsFile, RequestLinkErr, NoRequest
  <2> QED
    BY <1>1, <2>2, <2>3, <2>4
<1>2. CASE HandleInput
  <2>1. CASE FillstreamEnd
    <3>1. request'.file = 0
      BY <2>1 DEF TypeOK, FillstreamEnd, NoRequest
    <3> QED
      BY <3>1 DEF StreamsItsFile
  <2>2. CASE ClientDone \/ Fillstream \/ FillstreamError \/ ServerRequest \/ PassOver
    BY <2>2 DEF StreamsItsFile, ClientDone, Fillstream, FillstreamError, Streams, ServerRequest,
       PassOver, NoRequest
  <2> QED
    BY <1>2, <2>1, <2>2 DEF HandleInput
<1>3. CASE \/ \E next \in {"connected", "serve"} : CobexConnect(next) \/ CobexInit(next)
           \/ cable \/ client \/ SyncwaitError
  BY <1>3 DEF StreamsItsFile, CobexConnect, CobexInit, cable, AtzDone, EobexDone, CobexCleanup,
     client, SyncwaitDone, SyncwaitNoFd, SyncwaitError
<1>4. CASE \/ PushOpenFails \/ ConnectGivenUp \/ ObexRecvFile \/ ServerDoEnds \/ Quit
           \/ PhoneReads \/ PhoneAsks \/ CableOff \/ UNCHANGED vars
  BY <1>4 DEF StreamsItsFile, PushOpenFails, ConnectGivenUp, ObexRecvFile, ServerDoEnds, Quit, PhoneReads,
     PhoneAsks, CableOff, vars
<1> QED
  BY <1>1, <1>2, <1>3, <1>4 DEF Next

\* A push streams its own file or, after an error, nothing, unless another push
\* was refused meanwhile.
THEOREM StreamsItsFileCorrect == Spec => []StreamsItsFile
<1>1. Init => StreamsItsFile
  BY DEF Init, StreamsItsFile, NoRequest
<1> QED
  BY <1>1, StreamStep, TypeCorrect, PTL DEF Spec

\* The end of a stream comes from the file of its push only.
LEMMA EndsStep ==
  ASSUME TypeOK, StreamsItsFile, [Next]_vars,
         request.file # 0, request' # NoRequest, request'.file = 0
  PROVE  fileDesc = request.file \/ refused
<1>1. request # NoRequest /\ request' # request
  BY DEF NoRequest
<1>2. FillstreamEnd
  <2>1. CASE HandleInput
    BY <1>1, <2>1 DEF HandleInput, ClientDone, Fillstream, FillstreamError, Streams,
       ServerRequest, PassOver
  <2>2. ~ \E cmd \in Commands : Request(cmd) \/ RequestRefused(cmd) \/ RequestLinkErr(cmd)
    BY <1>1 DEF Request, RequestRefused, RequestLinkErr
  <2>3. ~ \E next \in {"connected", "serve"} : CobexConnect(next) \/ CobexInit(next)
    BY <1>1 DEF CobexConnect, CobexInit
  <2>4. ~(cable \/ client \/ SyncwaitError)
    BY <1>1 DEF cable, AtzDone, EobexDone, CobexCleanup, client, SyncwaitDone, SyncwaitNoFd,
       SyncwaitError
  <2>5. ~(\/ PushOpenFails \/ ConnectGivenUp \/ ObexRecvFile \/ ServerDoEnds \/ Quit
          \/ PhoneReads \/ PhoneAsks \/ CableOff \/ UNCHANGED vars)
    BY <1>1 DEF PushOpenFails, ConnectGivenUp, ObexRecvFile, ServerDoEnds, Quit, PhoneReads,
       PhoneAsks, CableOff, vars
  <2> QED
    BY <2>1, <2>2, <2>3, <2>4, <2>5 DEF Next
<1> QED
  BY <1>2 DEF StreamsItsFile, FillstreamEnd

\* A push that has lost its file is not passed for complete, unless another
\* push was refused and has put its own file in the place.
THEOREM EndsOnItsFileCorrect == Spec => EndsOnItsFile
<1>1. TypeOK /\ StreamsItsFile /\ [Next]_vars =>
        [request.file # 0 /\ request' # NoRequest /\ request'.file = 0
           => fileDesc = request.file \/ refused]_vars
  BY EndsStep
<1> QED
  BY <1>1, TypeCorrect, StreamsItsFileCorrect, PTL DEF Spec, EndsOnItsFile

-----------------------------------------------------------------------------
(* The handshake of an R320.  Commands are read in the order of writing, so *)
(* a CONNECT that belongs to this opening says that nothing is left of it   *)
(* to read, nor of an earlier one.                                          *)

Sends   == Commands \union {"ATZ", "EOBEX", "break", "body", "end"}
Replies == {"OK", "CONNECT", "ERROR", "done", "continue", "ask", "askDisconnect"}

Marked ==
  /\ inbox \in Seq(Sends \X (0 .. opened))
  /\ line \in Seq(Replies \X (0 .. opened))

\* No command of this opening but ATZ was written, so no CONNECT is its answer.
AtzInv ==
  tty = "open" /\ doing = "atz" =>
    /\ \A x \in DOMAIN inbox : inbox[x][2] = opened => inbox[x][1] = "ATZ"
    /\ \A y \in DOMAIN line : line[y] # <<"CONNECT", opened>>

\* EOBEX is the last that was written; its answer shows that all was read.
EobexInv ==
  tty = "open" /\ doing = "eobex" =>
    /\ \A x \in DOMAIN inbox : inbox[x][2] = opened =>
         inbox[x][1] = "ATZ" \/ (inbox[x][1] = "EOBEX" /\ x = Len(inbox))
    /\ \A y \in DOMAIN line : line[y] = <<"CONNECT", opened>> => inbox = <<>> /\ phone # "at"

\* What the phone has yet to read does not take it out of OBEX mode.
ObexInv ==
  tty = "open" /\ doing \notin {"atz", "eobex"} /\ ~mixed =>
    /\ phone # "at"
    /\ \A x \in DOMAIN inbox : inbox[x][1] \notin {"ATZ", "EOBEX", "break"}

HandshakeInv ==
  /\ Marked /\ AtzInv /\ EobexInv /\ ObexInv
  /\ doing = "start" => ~r320

\* An element of a queue stays, moves up by one place, or is the new one.
LEMMA Appended ==
  ASSUME NEW S, NEW q \in Seq(S), NEW m \in S
  PROVE  /\ Append(q, m) \in Seq(S) /\ Len(Append(q, m)) = Len(q) + 1
         /\ \A x \in DOMAIN Append(q, m) :
              \/ x \in DOMAIN q /\ Append(q, m)[x] = q[x]
              \/ x = Len(Append(q, m)) /\ Append(q, m)[x] = m
  BY AppendProperties

LEMMA Extended ==
  ASSUME NEW S, NEW q \in Seq(S), NEW more \in Seq(S)
  PROVE  /\ q \o more \in Seq(S)
         /\ \A y \in DOMAIN (q \o more) : \/ y \in DOMAIN q /\ (q \o more)[y] = q[y]
                                         \/ \E z \in DOMAIN more : (q \o more)[y] = more[z]
<1>1. q \o more \in Seq(S) /\ Len(q \o more) = Len(q) + Len(more)
  BY ConcatProperties
<1>2. \A y \in 1 .. Len(q) + Len(more) :
        (q \o more)[y] = IF y <= Len(q) THEN q[y] ELSE more[y - Len(q)]
  BY ConcatProperties
<1>3. Len(q) \in Nat /\ Len(more) \in Nat
  BY LenProperties
<1>4. ASSUME NEW y \in 1 .. Len(q) + Len(more)
      PROVE  y \in 1 .. Len(q) \/ y - Len(q) \in 1 .. Len(more)
  BY <1>3
<1> QED
  BY <1>1, <1>2, <1>3, <1>4, LenProperties

LEMMA Taken ==
  ASSUME NEW S, NEW q \in Seq(S), q # <<>>
  PROVE  /\ Head(q) = q[1] /\ 1 \in DOMAIN q /\ q[1] \in S
         /\ Tail(q) \in Seq(S) /\ Len(Tail(q)) = Len(q) - 1
         /\ \A x \in DOMAIN Tail(q) : x + 1 \in DOMAIN q /\ Tail(q)[x] = q[x + 1]
<1>1. q[1] \in S /\ 1 \in DOMAIN q
  BY EmptySeq, ElementOfSeq
<1>2. Tail(q) \in Seq(S) /\ Len(Tail(q)) = Len(q) - 1
  BY HeadTailProperties
<1>3. \A x \in DOMAIN Tail(q) : x + 1 \in DOMAIN q /\ Tail(q)[x] = q[x + 1]
  BY <1>2, HeadTailProperties
<1> QED
  BY <1>1, <1>2, <1>3, HeadTailProperties

LineShrinks == line' = line \/ line' = <<>> \/ (line # <<>> /\ line' = Tail(line))

LEMMA ShorterLine ==
  ASSUME Marked, LineShrinks, opened' = opened
  PROVE  /\ line' \in Seq(Replies \X (0 .. opened'))
         /\ \A y \in DOMAIN line' : \E z \in DOMAIN line : line'[y] = line[z]
<1>1. CASE line' = line
  BY <1>1 DEF Marked
<1>2. CASE line' = <<>>
  BY <1>2
<1>3. CASE line # <<>> /\ line' = Tail(line)
  BY <1>3, Taken DEF Marked
<1> QED
  BY <1>1, <1>2, <1>3 DEF LineShrinks

\* Outside the handshake the program writes packets only.
LEMMA PacketStep ==
  ASSUME TypeInv, HandshakeInv,
         doing \notin {"atz", "eobex"}, doing' \notin {"atz", "eobex", "start"},
         UNCHANGED <<phone, opened, mixed>>, tty' = "open" => tty = "open", LineShrinks,
         inbox' = inbox \/ \E kind \in Commands \union {"body", "end"} : Write(<<kind, opened>>)
  PROVE  HandshakeInv'
<1>1. line' \in Seq(Replies \X (0 .. opened'))
  BY ShorterLine DEF HandshakeInv
<1>2. inbox \in Seq(Sends \X (0 .. opened)) /\ opened \in Nat
  BY BoundsAssumption DEF HandshakeInv, Marked, TypeInv, TypeOK
<1>3. CASE inbox' = inbox
  BY <1>1, <1>2, <1>3 DEF HandshakeInv, Marked, AtzInv, EobexInv, ObexInv
<1>4. ASSUME NEW kind \in Commands \union {"body", "end"}, Write(<<kind, opened>>)
      PROVE  HandshakeInv'
  <2>1. kind \notin {"ATZ", "EOBEX", "break"} /\ <<kind, opened>> \in Sends \X (0 .. opened)
    BY <1>2, <1>4 DEF Commands, Sends
  <2>2. Marked'
    BY <1>1, <1>2, <1>4, <2>1, Appended DEF Marked, Write
  <2>3. ASSUME ObexInv, tty = "open", ~mixed
        PROVE  \A x \in DOMAIN inbox' : inbox'[x][1] \notin {"ATZ", "EOBEX", "break"}
    BY <1>2, <1>4, <2>1, <2>3, Appended DEF ObexInv, Write
  <2>4. ObexInv'
    BY <2>3 DEF HandshakeInv, ObexInv
  <2> QED
    BY <2>2, <2>4 DEF HandshakeInv, AtzInv, EobexInv
<1> QED
  BY <1>3, <1>4

LEMMA InitHandshake ==
  ASSUME TypeInv, HandshakeInv, NEW next \in {"connected", "serve"}, CobexInit(next)
  PROVE  HandshakeInv'
<1>1. /\ opened \in Nat /\ opened' = opened + 1 /\ line' = <<>> /\ doing' # "start"
      /\ UNCHANGED <<r320, phone>> /\ tty' = "open"
  <2>1. opened' = opened + 1 /\ line' = <<>> /\ UNCHANGED <<r320, phone>> /\ tty' = "open"
    BY Zenon DEF CobexInit
  <2>2. doing' \in {"connected", "serve", "atz"}
    BY Zenon DEF CobexInit, Connected
  <2> QED
    BY <2>1, <2>2, BoundsAssumption DEF TypeInv, TypeOK
<1>2. inbox \in Seq(Sends \X (0 .. opened)) /\ inbox \in Seq(Sends \X (0 .. opened'))
  <2>1. Sends \X (0 .. opened) \subseteq Sends \X (0 .. opened')
    BY <1>1
  <2> QED
    BY <2>1, SeqMonotonic DEF HandshakeInv, Marked
<1>3. \A x \in DOMAIN inbox : inbox[x][2] # opened'
  <2>1. \A x \in DOMAIN inbox : inbox[x] \in Sends \X (0 .. opened)
    BY <1>2, ElementOfSeq
  <2> QED
    BY <1>1, <2>1
<1>4. CASE r320
  <2>1. doing' = "atz" /\ inbox' = Append(inbox, <<"ATZ", opened'>>)
    BY <1>1, <1>4 DEF CobexInit, Write
  <2>2. <<"ATZ", opened'>> \in Sends \X (0 .. opened')
    BY <1>1 DEF Sends
  <2>3. Marked'
    BY <1>1, <1>2, <2>1, <2>2, Appended DEF Marked
  <2>4. \A x \in DOMAIN inbox' : inbox'[x][2] = opened' => inbox'[x][1] = "ATZ"
    BY <1>2, <1>3, <2>1, <2>2, Appended
  <2> QED
    BY <1>1, <2>1, <2>3, <2>4 DEF HandshakeInv, AtzInv, EobexInv, ObexInv
<1>5. CASE ~r320
  <2>1. doing' \in {"connected", "serve"} /\ inbox' = inbox /\ phone = "obex"
    BY <1>5 DEF TypeInv, TypeOK, CobexInit, Connected
  <2>2. \A x \in DOMAIN inbox : inbox[x][1] \notin {"ATZ", "EOBEX", "break"}
    <3>1. \A x \in DOMAIN inbox : inbox[x] \in Quiet
      BY <1>5, ElementOfSeq DEF TypeInv, PacketsOnly
    <3> QED
      BY <3>1 DEF Quiet, Commands
  <2> QED
    BY <1>1, <1>2, <2>1, <2>2 DEF HandshakeInv, Marked, AtzInv, EobexInv, ObexInv
<1> QED
  BY <1>4, <1>5

LEMMA CableHandshake ==
  ASSUME TypeInv, HandshakeInv, cable
  PROVE  HandshakeInv'
<1>1. /\ inbox \in Seq(Sends \X (0 .. opened)) /\ opened \in Nat
      /\ line \in Seq(Replies \X (0 .. opened)) /\ opened' = opened
  BY BoundsAssumption DEF HandshakeInv, Marked, TypeInv, TypeOK, cable, AtzDone, EobexDone,
     CobexCleanup
<1>2. LineShrinks
  BY DEF LineShrinks, cable, AtzDone, EobexDone, CobexDoAtCmd, CobexCleanup, TransportDisconnect
<1>3. line' \in Seq(Replies \X (0 .. opened'))
  BY <1>1, <1>2, ShorterLine DEF HandshakeInv
<1>4. CASE AtzDone
  <2>1. /\ doing = "atz" /\ doing' = "eobex" /\ tty = "open"
        /\ inbox' = Append(inbox, <<"EOBEX", opened>>)
    BY <1>4 DEF AtzDone, CobexDoAtCmd, Write
  <2>2. <<"EOBEX", opened>> \in Sends \X (0 .. opened)
    BY <1>1 DEF Sends
  <2>3. Marked'
    BY <1>1, <1>3, <2>1, <2>2, Appended DEF Marked
  <2>4. \A x \in DOMAIN inbox' : inbox'[x][2] = opened =>
          inbox'[x][1] = "ATZ" \/ (inbox'[x][1] = "EOBEX" /\ x = Len(inbox'))
    BY <1>1, <2>1, <2>2, Appended DEF HandshakeInv, AtzInv
  <2>5. \A y \in DOMAIN line' : line'[y] # <<"CONNECT", opened>>
    BY <1>1, <1>2, <2>1, ShorterLine DEF HandshakeInv, AtzInv
  <2> QED
    BY <1>1, <2>1, <2>3, <2>4, <2>5 DEF HandshakeInv, AtzInv, EobexInv, ObexInv
<1>5. CASE EobexDone
  <2>1. /\ doing = "eobex" /\ doing' \in {"connected", "serve"} /\ tty = "open"
        /\ line # <<>> /\ Head(line)[1] = "CONNECT"
        /\ mixed' = (mixed \/ Head(line)[2] # opened) /\ UNCHANGED <<inbox, phone>>
    BY <1>5 DEF EobexDone, CobexDoAtCmd, Connected, TypeInv, TypeOK
  <2>2. ~mixed' => Head(line) = <<"CONNECT", opened>>
    <3>1. Head(line) \in Replies \X (0 .. opened)
      BY <1>1, <2>1, HeadTailProperties
    <3>2. ~mixed' => Head(line)[2] = opened
      BY <2>1, Zenon
    <3> QED
      BY <2>1, <3>1, <3>2
  <2>3. ~mixed' => inbox = <<>> /\ phone # "at"
    BY <1>1, <2>1, <2>2, Taken DEF HandshakeInv, EobexInv
  <2> QED
    BY <1>1, <1>3, <2>1, <2>3 DEF HandshakeInv, Marked, AtzInv, EobexInv, ObexInv
<1>6. CASE CobexCleanup
  <2>1. doing' = "prompt" /\ tty' = "closed"
    BY <1>6 DEF CobexCleanup, TransportDisconnect
  <2>2. <<"break", opened>> \in Sends \X (0 .. opened)
    BY <1>1 DEF Sends
  <2>3. Marked'
    <3>1. inbox' = inbox \/ inbox' = Append(inbox, <<"break", opened>>)
      BY <1>6, Zenon DEF CobexCleanup, Write
    <3>2. Append(inbox, <<"break", opened>>) \in Seq(Sends \X (0 .. opened))
      BY <1>1, <2>2, Appended
    <3>3. inbox' \in Seq(Sends \X (0 .. opened'))
      BY <1>1, <3>1, <3>2
    <3> QED
      BY <1>3, <3>3 DEF Marked
  <2> QED
    BY <2>1, <2>3 DEF HandshakeInv, AtzInv, EobexInv, ObexInv
<1> QED
  BY <1>4, <1>5, <1>6 DEF cable

LEMMA PhoneReadsHandshake ==
  ASSUME TypeInv, HandshakeInv, PhoneReads
  PROVE  HandshakeInv'
<1> DEFINE kind == Head(inbox)[1]
           mark == Head(inbox)[2]
<1>1. /\ inbox \in Seq(Sends \X (0 .. opened)) /\ opened \in Nat
      /\ line \in Seq(Replies \X (0 .. opened))
      /\ inbox # <<>> /\ inbox' = Tail(inbox) /\ UNCHANGED <<doing, tty, opened, mixed, r320>>
  BY BoundsAssumption DEF HandshakeInv, Marked, TypeInv, TypeOK, PhoneReads
<1>2. Head(inbox) \in Sends \X (0 .. opened) /\ Head(inbox) = <<kind, mark>>
  BY <1>1, HeadTailProperties
<1>3. inbox' \in Seq(Sends \X (0 .. opened')) /\ Len(inbox') = Len(inbox) - 1
      /\ \A x \in DOMAIN inbox' : x + 1 \in DOMAIN inbox /\ inbox'[x] = inbox[x + 1]
  BY <1>1, Taken
\* What is new in the line bears the mark of the command.
<1> DEFINE Grown ==
      /\ line' \in Seq(Replies \X (0 .. opened'))
      /\ \A y \in DOMAIN line' :
           \/ y \in DOMAIN line /\ line'[y] = line[y]
           \/ line'[y] = <<"CONNECT", mark>> /\ kind = "EOBEX" /\ phone' = "obex"
           \/ line'[y][1] # "CONNECT"
<1>4. Grown
  <2>1. ASSUME NEW r1 \in Replies, line' = Answers(<<r1>>)
        PROVE  /\ line' \in Seq(Replies \X (0 .. opened'))
               /\ \A y \in DOMAIN line' : \/ y \in DOMAIN line /\ line'[y] = line[y]
                                          \/ line'[y] = <<r1, mark>>
    <3> DEFINE more == [x \in DOMAIN <<r1>> |-> <<<<r1>>[x], mark>>]
    <3>1. more \in Seq(Replies \X (0 .. opened)) /\ Len(more) = 1 /\ more[1] = <<r1, mark>>
      BY <1>2
    <3>2. line' = line \/ line' = line \o more
      BY <2>1 DEF Answers
    <3>3. \A z \in DOMAIN more : z = 1
      BY <3>1
    <3> HIDE DEF more, mark
    <3>4. /\ line' \in Seq(Replies \X (0 .. opened))
          /\ \A y \in DOMAIN line' : \/ y \in DOMAIN line /\ line'[y] = line[y]
                                     \/ \E z \in DOMAIN more : line'[y] = more[z]
      <4>1. /\ line \o more \in Seq(Replies \X (0 .. opened))
            /\ \A y \in DOMAIN (line \o more) :
                 \/ y \in DOMAIN line /\ (line \o more)[y] = line[y]
                 \/ \E z \in DOMAIN more : (line \o more)[y] = more[z]
        BY <1>1, <3>1, Extended
      <4>2. CASE line' = line \o more
        BY <4>1, <4>2, Zenon
      <4>3. CASE line' = line
        BY <1>1, <4>3
      <4> QED
        BY <3>2, <4>2, <4>3
    <3> QED
      BY <1>1, <3>1, <3>3, <3>4
  <2>2. ASSUME line' = Answers(<<"done", "OK">>)
        PROVE  /\ line' \in Seq(Replies \X (0 .. opened'))
               /\ \A y \in DOMAIN line' : \/ y \in DOMAIN line /\ line'[y] = line[y]
                                          \/ line'[y] = <<"done", mark>>
                                          \/ line'[y] = <<"OK", mark>>
    <3> DEFINE more == [x \in DOMAIN <<"done", "OK">> |-> <<<<"done", "OK">>[x], mark>>]
    <3>1. /\ more \in Seq(Replies \X (0 .. opened)) /\ Len(more) = 2
          /\ more[1] = <<"done", mark>> /\ more[2] = <<"OK", mark>>
      BY <1>2 DEF Replies
    <3>2. line' = line \/ line' = line \o more
      BY <2>2 DEF Answers
    <3>3. \A z \in DOMAIN more : z = 1 \/ z = 2
      BY <3>1
    <3> HIDE DEF more, mark
    <3>4. /\ line' \in Seq(Replies \X (0 .. opened))
          /\ \A y \in DOMAIN line' : \/ y \in DOMAIN line /\ line'[y] = line[y]
                                     \/ \E z \in DOMAIN more : line'[y] = more[z]
      <4>1. /\ line \o more \in Seq(Replies \X (0 .. opened))
            /\ \A y \in DOMAIN (line \o more) :
                 \/ y \in DOMAIN line /\ (line \o more)[y] = line[y]
                 \/ \E z \in DOMAIN more : (line \o more)[y] = more[z]
        BY <1>1, <3>1, Extended
      <4>2. CASE line' = line \o more
        BY <4>1, <4>2, Zenon
      <4>3. CASE line' = line
        BY <1>1, <4>3
      <4> QED
        BY <3>2, <4>2, <4>3
    <3> QED
      BY <1>1, <3>1, <3>3, <3>4
  <2>3. CASE UNCHANGED line
    BY <1>1, <2>3
  <2>4. CASE line' = Answers(<<"CONNECT">>) /\ kind = "EOBEX" /\ phone' = "obex"
    <3>1. "CONNECT" \in Replies
      BY DEF Replies
    <3> HIDE DEF kind, mark
    <3> QED
      BY <2>1, <2>4, <3>1
  <2>5. ASSUME NEW r1 \in Replies \ {"CONNECT"}, line' = Answers(<<r1>>)
        PROVE  Grown
    BY <2>1, <2>5
  <2>6. CASE line' = Answers(<<"done", "OK">>)
    BY <2>2, <2>6
  <2>7. \/ UNCHANGED line
        \/ line' = Answers(<<"CONNECT">>) /\ kind = "EOBEX" /\ phone' = "obex"
        \/ \E r1 \in {"ERROR", "OK", "done", "continue"} : line' = Answers(<<r1>>)
        \/ line' = Answers(<<"done", "OK">>)
    BY Zenon DEF PhoneReads
  <2> QED
    BY <2>3, <2>4, <2>5, <2>6, <2>7 DEF Replies
<1>5. Marked'
  BY <1>3, <1>4 DEF Marked
<1>6. phone' # "at" \/ phone' = phone \/ kind \in {"break", "ATZ"}
  BY Zenon DEF PhoneReads
<1>7. AtzInv'
  <2> SUFFICES ASSUME tty = "open", doing = "atz"
               PROVE  /\ \A x \in DOMAIN inbox' : inbox'[x][2] = opened => inbox'[x][1] = "ATZ"
                      /\ \A y \in DOMAIN line' : line'[y] # <<"CONNECT", opened>>
    BY <1>1 DEF AtzInv
  <2>1. kind = "EOBEX" => mark # opened
    BY <1>1, <1>2, Taken DEF HandshakeInv, AtzInv
  <2>2. \A x \in DOMAIN inbox' : inbox'[x][2] = opened => inbox'[x][1] = "ATZ"
    BY <1>1, <1>3 DEF HandshakeInv, AtzInv
  <2>3. \A y \in DOMAIN line : line[y] # <<"CONNECT", opened>>
    BY DEF HandshakeInv, AtzInv
  <2> HIDE DEF kind, mark
  <2> QED
    BY <1>4, <2>1, <2>2, <2>3
<1>8. EobexInv'
  <2> SUFFICES ASSUME tty = "open", doing = "eobex"
               PROVE  /\ \A x \in DOMAIN inbox' : inbox'[x][2] = opened =>
                           inbox'[x][1] = "ATZ" \/ (inbox'[x][1] = "EOBEX" /\ x = Len(inbox'))
                      /\ \A y \in DOMAIN line' :
                           line'[y] = <<"CONNECT", opened>> => inbox' = <<>> /\ phone' # "at"
    BY <1>1 DEF EobexInv
  <2>1. \A x \in DOMAIN inbox' : inbox'[x][2] = opened =>
          inbox'[x][1] = "ATZ" \/ (inbox'[x][1] = "EOBEX" /\ x = Len(inbox'))
    BY <1>1, <1>3 DEF HandshakeInv, EobexInv
  <2>2. \A y \in DOMAIN line : line[y] # <<"CONNECT", opened>>
    BY <1>1 DEF HandshakeInv, EobexInv
  <2>3. kind = "EOBEX" /\ mark = opened => inbox' = <<>>
    <3>1. kind = "EOBEX" /\ mark = opened => Len(inbox) = 1
      BY <1>1, <1>2, Taken DEF HandshakeInv, EobexInv
    <3> QED
      BY <1>3, <3>1, EmptySeq
  <2> HIDE DEF kind, mark
  <2> QED
    BY <1>4, <2>1, <2>2, <2>3
<1>9. ObexInv'
  <2> SUFFICES ASSUME tty = "open", doing \notin {"atz", "eobex"}, ~mixed
               PROVE  /\ phone' # "at"
                      /\ \A x \in DOMAIN inbox' : inbox'[x][1] \notin {"ATZ", "EOBEX", "break"}
    BY <1>1 DEF ObexInv
  <2>1. kind \notin {"ATZ", "EOBEX", "break"} /\ phone # "at"
    BY <1>1, Taken DEF HandshakeInv, ObexInv
  <2> HIDE DEF kind, mark
  <2> QED
    BY <1>3, <1>6, <2>1 DEF HandshakeInv, ObexInv
<1> QED
  BY <1>1, <1>5, <1>7, <1>8, <1>9 DEF HandshakeInv

LEMMA PhoneAsksHandshake ==
  ASSUME TypeInv, HandshakeInv, PhoneAsks
  PROVE  HandshakeInv'
<1>1. /\ opened \in Nat /\ UNCHANGED <<opened, inbox, doing, tty, mixed, r320>>
      /\ phone' # "at" /\ line \in Seq(Replies \X (0 .. opened))
  BY BoundsAssumption DEF HandshakeInv, Marked, TypeInv, TypeOK, PhoneAsks
<1>2. PICK said \in {"ask", "askDisconnect"} : line' = Append(line, <<said, 0>>)
  BY Zenon DEF PhoneAsks
<1>3. <<said, 0>> \in Replies \X (0 .. opened) /\ <<said, 0>>[1] # "CONNECT"
  BY <1>1, <1>2 DEF Replies
<1>4. /\ line' \in Seq(Replies \X (0 .. opened))
      /\ \A y \in DOMAIN line' : \/ y \in DOMAIN line /\ line'[y] = line[y]
                                 \/ line'[y][1] # "CONNECT"
  BY <1>1, <1>2, <1>3, Appended
<1> QED
  BY <1>1, <1>4 DEF HandshakeInv, Marked, AtzInv, EobexInv, ObexInv

LEMMA HandshakeStep ==
  ASSUME TypeInv, HandshakeInv, [Next]_vars
  PROVE  HandshakeInv'
<1>1. ASSUME NEW next \in {"connected", "serve"}, CobexConnect(next)
      PROVE  HandshakeInv'
  BY <1>1, PacketStep DEF CobexConnect, Connected, LineShrinks
<1>2. ASSUME NEW cmd \in Commands,
             Request(cmd) \/ RequestRefused(cmd) \/ RequestLinkErr(cmd)
      PROVE  HandshakeInv'
  <2>1. UNCHANGED <<phone, opened, mixed>> /\ LineShrinks /\ (tty' = "open" => tty = "open")
    BY <1>2 DEF Request, RequestRefused, RequestLinkErr, TransportDisconnect, LineShrinks
  <2>2. inbox' = inbox \/ Write(<<cmd, opened>>)
    BY <1>2 DEF Request, RequestRefused, RequestLinkErr
  <2>3. doing \in {"connected", "prompt"} /\ doing' \in {"wait", "prompt"}
    BY <1>2 DEF Request, RequestRefused, RequestLinkErr, Asks
  <2> QED
    BY <2>1, <2>2, <2>3, PacketStep
<1>3. CASE HandleInput
  <2>1. UNCHANGED <<phone, opened, mixed>> /\ LineShrinks /\ (tty' = "open" => tty = "open")
    BY <1>3 DEF HandleInput, ClientDone, Fillstream, FillstreamEnd, FillstreamError, Streams, ServerRequest,
       PassOver, Handling, TransportDisconnect, LineShrinks
  <2>2. inbox' = inbox \/ Write(<<"body", opened>>) \/ Write(<<"end", opened>>)
    BY <1>3 DEF HandleInput, ClientDone, Fillstream, FillstreamEnd, FillstreamError, ServerRequest, PassOver
  <2>3. doing \in {"wait", "serve"} /\ doing' = doing
    BY <1>3 DEF HandleInput, ClientDone, Fillstream, FillstreamEnd, FillstreamError, Streams, ServerRequest,
       PassOver, Handling
  <2> QED
    BY <2>1, <2>2, <2>3, PacketStep
<1>4. CASE PushOpenFails \/ ConnectGivenUp \/ client \/ SyncwaitError \/ ServerDoEnds \/ Quit
  <2>1. UNCHANGED <<phone, opened, mixed, inbox>> /\ LineShrinks
        /\ (tty' = "open" => tty = "open")
    BY <1>4 DEF PushOpenFails, ConnectGivenUp, client, SyncwaitDone, SyncwaitNoFd, SyncwaitError,
       ServerDoEnds, Quit, TransportDisconnect, LineShrinks
  <2>2. doing \in {"connected", "wait", "serve", "prompt"} /\ doing' \in {"prompt", "end"}
    BY <1>4 DEF PushOpenFails, ConnectGivenUp, client, SyncwaitDone, SyncwaitNoFd, SyncwaitError,
       ServerDoEnds, Quit
  <2> QED
    BY <2>1, <2>2, PacketStep
<1>5. CASE ObexRecvFile
  <2>1. ~r320 /\ phone = "obex" /\ doing' \in {"serve", "end"}
        /\ UNCHANGED <<phone, opened, mixed, inbox, line>>
    BY <1>5 DEF HandshakeInv, TypeInv, TypeOK, ObexRecvFile, Connected
  <2>2. \A x \in DOMAIN inbox : inbox[x][1] \notin {"ATZ", "EOBEX", "break"}
    <3>1. \A x \in DOMAIN inbox : inbox[x] \in Quiet
      BY <2>1, ElementOfSeq DEF TypeInv, PacketsOnly
    <3> QED
      BY <3>1 DEF Quiet, Commands
  <2> QED
    BY <2>1, <2>2 DEF HandshakeInv, Marked, AtzInv, EobexInv, ObexInv
<1>6. CASE CableOff
  BY <1>6 DEF HandshakeInv, Marked, AtzInv, EobexInv, ObexInv, CableOff
<1>7. CASE UNCHANGED vars
  BY <1>7 DEF HandshakeInv, Marked, AtzInv, EobexInv, ObexInv, vars
<1> QED
  BY <1>1, <1>2, <1>3, <1>4, <1>5, <1>6, <1>7, InitHandshake, CableHandshake,
     PhoneReadsHandshake, PhoneAsksHandshake DEF Next

\* A handshake that took only its own answers has put the phone in OBEX mode,
\* and whatever of earlier attempts was still to be read does not undo it
\* (cobex_init).  The phone may still leave OBEX mode by an OBEX disconnect.
THEOREM HandshakeSoundCorrect == Spec => []HandshakeSound
<1>1. Init => TypeInv /\ HandshakeInv
  <2> SUFFICES ASSUME Init PROVE HandshakeInv
    BY InitType
  <2>1. tty = "closed" /\ line = <<>> /\ inbox = <<>> /\ (doing = "start" => ~r320)
    BY Zenon DEF Init
  <2> QED
    BY <2>1 DEF HandshakeInv, Marked, AtzInv, EobexInv, ObexInv
<1>2. TypeInv /\ HandshakeInv /\ [Next]_vars => (TypeInv /\ HandshakeInv)'
  BY NextType, HandshakeStep
<1>3. HandshakeInv => HandshakeSound
  BY DEF HandshakeInv, ObexInv, HandshakeSound
<1> QED
  BY <1>1, <1>2, <1>3, PTL DEF Spec
=============================================================================
