-------------------------------- MODULE Obex --------------------------------
(***************************************************************************)
(* The OBEX programs beside the gateway: obex_test, a prompt from which    *)
(* one client request or one server session is run at a time, over a       *)
(* serial cable to a phone, and obex_recv_file, one server session.        *)
(*                                                                         *)
(* Both ends of a request are in libopenobex, which is not part of the     *)
(* repository: it keeps one request at a time, refuses another while that  *)
(* one is outstanding, and calls obex_event.  The phone is the other       *)
(* external part; the R320 must be put in OBEX mode by AT commands first.  *)
(***************************************************************************)
EXTENDS Naturals, Sequences

CONSTANTS
  MaxRequests,   \* bound: requests asked for at the prompt
  MaxOpens,      \* bound: times the tty is opened
  MaxAsked       \* bound: requests of the phone

ASSUME BoundsAssumption ==
  MaxRequests \in Nat /\ MaxOpens \in Nat /\ MaxAsked \in Nat

VARIABLES
  program, r320,     \* which program, and with which phone
  doing, then,       \* what the program is in, and what it opens the tty for
  tty,               \* "dead" is a descriptor whose cable was taken off
  clientdone, serverdone,
  fileDesc,          \* the push that opened it, 0 for -1: no file
  request,           \* what the library has outstanding; the file it streams
  inbox, line,       \* what the phone, and what the program, has yet to read
  phone,             \* its mode; "left" is AT mode after an OBEX disconnect
  asked, opened, asks,   \* counters for the bounds
  stale,             \* clientdone was set when nobody waited
  mixed,             \* an AT answer of an earlier opening was taken
  refused            \* a push was refused while another one streamed

ttyVars   == <<tty, line>>
doneVars  == <<clientdone, serverdone, stale>>
fileVars  == <<fileDesc, refused>>
phoneVars == <<phone, asks>>
setVars   == <<program, r320>>
openVars  == <<then, opened, mixed>>
vars == <<setVars, doing, openVars, ttyVars, doneVars, fileVars, request, inbox,
          phoneVars, asked>>

Commands == {"connect", "disconnect", "get", "put", "setpath", "push"}
NoRequest == [cmd |-> "none", file |-> 0]

TypeOK ==
  /\ program \in {"obex_test", "obex_recv_file"} /\ r320 \in BOOLEAN
  /\ doing \in {"start", "prompt", "atz", "eobex", "connected", "wait", "serve", "end"}
  /\ then \in {"connected", "serve"}
  /\ tty \in {"closed", "open", "dead"}
  /\ doing \in {"atz", "eobex"} => r320 /\ tty # "closed"
  /\ clientdone \in BOOLEAN /\ serverdone \in BOOLEAN
  /\ fileDesc \in 0 .. MaxRequests
  /\ request \in [cmd : Commands, file : 0 .. MaxRequests] \union {NoRequest}
  /\ tty # "open" => line = <<>>
  /\ phone \in {"at", "obex", "left"} /\ (~r320 => phone = "obex")
  /\ asked \in 0 .. MaxRequests /\ opened \in 0 .. MaxOpens /\ asks \in 0 .. MaxAsked
  /\ stale \in BOOLEAN /\ mixed \in BOOLEAN /\ refused \in BOOLEAN

Init ==
  /\ \/ program = "obex_test" /\ doing = "prompt" /\ r320 \in BOOLEAN
     \/ program = "obex_recv_file" /\ doing = "start" /\ r320 = FALSE
  /\ then = "connected" /\ opened = 0 /\ mixed = FALSE
  /\ tty = "closed" /\ line = <<>> /\ inbox = <<>>
  /\ clientdone = FALSE /\ serverdone = FALSE /\ stale = FALSE
  /\ fileDesc = 0 /\ refused = FALSE
  /\ request = NoRequest /\ asked = 0
  /\ phone = (IF r320 THEN "at" ELSE "obex") /\ asks = 0

-----------------------------------------------------------------------------
(* The cable. *)

\* An AT command is marked with the opening it belongs to.
Write(message) == inbox' = Append(inbox, message)

TransportDisconnect == tty' = "closed" /\ line' = <<>>

\* What the program goes on with once it has a transport.
Connected(next) ==
  /\ doing' = next
  /\ serverdone' = (IF next = "serve" THEN FALSE ELSE serverdone)
  /\ UNCHANGED <<clientdone, stale>>

\* The commands c and s.  A tty that is open is used again, dead or not.
CobexConnect(next) ==
  /\ doing = "prompt" /\ tty # "closed"
  /\ Connected(next)
  /\ UNCHANGED <<setVars, openVars, ttyVars, fileVars, request, inbox, phoneVars, asked>>

\* Slip: ATZ is sent whatever the phone.
CobexInitAlways(next) ==
  /\ doing = "prompt" /\ tty = "closed" /\ opened < MaxOpens
  /\ tty' = "open" /\ line' = <<>>
  /\ opened' = opened + 1 /\ then' = next /\ mixed' = FALSE
  /\ doing' = "atz" /\ Write(<<"ATZ", opened + 1>>) /\ UNCHANGED doneVars
  /\ UNCHANGED <<setVars, fileVars, request, phoneVars, asked>>

\* Otherwise it is opened, flushed, and with an R320 the handshake begins.
CobexInit(next) ==
  /\ doing = "prompt" /\ tty = "closed" /\ opened < MaxOpens
  /\ tty' = "open" /\ line' = <<>>
  /\ opened' = opened + 1 /\ then' = next /\ mixed' = FALSE
  /\ IF r320
     THEN doing' = "atz" /\ Write(<<"ATZ", opened + 1>>) /\ UNCHANGED doneVars
     ELSE Connected(next) /\ UNCHANGED inbox
  /\ UNCHANGED <<setVars, fileVars, request, phoneVars, asked>>

\* The answer is the second line that comes; what came behind it in the same
\* read is dropped with the buffer.
CobexDoAtCmd(answer) ==
  /\ tty = "open" /\ line # <<>>
  /\ Head(line)[1] = answer
  /\ mixed' = (mixed \/ Head(line)[2] # opened)
  /\ line' \in {Tail(line), <<>>}
  /\ UNCHANGED tty

AtzDone ==
  /\ doing = "atz"
  /\ CobexDoAtCmd("OK")
  /\ doing' = "eobex" /\ Write(<<"EOBEX", opened>>)
  /\ UNCHANGED <<setVars, then, opened, doneVars, fileVars, request, phoneVars, asked>>

EobexDone ==
  /\ doing = "eobex"
  /\ CobexDoAtCmd("CONNECT")
  /\ Connected(then)
  /\ UNCHANGED <<setVars, then, opened, fileVars, request, inbox, phoneVars, asked>>

\* No answer within a second, or another one than expected.
NotAnswered ==
  \/ doing \in {"atz", "eobex"} /\ line = <<>>
  \/ doing = "atz" /\ line # <<>> /\ Head(line)[1] # "OK"
  \/ doing = "eobex" /\ line # <<>> /\ Head(line)[1] # "CONNECT"

\* Slip: the tty is left open.
CobexCleanupLate ==
  /\ NotAnswered
  /\ doing' = "prompt"
  /\ UNCHANGED <<setVars, openVars, ttyVars, doneVars, fileVars, request, inbox, phoneVars, asked>>

\* The error exit of cobex_init: a break, to get out of OBEX mode, and a close.
CobexCleanup ==
  /\ NotAnswered
  /\ doing' = "prompt"
  /\ TransportDisconnect
  /\ IF tty = "open" THEN Write(<<"break", opened>>) ELSE UNCHANGED inbox
  /\ UNCHANGED <<setVars, openVars, doneVars, fileVars, request, phoneVars, asked>>

-----------------------------------------------------------------------------
(* The client. *)

\* Slip: a descriptor that is still open is used again.
AsksReuse(cmd) ==
  /\ doing = (IF cmd = "connect" THEN "connected" ELSE "prompt")
  /\ program = "obex_test" /\ asked < MaxRequests
  /\ asked' = asked + 1
  /\ fileDesc' = (IF cmd = "push" /\ fileDesc = 0 THEN asked + 1 ELSE fileDesc)

\* A request is built at the prompt, connect after the transport; push opens
\* its file before the library has taken the request.
Asks(cmd) ==
  /\ doing = (IF cmd = "connect" THEN "connected" ELSE "prompt")
  /\ program = "obex_test" /\ asked < MaxRequests
  /\ asked' = asked + 1
  /\ fileDesc' = (IF cmd = "push" THEN asked + 1 ELSE fileDesc)

Request(cmd) ==
  /\ Asks(cmd)
  /\ request = NoRequest /\ tty = "open"
  /\ request' = [cmd |-> cmd, file |-> IF cmd = "push" THEN asked + 1 ELSE 0]
  /\ Write(<<cmd, opened>>)
  /\ doing' = "wait"
  /\ refused' = (IF cmd = "push" THEN FALSE ELSE refused)
  /\ UNCHANGED <<setVars, openVars, ttyVars, doneVars, phoneVars>>

\* A push whose file cannot be opened asks for nothing, but fileDesc has lost
\* what it was before, also when another push streams from it.
PushOpenFails ==
  /\ doing = "prompt" /\ program = "obex_test"
  /\ fileDesc' = 0
  /\ UNCHANGED <<setVars, doing, openVars, ttyVars, doneVars, refused, request, inbox,
                 phoneVars, asked>>

\* The library is busy with a request whose wait was broken off, or the object
\* of the request cannot be made.
RequestRefused(cmd) ==
  /\ Asks(cmd)
  /\ doing' = "prompt"
  /\ refused' = (refused \/ cmd = "push")
  /\ UNCHANGED <<setVars, openVars, ttyVars, doneVars, request, inbox, phoneVars>>

\* OBEX_EV_LINKERR: the write failed.  OBEX_Request may return an error, or
\* not, and then the wait is for nothing.
RequestLinkErr(cmd) ==
  /\ Asks(cmd)
  /\ request = NoRequest /\ tty # "open"
  /\ TransportDisconnect
  /\ doing' \in {"prompt", "wait"}
  /\ UNCHANGED <<setVars, openVars, doneVars, refused, request, inbox, phoneVars>>

\* connect with nothing left of the bound.
ConnectGivenUp ==
  /\ doing = "connected" /\ asked = MaxRequests
  /\ doing' = "prompt"
  /\ UNCHANGED <<setVars, openVars, ttyVars, doneVars, fileVars, request, inbox, phoneVars, asked>>

\* Slip: clientdone is not reset.
SyncwaitDoneKept ==
  /\ doing = "wait" /\ clientdone
  /\ doing' = "prompt"
  /\ UNCHANGED <<setVars, openVars, ttyVars, doneVars, fileVars, request, inbox, phoneVars, asked>>

\* The loop of syncwait ends with clientdone, which may have been set before.
SyncwaitDone ==
  /\ doing = "wait" /\ clientdone
  /\ doing' = "prompt"
  /\ clientdone' = FALSE /\ stale' = FALSE
  /\ UNCHANGED <<setVars, openVars, ttyVars, serverdone, fileVars, request, inbox, phoneVars, asked>>

\* Slip: without a descriptor the input has merely timed out.
SyncwaitNoFdTimesOut ==
  /\ doing = "wait" /\ ~clientdone /\ tty = "closed"
  /\ UNCHANGED vars

\* Or with an error of OBEX_HandleInput: always when there is no descriptor,
\* and whenever the select is interrupted or the read of a dead tty fails.
\* The request is not withdrawn.  A timeout, and the read of nothing from a
\* dead tty, only go round the loop.
SyncwaitNoFd ==
  /\ doing = "wait" /\ ~clientdone /\ tty = "closed"
  /\ doing' = "prompt"
  /\ UNCHANGED <<setVars, openVars, ttyVars, doneVars, fileVars, request, inbox, phoneVars, asked>>

SyncwaitError ==
  /\ doing = "wait" /\ ~clientdone /\ tty # "closed"
  /\ doing' = "prompt"
  /\ UNCHANGED <<setVars, openVars, ttyVars, doneVars, fileVars, request, inbox, phoneVars, asked>>

-----------------------------------------------------------------------------
(* OBEX_HandleInput: a packet is given to the library, which calls          *)
(* obex_event.                                                              *)

Handling ==
  /\ \/ doing = "wait" /\ ~clientdone
     \/ doing = "serve" /\ ~serverdone
  /\ tty = "open" /\ line # <<>>

Packet == Head(line)[1]
AtAnswers == {"OK", "CONNECT", "ERROR"}

\* While a request is outstanding every packet is its answer.
ClientDone ==
  /\ Handling /\ request # NoRequest
  /\ Packet \notin AtAnswers \union {"continue"}
  /\ request' = NoRequest
  /\ clientdone' = TRUE /\ stale' = (doing # "wait")
  /\ IF request.cmd = "disconnect"
     THEN TransportDisconnect
     ELSE line' = Tail(line) /\ UNCHANGED tty
  /\ UNCHANGED <<setVars, doing, openVars, serverdone, fileVars, inbox, phoneVars, asked>>

\* OBEX_EV_STREAMEMPTY: the next part of the file, its end, or an error.
Streams ==
  /\ Handling /\ request.file # 0 /\ Packet = "continue"
  /\ line' = Tail(line)
  /\ UNCHANGED <<setVars, doing, openVars, tty, doneVars, refused, phoneVars, asked>>

Fillstream ==
  /\ Streams /\ fileDesc # 0
  /\ Write(<<"body", opened>>)
  /\ UNCHANGED <<fileDesc, request>>

FillstreamEnd ==
  /\ Streams /\ fileDesc # 0
  /\ fileDesc' = 0
  /\ request' = [request EXCEPT !.file = 0]
  /\ Write(<<"end", opened>>)

\* Slip: the stream is ended after an error as after the end of the file.
FillstreamErrorEnds ==
  /\ Streams
  /\ fileDesc' = 0
  /\ request' = [request EXCEPT !.file = 0]
  /\ Write(<<"end", opened>>)

\* The read fails, for ever once there is no descriptor: a part without data,
\* and the stream goes on.
FillstreamError ==
  /\ Streams
  /\ fileDesc' = 0
  /\ Write(<<"body", opened>>)
  /\ UNCHANGED request

\* The library, serving, answers a request of the phone after server_request;
\* server_done closes the transport at a disconnect and ends the session.
ServerRequest ==
  /\ Handling /\ request = NoRequest
  /\ Packet \notin AtAnswers
  /\ IF Packet = "askDisconnect"
     THEN TransportDisconnect /\ serverdone' = TRUE
     ELSE line' = Tail(line) /\ UNCHANGED <<tty, serverdone>>
  /\ UNCHANGED <<setVars, doing, openVars, clientdone, stale, fileVars, request, inbox, phoneVars, asked>>

\* What makes no packet is passed over: AT answers, a continue out of place.
PassOver ==
  /\ Handling
  /\ \/ Packet \in AtAnswers
     \/ Packet = "continue" /\ request # NoRequest /\ request.file = 0
  /\ line' = Tail(line)
  /\ UNCHANGED <<setVars, doing, openVars, tty, doneVars, fileVars, request, inbox, phoneVars, asked>>

HandleInput ==
  \/ ClientDone
  \/ Fillstream \/ FillstreamEnd \/ FillstreamError
  \/ ServerRequest \/ PassOver

-----------------------------------------------------------------------------
(* The server and the end. *)

\* obex_recv_file registers on Bluetooth, or returns.
ObexRecvFile ==
  /\ doing = "start"
  /\ \/ Connected("serve") /\ tty' = "open"
     \/ doing' = "end" /\ UNCHANGED <<tty, doneVars>>
  /\ UNCHANGED <<setVars, openVars, line, fileVars, request, inbox, phoneVars, asked>>

\* server_do ends with serverdone, with 60 quiet seconds or with an error;
\* then its caller disconnects.
ServerDoEnds ==
  /\ doing = "serve"
  /\ doing' = (IF program = "obex_test" THEN "prompt" ELSE "end")
  /\ TransportDisconnect
  /\ UNCHANGED <<setVars, openVars, doneVars, fileVars, request, inbox, phoneVars, asked>>

Quit ==
  /\ doing = "prompt" /\ doing' = "end"
  /\ UNCHANGED <<setVars, openVars, ttyVars, doneVars, fileVars, request, inbox, phoneVars, asked>>

-----------------------------------------------------------------------------
(* The phone and the cable, external. *)

Answers(kinds) ==
  IF tty = "open" THEN line \o [x \in DOMAIN kinds |-> <<kinds[x], Head(inbox)[2]>>] ELSE line

\* One command: an AT command is not understood in OBEX mode, nor a packet
\* outside it; what is answered while the tty is closed is lost.
PhoneReads ==
  /\ inbox # <<>> /\ inbox' = Tail(inbox)
  /\ LET kind == Head(inbox)[1] IN
     \/ /\ kind = "break"
        /\ phone' = "at" /\ UNCHANGED line
     \/ /\ kind \in {"ATZ", "EOBEX"} /\ phone # "obex"
        /\ \/ line' = Answers(<<"ERROR">>) /\ UNCHANGED phone
           \/ kind = "ATZ" /\ line' = Answers(<<"OK">>) /\ phone' = "at"
           \/ kind = "EOBEX" /\ line' = Answers(<<"CONNECT">>) /\ phone' = "obex"
     \/ /\ kind = "disconnect" /\ phone = "obex"
        /\ IF r320 THEN line' = Answers(<<"done", "OK">>) /\ phone' = "left"
                   ELSE line' = Answers(<<"done">>) /\ UNCHANGED phone
     \/ /\ kind \in {"push", "body"} /\ phone = "obex"
        /\ line' = Answers(<<"continue">>) /\ UNCHANGED phone
     \/ /\ kind \in {"connect", "get", "put", "setpath", "end"} /\ phone = "obex"
        /\ line' = Answers(<<"done">>) /\ UNCHANGED phone
     \/ /\ IF kind \in {"ATZ", "EOBEX"} THEN phone = "obex" ELSE phone # "obex" /\ kind # "break"
        /\ UNCHANGED <<line, phone>>
  /\ UNCHANGED <<setVars, doing, openVars, tty, doneVars, fileVars, request, asks, asked>>

\* It asks for something itself.
PhoneAsks ==
  /\ tty = "open" /\ phone = "obex" /\ asks < MaxAsked
  /\ asks' = asks + 1
  /\ \/ line' = Append(line, <<"ask", 0>>) /\ UNCHANGED phone
     \/ line' = Append(line, <<"askDisconnect", 0>>) /\ phone' = (IF r320 THEN "left" ELSE phone)
  /\ UNCHANGED <<setVars, doing, openVars, tty, doneVars, fileVars, request, inbox, asked>>

CableOff ==
  /\ tty = "open" /\ tty' = "dead"
  /\ inbox' = <<>> /\ line' = <<>>
  /\ UNCHANGED <<setVars, doing, openVars, doneVars, fileVars, request, phoneVars, asked>>

-----------------------------------------------------------------------------

cable == AtzDone \/ EobexDone \/ CobexCleanup
client == SyncwaitDone \/ SyncwaitNoFd

Next ==
  \/ \E next \in {"connected", "serve"} : CobexConnect(next) \/ CobexInit(next)
  \/ \E cmd \in Commands : Request(cmd) \/ RequestRefused(cmd) \/ RequestLinkErr(cmd)
  \/ PushOpenFails \/ ConnectGivenUp
  \/ cable \/ client \/ SyncwaitError \/ HandleInput
  \/ ObexRecvFile \/ ServerDoEnds \/ Quit
  \/ PhoneReads \/ PhoneAsks \/ CableOff

Spec == Init /\ [][Next]_vars

\* The program goes on where it does not wait for anybody, the phone reads
\* what is sent to it, and a file that can be read has an end: FillstreamEnd is
\* enabled only while the stream has its descriptor, so the fairness asks for
\* nothing of a stream that has lost it.
FairSpec ==
  /\ Spec
  /\ WF_vars(client) /\ WF_vars(HandleInput) /\ WF_vars(PhoneReads)
  /\ SF_vars(FillstreamEnd)

-----------------------------------------------------------------------------
(* Properties. *)

\* A wait that ends with clientdone ends because its own request is finished,
\* unless an answer that came too late was handled by a server session: then
\* the next wait is over before it has begun, its request outstanding.
OwnAnswer ==
  [][doing = "wait" /\ clientdone /\ doing' = "prompt" => request = NoRequest \/ stale]_vars

\* Outside the handshake an R320 on an open tty has been put in OBEX mode by
\* it, and nothing of earlier attempts puts it back in AT mode later, unless an
\* answer of an earlier attempt was taken for one of this attempt.  That the
\* phone leaves OBEX mode with an OBEX disconnect ("left") is not excluded.
HandshakeSound ==
  tty = "open" /\ doing \notin {"atz", "eobex"} /\ ~mixed => phone # "at"

\* What a push streams is the file that was opened for it, or nothing when a
\* read or another open has failed, unless another push was refused
\* meanwhile: it has replaced fileDesc before (push_client).
StreamsItsFile ==
  request.file # 0 => fileDesc \in {0, request.file} \/ refused

\* A push is ended on its own file, with the same exception: one that has lost
\* its descriptor, and with it the rest of its file, is not passed for complete
\* by any later answer of the phone (fillstream).
EndsOnItsFile ==
  [][request.file # 0 /\ request' # NoRequest /\ request'.file = 0
       => fileDesc = request.file \/ refused]_vars

\* A wait comes to an end, unless the phone is not in OBEX mode, the cable was
\* taken off, or a push has lost its file: no timeout bounds it.
WaitEnds ==
  doing = "wait" ~> \/ doing # "wait"
                    \/ phone # "obex" \/ tty = "dead"
                    \/ request.file # 0 /\ fileDesc = 0
=============================================================================
