------------------------------ MODULE Session ------------------------------
(***************************************************************************)
(* One serial session between the phone and the gateway: the inner loop of *)
(* th_RDWR on an open RFCOMM tty, with every call it makes.  The phone     *)
(* writes frames, a head of MSG_HEAD_SIZE characters and a body of the     *)
(* announced size, on a character stream that keeps no frame boundaries.   *)
(* The gateway reads the head, then as many characters as the head         *)
(* announces, acts on the command and writes one reply.                    *)
(*                                                                         *)
(* A character is abstracted to its position in the stream: the phone has  *)
(* written characters 0 .. top-1, the gateway has taken 0 .. rd-1, and     *)
(* sent tells at which position each frame starts.  What a head decodes to *)
(* depends on the position its first character was taken from.             *)
(***************************************************************************)
EXTENDS Integers, Sequences

CONSTANTS
  Message,    \* the frames the phone may send
  Garbled,    \* what a head taken from the wrong position may decode to
  MinChunk,   \* the fewest characters one read or write of the tty moves
  MaxFrames   \* bound: the frames the phone sends in one session

MSG_HEAD_SIZE == 28   \* characters of a head: seven fields of four digits
MAX_LEN       == 120  \* readLenData refuses to read more
MAX_READS     == 11   \* the reads one readLenData call makes at most
MAX_WRITES    == 21   \* the writes one writeLenData call makes at most

MT_PHONE == 1
MT_ARM   == 2
MT_STATION_REQ   == 17
MT_SCAN_PARA     == 18
MT_POSITION_PARA == 19
MT_ENB_INFO  == 33
MT_TARG_INFO == 34
MT_STAT_INFO == 35

HeadFields == [msgType : Nat, msgSize : Nat]
NoHead == [msgType |-> 0, msgSize |-> 0]

ASSUME MessageAssumption ==
  /\ \A m \in Message :
       /\ m.source \in Nat /\ m.target \in Nat
       /\ m.msgType \in Nat /\ m.msgSize \in Nat /\ m.StartType \in Nat
  /\ Garbled \subseteq HeadFields
  /\ NoHead \in Garbled
ASSUME ChunkAssumption == MinChunk \in Nat \ {0}
ASSUME FramesAssumption == MaxFrames \in Nat

VARIABLES
  sent,       \* the frames the phone has written: [at, msg]
  top,        \* characters written by the phone
  link,       \* "up" until the tty is hung up
  pc,         \* where th_RDWR is in its loop
  at,         \* position of the first character of the head in recvBuf
  rd,         \* characters taken from the tty
  headGot,    \* characters of the head in recvBuf
  bodyGot,    \* characters of the body in recvBuf
  calls,      \* recvCount / Count of the call in progress
  msgHead,    \* the decoded head, all zero when none was accepted
  served,     \* history of DecodeRecvData calls that found some text
  str,        \* the reply being written
  put,        \* characters of str already written
  out,        \* history of the replies written: [msgType, msgSize, len, put, after]
  time_sec2,  \* period of th_run2
  vtimer,     \* ITIMER_VIRTUAL is armed
  g_isExit

phoneVars  == <<sent, top, link>>
readVars   == <<at, rd, headGot, bodyGot, calls>>
effectVars == <<served, str, put, out, time_sec2, vtimer>>
vars == <<phoneVars, pc, readVars, msgHead, effectVars, g_isExit>>

FrameLen(m) == MSG_HEAD_SIZE + m.msgSize

\* Frames DecodeRecvHead and readLenData both accept.
Good(m) == m.source = MT_PHONE /\ m.target = MT_ARM /\ m.msgSize <= MAX_LEN

Smaller(a, b) == IF a <= b THEN a ELSE b

\* What one read() may return when want characters are asked for: the tty
\* has VMIN = 1, so it blocks for the first character and may return early.
Chunks(want, there) ==
  Smaller(MinChunk, Smaller(want, there))..Smaller(want, there)

\* The value of a four digit field of which only the first n digits are there.
Digits(v, n) == v \div (<<65536, 4096, 256, 16, 1>>[n + 1])
Have(n, offset) == IF n <= offset THEN 0 ELSE Smaller(n - offset, 4)

\* GetStrToHex over the head that starts at m and of which n characters came.
HeadOf(m, n) ==
  IF Digits(m.source, Have(n, 0)) = MT_PHONE /\ Digits(m.target, Have(n, 4)) = MT_ARM
  THEN [msgType |-> Digits(m.msgType, Have(n, 20)),
        msgSize |-> Digits(m.msgSize, Have(n, 24))]
  ELSE NoHead

\* The frames whose first character is at position p: one or none.
FramesAt(p) == {i \in DOMAIN sent : sent[i].at = p}

\* The characters in recvBuf are exactly frame i.
WholeFrame(i) ==
  /\ Good(sent[i].msg)
  /\ headGot = MSG_HEAD_SIZE
  /\ bodyGot = sent[i].msg.msgSize

NoReply == [msgType |-> 0, msgSize |-> 0, len |-> 0]

\* Slip: the decoder forgets the answer to MT_POSITION_PARA.
ReplyForNoPosition(t) ==
  CASE t = MT_STATION_REQ -> [msgType |-> MT_STAT_INFO, msgSize |-> 40, len |-> 72]
    [] t = MT_SCAN_PARA   -> [msgType |-> MT_ENB_INFO, msgSize |-> 36, len |-> 64]
    [] OTHER -> NoReply

\* The reply the DEV_ functions make of it: the size GetStrSize announces and
\* the characters MakeSendData really produces.
ReplyFor(t) ==
  CASE t = MT_STATION_REQ   -> [msgType |-> MT_STAT_INFO, msgSize |-> 40, len |-> 72]
    [] t = MT_SCAN_PARA     -> [msgType |-> MT_ENB_INFO,  msgSize |-> 36, len |-> 64]
    [] t = MT_POSITION_PARA -> [msgType |-> MT_TARG_INFO, msgSize |-> 48, len |-> 76]
    [] OTHER -> NoReply

-----------------------------------------------------------------------------
SentFrame == [at : Nat, msg : Message]
Call      == [frame : Nat, msgType : Nat, whole : BOOLEAN]
Reply     == [msgType : Nat, msgSize : Nat, len : Nat]
Sent      == [msgType : Nat, msgSize : Nat, len : Nat, put : Nat, after : Nat]

TypeOK ==
  /\ sent \in Seq(SentFrame)
  /\ top \in Nat
  /\ link \in {"up", "hungup"}
  /\ pc \in {"head", "decodeHead", "body", "decodeData", "write", "check", "closed",
            "killed"}
  /\ at \in Nat
  /\ rd \in Nat
  /\ headGot \in 0..MSG_HEAD_SIZE /\ bodyGot \in 0..MAX_LEN
  /\ calls \in 0..MAX_WRITES
  /\ msgHead \in HeadFields
  /\ served \in Seq(Call)
  /\ str \in Reply
  /\ put \in Nat
  /\ out \in Seq(Sent)
  /\ time_sec2 \in Nat
  /\ vtimer \in BOOLEAN
  /\ g_isExit \in BOOLEAN

\* sniffer_Open has just returned: the tty is open, its input flushed.
Init ==
  /\ sent = <<>> /\ top = 0 /\ link = "up"
  /\ pc = "head" /\ at = 0 /\ rd = 0
  /\ headGot = 0 /\ bodyGot = 0 /\ calls = 0
  /\ msgHead = NoHead
  /\ served = <<>> /\ str = NoReply /\ put = 0 /\ out = <<>>
  /\ time_sec2 = 10 /\ vtimer = FALSE
  /\ g_isExit = FALSE

-----------------------------------------------------------------------------
(* The phone and the operator. *)

PhoneSend(m) ==
  /\ link = "up" /\ Len(sent) < MaxFrames
  /\ sent' = Append(sent, [at |-> top, msg |-> m])
  /\ top' = top + FrameLen(m)
  /\ UNCHANGED <<link, pc, readVars, msgHead, effectVars, g_isExit>>

\* The tty is hung up: what was not read is gone.
Hangup ==
  /\ link = "up"
  /\ link' = "hungup"
  /\ UNCHANGED <<sent, top, pc, readVars, msgHead, effectVars, g_isExit>>

\* "q" in main.
Quit ==
  /\ ~g_isExit /\ pc # "killed"
  /\ g_isExit' = TRUE
  /\ UNCHANGED <<phoneVars, pc, readVars, msgHead, effectVars>>

-----------------------------------------------------------------------------
(* th_RDWR. *)

\* readLenData(fd, recvBuf + .., lenIn) on one part of the frame, of which
\* have characters are in: one step of the call takes that to now, and the
\* call returns to step next.  Too long a request is refused unread.
ReadRefused(have, now, lenIn, next) ==
  /\ lenIn > MAX_LEN
  /\ pc' = next /\ calls' = 0
  /\ now = have /\ rd' = rd

\* Slip: the call returns after its first read.
ReadChunkOnce(have, now, lenIn, next) ==
  /\ lenIn <= MAX_LEN /\ now >= have
  /\ \/ link = "up" /\ rd < top /\ now - have \in Chunks(lenIn - have, top - rd)
     \/ (link = "hungup" \/ lenIn = have) /\ now = have
  /\ rd' = rd + (now - have)
  /\ pc' = next /\ calls' = 0

\* Slip: the count of reads is kept from one call to the next.
ReadChunkStaleCount(have, now, lenIn, next) ==
  /\ lenIn <= MAX_LEN /\ now >= have
  /\ \/ link = "up" /\ rd < top /\ now - have \in Chunks(lenIn - have, top - rd)
     \/ (link = "hungup" \/ lenIn = have) /\ now = have
  /\ rd' = rd + (now - have)
  /\ calls' = (calls + 1) % MAX_READS
  /\ pc' = IF now >= lenIn \/ calls + 1 >= MAX_READS THEN next ELSE pc

\* One read(); a hung up tty returns no character.
ReadChunk(have, now, lenIn, next) ==
  /\ lenIn <= MAX_LEN /\ now >= have
  /\ \/ link = "up" /\ rd < top /\ now - have \in Chunks(lenIn - have, top - rd)
     \/ (link = "hungup" \/ lenIn = have) /\ now = have
  /\ rd' = rd + (now - have)
  /\ IF now >= lenIn \/ calls + 1 >= MAX_READS
     THEN pc' = next /\ calls' = 0
     ELSE pc' = pc /\ calls' = calls + 1

\* A failed read(): what this call had already taken is dropped.
ReadError(now, lenIn, next) ==
  /\ lenIn <= MAX_LEN /\ link = "hungup"
  /\ pc' = next /\ calls' = 0
  /\ now = 0 /\ rd' = rd

ReadLenData(have, now, lenIn, next) ==
  \/ ReadRefused(have, now, lenIn, next)
  \/ ReadChunk(have, now, lenIn, next)
  \/ ReadError(now, lenIn, next)

\* Slip: one character more than the head has is asked for.
ReadHeadTooMuch ==
  /\ pc = "head"
  /\ \E now \in 0..MSG_HEAD_SIZE :
       /\ ReadLenData(headGot, now, MSG_HEAD_SIZE + 1, "decodeHead")
       /\ headGot' = now
  /\ UNCHANGED <<phoneVars, at, bodyGot, msgHead, effectVars, g_isExit>>

ReadHead ==
  /\ pc = "head"
  /\ \E now \in 0..MSG_HEAD_SIZE :
       /\ ReadLenData(headGot, now, MSG_HEAD_SIZE, "decodeHead")
       /\ headGot' = now
  /\ UNCHANGED <<phoneVars, at, bodyGot, msgHead, effectVars, g_isExit>>

\* A head taken from a frame boundary decodes to what was sent, a truncated
\* one to the digits that came; any other text decodes to anything.
DecodeRecvHead ==
  /\ pc = "decodeHead"
  /\ \/ \E i \in FramesAt(at) : msgHead' = HeadOf(sent[i].msg, headGot)
     \/ FramesAt(at) = {} /\ headGot > 0 /\ msgHead' \in Garbled
     \/ headGot = 0 /\ msgHead' = NoHead
  /\ pc' = "body"
  /\ UNCHANGED <<phoneVars, readVars, effectVars, g_isExit>>

ReadBody ==
  /\ pc = "body"
  /\ \E now \in 0..MAX_LEN :
       /\ ReadLenData(bodyGot, now, msgHead.msgSize, "decodeData")
       /\ bodyGot' = now
  /\ UNCHANGED <<phoneVars, at, headGot, msgHead, effectVars, g_isExit>>

\* Empty text is refused; otherwise the command named by the head is carried
\* out on whatever body came.  StartType, the last field of MT_SCAN_PARA, is
\* read as sent when the frame is whole, 0 when it is cut short.
DecodeRecvData ==
  /\ pc = "decodeData"
  /\ pc' = "write"
  /\ IF headGot = 0
     THEN UNCHANGED <<served, str, time_sec2, vtimer>>
     ELSE LET whole == {i \in FramesAt(at) : WholeFrame(i)} IN
          /\ served' = Append(served,
               [frame   |-> IF FramesAt(at) = {} THEN 0 ELSE CHOOSE i \in FramesAt(at) : TRUE,
                msgType |-> msgHead.msgType,
                whole   |-> whole # {}])
          /\ str' = ReplyFor(msgHead.msgType)
          /\ time_sec2' = IF msgHead.msgType \in {MT_STATION_REQ, MT_POSITION_PARA}
                          THEN 10 ELSE time_sec2
          /\ IF msgHead.msgType = MT_SCAN_PARA
             THEN \/ \E i \in whole : vtimer' = (vtimer \/ sent[i].msg.StartType = 1)
                  \/ whole = {} /\ FramesAt(at) # {} /\ vtimer' = vtimer
                  \/ FramesAt(at) = {} /\ vtimer' \in {vtimer, TRUE}
             ELSE vtimer' = vtimer
  /\ UNCHANGED <<phoneVars, readVars, msgHead, put, out, g_isExit>>

\* writeLenData returns after writing n characters; after tells how many
\* commands had been carried out by then.
Written(n) ==
  /\ pc' = "check" /\ calls' = 0 /\ put' = n
  /\ out' = IF str = NoReply THEN out
            ELSE Append(out, [msgType |-> str.msgType, msgSize |-> str.msgSize,
                              len |-> str.len, put |-> n, after |-> Len(served)])

\* Slip: the call returns after its first write.
WriteOnce ==
  /\ pc = "write"
  /\ \/ link = "hungup" /\ Written(put)
     \/ /\ link = "up"
        /\ \E k \in Chunks(str.len - put, str.len - put) : Written(put + k)
  /\ UNCHANGED <<phoneVars, at, rd, headGot, bodyGot, msgHead, served, str, time_sec2, vtimer, g_isExit>>

\* Slip: the -1 of a failed write is added to the count.
WriteCountsError ==
  /\ pc = "write"
  /\ \/ link = "hungup" /\ Written(put - 1)
     \/ /\ link = "up"
        /\ \E k \in Chunks(str.len - put, str.len - put) :
             IF put + k >= str.len \/ calls + 1 >= MAX_WRITES
             THEN Written(put + k)
             ELSE put' = put + k /\ calls' = calls + 1 /\ UNCHANGED <<pc, out>>
  /\ UNCHANGED <<phoneVars, at, rd, headGot, bodyGot, msgHead, served, str, time_sec2, vtimer, g_isExit>>

\* One turn of the loop of writeLenData(fd, str, strlen(str)).  A hung up tty
\* fails the write, of no characters too.
WriteLenData ==
  /\ pc = "write"
  /\ \/ link = "hungup" /\ Written(put)
     \/ /\ link = "up"
        /\ \E k \in Chunks(str.len - put, str.len - put) :
             IF put + k >= str.len \/ calls + 1 >= MAX_WRITES
             THEN Written(put + k)
             ELSE put' = put + k /\ calls' = calls + 1 /\ UNCHANGED <<pc, out>>
  /\ UNCHANGED <<phoneVars, at, rd, headGot, bodyGot, msgHead, served, str, time_sec2, vtimer, g_isExit>>

\* Slip: the exit flag is looked at only after a command.
CheckExitAfterText ==
  /\ pc = "check"
  /\ pc' = IF g_isExit /\ headGot > 0 THEN "closed" ELSE "head"
  /\ at' = rd
  /\ headGot' = 0 /\ bodyGot' = 0
  /\ msgHead' = NoHead
  /\ str' = NoReply /\ put' = 0
  /\ UNCHANGED <<phoneVars, rd, calls, served, out, time_sec2, vtimer, g_isExit>>

\* Slip: the reply buffer is not cleared.
CheckExitKeepsReply ==
  /\ pc = "check"
  /\ pc' = IF g_isExit THEN "closed" ELSE "head"
  /\ at' = rd
  /\ headGot' = 0 /\ bodyGot' = 0
  /\ msgHead' = NoHead
  /\ str' = str /\ put' = 0
  /\ UNCHANGED <<phoneVars, rd, calls, served, out, time_sec2, vtimer, g_isExit>>

\* End of the loop body: leave on exit, otherwise clear the buffers.
CheckExit ==
  /\ pc = "check"
  /\ pc' = IF g_isExit THEN "closed" ELSE "head"
  /\ at' = rd
  /\ headGot' = 0 /\ bodyGot' = 0
  /\ msgHead' = NoHead
  /\ str' = NoReply /\ put' = 0
  /\ UNCHANGED <<phoneVars, rd, calls, served, out, time_sec2, vtimer, g_isExit>>

Reader ==
  \/ ReadHead \/ DecodeRecvHead \/ ReadBody \/ DecodeRecvData
  \/ WriteLenData \/ CheckExit

\* The virtual timer that a command of StartType 1 has armed expires: the
\* default build installs no handler, so the signal ends the process, and the
\* link with it.
Killed ==
  /\ vtimer /\ pc \notin {"closed", "killed"}
  /\ pc' = "killed" /\ link' = "hungup"
  /\ UNCHANGED <<sent, top, readVars, msgHead, effectVars, g_isExit>>

\* th_RDWR has left its loop: nothing more happens on this tty.
Closed == pc \in {"closed", "killed"} /\ UNCHANGED vars

Next ==
  \/ \E m \in Message : PhoneSend(m)
  \/ Hangup \/ Quit
  \/ Reader
  \/ Killed \/ Closed

Spec == Init /\ [][Next]_vars
FairSpec == Spec /\ WF_vars(Reader)
-----------------------------------------------------------------------------
(* Properties. *)

\* The first n frames are all frames the decoder accepts.
CleanTo(n) == n <= Len(sent) /\ \A i \in 1..n : Good(sent[i].msg)

\* Framing (readLenData, DecodeRecvHead, DecodeRecvData): as long as the
\* phone has only written frames the decoder accepts, the n-th command
\* carried out is the n-th frame written, recognised by its own type, and
\* none is skipped, repeated or put together from two frames, however the
\* tty cuts the stream.  The one exception is the last command after a
\* hang-up, which may have been cut short.
FramesServedInOrder ==
  \A n \in 1..Len(served) : CleanTo(n) =>
    \/ /\ served[n].whole
       /\ served[n].frame = n
       /\ served[n].msgType = sent[n].msg.msgType
    \/ ~served[n].whole /\ n = Len(served) /\ link = "hungup"

ReplyType(t) ==
  CASE t = MT_STATION_REQ   -> MT_STAT_INFO
    [] t = MT_SCAN_PARA     -> MT_ENB_INFO
    [] t = MT_POSITION_PARA -> MT_TARG_INFO
    [] OTHER                -> 0

HasReply(i) == ReplyType(served[i].msgType) # 0
Complete(r) == r.put = r.len

\* One answer per command (DecodeRecvData, writeLenData): the replies that
\* reached the tty are those of the commands carried out, in their order, none
\* twice and none left out but the last one while it is being written, or when
\* the process was killed at that; and only a hang-up can leave a reply
\* incomplete, the last one again.
OneReplyPerCommand ==
  /\ \A n \in 1..Len(out) :
       /\ out[n].after \in 1..Len(served) /\ HasReply(out[n].after)
       /\ out[n].msgType = ReplyType(served[out[n].after].msgType)
       /\ ~Complete(out[n]) => n = Len(out) /\ link = "hungup"
  /\ \A m, n \in 1..Len(out) : m < n => out[m].after < out[n].after
  /\ \A i \in 1..Len(served) : HasReply(i) =>
       \/ \E n \in 1..Len(out) : out[n].after = i
       \/ i = Len(served) /\ pc \in {"write", "killed"}

\* Every frame is carried out, unless the session ends first: the reader
\* never waits for characters that the frame does not have.
EveryFrameServed ==
  \A i \in 1..MaxFrames :
    Len(sent) >= i ~>
      (\E n \in 1..Len(served) : served[n].frame = i /\ served[n].whole)
      \/ link = "hungup" \/ pc = "closed"

\* After "q", a hung up tty lets the thread leave its loop: the read that
\* blocked it returns, nothing else in the loop can block.  A timer that kills
\* the process ends it too.
ExitAfterHangup == (g_isExit /\ link = "hungup") ~> (pc \in {"closed", "killed"})

\* The steps the thread can still take in this turn of its loop, at most: its
\* place, then what is left of the reads of the call it is in.
TurnLeft ==
  LET place == [head |-> 6, decodeHead |-> 5, body |-> 4, decodeData |-> 3,
                write |-> 2, check |-> 1, closed |-> 0, killed |-> 0][pc]
  IN  30 * place + (IF pc \in {"head", "body"} THEN MAX_WRITES - calls ELSE 0)

\* After "q" a hung up tty ends the turn the thread is in, and the loop with
\* it: every read and write returns, no read is tried for ever, and the exit is
\* seen at the end of the turn, whether a command was read or not.
TurnsToExit == [][g_isExit /\ link = "hungup" => TurnLeft' < TurnLeft]_vars

\* The size announced in the head of a reply is the number of characters of
\* its body (GetStrSize, MakeSendData).
AnnouncedSize ==
  \A n \in 1..Len(out) : out[n].len = MSG_HEAD_SIZE + out[n].msgSize

\* The commands that wait: those whose frames DecodeRecvData has not run on,
\* none after a frame that was cut short.
Unserved == [n \in 1..(Len(sent) - Len(served)) |-> sent[Len(served) + n].msg]
BrokenOff == \E n \in 1..Len(served) : ~served[n].whole

\* Only the last reply can be incomplete.
CompleteReplies ==
  IF Len(out) > 0 /\ ~Complete(out[Len(out)]) THEN Len(out) - 1 ELSE Len(out)

Waiting == IF BrokenOff THEN <<>> ELSE Unserved
Owed    == IF pc = "write" THEN str.msgType ELSE 0
Replied == [n \in 1..CompleteReplies |-> out[n].msgType]
LinkUp  == link = "up" /\ pc # "closed"

\* The session implements the command service, with its fairness.
Service == INSTANCE CommandService WITH
  ReplyTo <- ReplyType,
  inbox <- Waiting, owed <- Owed, answered <- Replied, up <- LinkUp

ImplementsService == Service!FairSpec
-----------------------------------------------------------------------------
(* Why the framing holds: the strengthening of FramesServedInOrder that is *)
(* inductive when a read moves at least eleven characters, so that eleven  *)
(* reads are enough for the longest body.                                  *)

\* Where frame n starts, or will start.
Pos(n) == IF n <= Len(sent) THEN sent[n].at ELSE top

\* The frames cover the stream without gaps and in order.
Tiled ==
  /\ Pos(1) = 0
  /\ \A i \in 1..Len(sent) :
       /\ Pos(i + 1) = sent[i].at + FrameLen(sent[i].msg)
       /\ sent[i].at + FrameLen(sent[i].msg) <= top
  /\ \A i, j \in 1..Len(sent) :
       i < j => sent[i].at + FrameLen(sent[i].msg) <= sent[j].at

Reading == {"head", "decodeHead", "body", "decodeData"}
Current == Len(served) + 1

\* A frame the decoder does not accept has been handled: nothing is promised.
Tainted == \E i \in 1..Len(sent) : i <= Len(served) /\ ~Good(sent[i].msg)

\* The link is gone and no text will be found in the buffer any more.
Lost ==
  /\ link = "hungup"
  /\ Len(served) <= Len(sent)
  /\ pc \in Reading => headGot = 0

\* The reader is where the number of commands carried out says.
InStep ==
  /\ Len(served) <= Len(sent)
  /\ Len(served) > 0 => served[Len(served)].whole
  /\ pc \in Reading => at = Pos(Current) /\ (headGot > 0 => Current <= Len(sent))
  /\ pc = "head" =>
       /\ bodyGot = 0 /\ rd = at + headGot
       /\ link = "up" => headGot >= 11 * calls
  /\ pc = "decodeHead" =>
       /\ bodyGot = 0 /\ calls = 0
       /\ headGot > 0 => rd = at + headGot
       /\ link = "up" => headGot = MSG_HEAD_SIZE
  /\ pc = "body" =>
       /\ link = "up" => headGot = MSG_HEAD_SIZE /\ bodyGot >= 11 * calls
       /\ headGot > 0 => /\ msgHead = HeadOf(sent[Current].msg, headGot)
                         /\ rd = at + headGot + bodyGot
                         /\ bodyGot <= msgHead.msgSize
  /\ pc = "decodeData" =>
       /\ link = "up" => headGot = MSG_HEAD_SIZE
       /\ headGot > 0 =>
            /\ msgHead = HeadOf(sent[Current].msg, headGot)
            /\ bodyGot = msgHead.msgSize => rd = at + headGot + bodyGot
            /\ link = "up" /\ Good(sent[Current].msg) => bodyGot = msgHead.msgSize
  /\ pc \in {"write", "check"} => rd = Pos(Current)
  /\ pc = "check" => calls = 0

FrameInv == Tiled /\ (Tainted \/ Lost \/ InStep) /\ FramesServedInOrder
=============================================================================
