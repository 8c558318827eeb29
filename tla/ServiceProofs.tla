---------------------------- MODULE ServiceProofs ----------------------------
(***************************************************************************)
(* Proofs about Session: one reply per command, the command service that   *)
(* the session implements, and the way out of its loop, for every set of   *)
(* messages and every number of frames.                                    *)
(***************************************************************************)
EXTENDS SessionProofs

-----------------------------------------------------------------------------
(* The replies. *)

LEMMA ReplyForAnswer ==
  ASSUME NEW t \in Nat
  PROVE  /\ ReplyFor(t).msgType = ReplyType(t)
         /\ ReplyFor(t) = NoReply <=> ReplyType(t) = 0
         /\ ReplyFor(t) # NoReply => ReplyFor(t).len \in 1 .. 76
  BY DEF ReplyFor, ReplyType, NoReply, MT_STATION_REQ, MT_SCAN_PARA, MT_POSITION_PARA,
         MT_STAT_INFO, MT_ENB_INFO, MT_TARG_INFO

\* The last command carried out has its reply, if it needs one.
Answered(i) == HasReply(i) => \E n \in 1..Len(out) : out[n].after = i

\* The replies written up to now are in the order of their commands.
OutInv ==
  /\ \A n \in 1..Len(out) :
       /\ out[n].after \in 1..Len(served) /\ HasReply(out[n].after)
       /\ out[n].msgType = ReplyType(served[out[n].after].msgType)
       /\ out[n].put <= out[n].len
  /\ \A m, n \in 1..Len(out) : m < n => out[m].after < out[n].after
  /\ \A i \in 1..Len(served) : i # Len(served) => Answered(i)

\* str is the reply of the last command, and the command has no other one.
WritingInv ==
  /\ pc \notin {"write", "killed"} /\ Len(served) > 0 => Answered(Len(served))
  /\ pc \in Reading => str = NoReply /\ put = 0
  /\ pc = "decodeData" => calls = 0
  /\ pc = "write" /\ str = NoReply => put = 0 /\ (Len(served) > 0 => Answered(Len(served)))
  /\ pc = "write" /\ str # NoReply =>
       /\ Len(served) > 0 /\ str = ReplyFor(served[Len(served)].msgType)
       /\ \A n \in 1..Len(out) : out[n].after # Len(served)
       /\ put < str.len
       /\ link = "up" => put >= 4 * calls

\* A reply that is incomplete is the last one: no text will come any more.
CutInv ==
  \A n \in 1..Len(out) : ~Complete(out[n]) =>
    /\ n = Len(out) /\ link = "hungup"
    /\ pc \in Reading => headGot = 0
    /\ pc = "write" => str = NoReply

ReplyInv == OutInv /\ WritingInv /\ CutInv

LEMMA ReplyInit == Init => ReplyInv
  BY DEF Init, ReplyInv, OutInv, WritingInv, CutInv, Reading, Answered, NoReply

\* The steps that touch neither the commands nor the replies.
LEMMA ReplySame ==
  ASSUME TypeOK, ReplyInv, UNCHANGED <<served, out, str, put>>,
         \/ pc' = pc /\ calls' = calls
         \/ {pc, pc'} \subseteq Reading /\ (pc' = "decodeData" => calls' = 0),
         link' \in {link, "hungup"},
         pc \in Reading /\ link = "hungup" /\ headGot = 0 => headGot' = 0
  PROVE  ReplyInv'
<1>1. OutInv'
  BY DEF ReplyInv, OutInv, Answered, HasReply
<1>2. WritingInv'
  BY DEF ReplyInv, WritingInv, Answered, HasReply, Reading
<1>3. CutInv'
  BY DEF ReplyInv, CutInv, Reading, Complete, TypeOK
<1> QED
  BY <1>1, <1>2, <1>3 DEF ReplyInv

\* What a step of readLenData leaves of the loop and the link.
LEMMA ReadReply ==
  ASSUME NEW have \in Nat, NEW now \in Nat, NEW lenIn \in Nat, NEW next,
         ReadLenData(have, now, lenIn, next)
  PROVE  /\ pc' = pc \/ (pc' = next /\ calls' = 0)
         /\ link = "hungup" /\ have = 0 => now = 0
<1>1. CASE ReadRefused(have, now, lenIn, next)
  BY <1>1 DEF ReadRefused
<1>2. CASE ReadError(now, lenIn, next)
  BY <1>2 DEF ReadError
<1>3. CASE ReadChunk(have, now, lenIn, next)
  BY <1>3 DEF ReadChunk
<1> QED
  BY <1>1, <1>2, <1>3 DEF ReadLenData

LEMMA ReplyReads ==
  ASSUME TypeOK, ReplyInv, ReadHead \/ DecodeRecvHead \/ ReadBody
  PROVE  ReplyInv'
<1> USE DEF phoneVars, readVars, effectVars
<1>1. CASE ReadHead
  <2>1. PICK now \in 0..MSG_HEAD_SIZE :
          ReadLenData(headGot, now, MSG_HEAD_SIZE, "decodeHead") /\ headGot' = now
    BY <1>1 DEF ReadHead
  <2>2. headGot \in Nat /\ now \in Nat /\ MSG_HEAD_SIZE \in Nat
    BY DEF TypeOK, MSG_HEAD_SIZE
  <2>3. /\ pc' = pc \/ pc' = "decodeHead"
        /\ link = "hungup" /\ headGot = 0 => headGot' = 0
    BY <2>1, <2>2, ReadReply
  <2>4. pc = "head" /\ UNCHANGED <<link, served, out, str, put>>
    BY <1>1 DEF ReadHead
  <2> QED
    BY <2>3, <2>4, ReplySame DEF Reading
<1>2. CASE DecodeRecvHead
  BY <1>2, ReplySame DEF DecodeRecvHead, Reading
<1>3. CASE ReadBody
  <2>1. PICK now \in 0..MAX_LEN :
          ReadLenData(bodyGot, now, msgHead.msgSize, "decodeData")
    BY <1>3 DEF ReadBody
  <2>2. bodyGot \in Nat /\ now \in Nat /\ msgHead.msgSize \in Nat
    BY DEF TypeOK, MAX_LEN, HeadFields
  <2>3. pc' = pc \/ (pc' = "decodeData" /\ calls' = 0)
    BY <2>1, <2>2, ReadReply
  <2>4. pc = "body" /\ UNCHANGED <<link, served, out, str, put, headGot>>
    BY <1>3 DEF ReadBody
  <2> QED
    BY <2>3, <2>4, ReplySame DEF Reading
<1> QED
  BY <1>1, <1>2, <1>3

\* A command is carried out: its reply is the one to be written next.
LEMMA ReplyServe ==
  ASSUME TypeOK, ReplyInv, DecodeRecvData
  PROVE  ReplyInv'
<1> USE DEF phoneVars, readVars
<1> DEFINE L == Len(served)
<1>1. /\ pc = "decodeData" /\ pc' = "write" /\ UNCHANGED <<link, out, put, calls, headGot>>
  BY DEF DecodeRecvData
<1>2. /\ L \in Nat /\ put = 0 /\ calls = 0 /\ str = NoReply
      /\ L > 0 => Answered(L)
  BY <1>1, LenNat DEF ReplyInv, WritingInv, Reading
<1>3. CASE headGot = 0
  <2>1. UNCHANGED <<served, str>>
    BY <1>3 DEF DecodeRecvData
  <2>2. OutInv'
    BY <1>1, <2>1 DEF ReplyInv, OutInv, Answered, HasReply
  <2>3. WritingInv'
    BY <1>1, <1>2, <2>1 DEF WritingInv, Answered, HasReply, Reading
  <2>4. CutInv'
    BY <1>1, <1>2, <2>1 DEF ReplyInv, CutInv, Reading, Complete
  <2> QED
    BY <2>2, <2>3, <2>4 DEF ReplyInv
<1>4. CASE headGot # 0
  <2> DEFINE t == msgHead.msgType
  <2>1. /\ Len(served') = L + 1 /\ \A n \in 1..L : served'[n] = served[n]
        /\ served'[L + 1].msgType = t
    BY <1>4, DataStep
  <2>2. str' = ReplyFor(t) /\ t \in Nat
    BY <1>4 DEF DecodeRecvData, TypeOK, HeadFields
  <2>3. \A n \in 1..Len(out) : out[n].after \in 1..L
    BY DEF ReplyInv, OutInv
  <2>4. \A i \in 1..L : HasReply(i)' <=> HasReply(i)
    BY <2>1 DEF HasReply
  <2>5. \A i \in 1..L : Answered(i)'
    BY <1>1, <1>2, <2>4 DEF ReplyInv, OutInv, Answered
  <2>6. OutInv'
    <3>1. \A n \in 1..Len(out) :
            /\ out[n].after \in 1..(L + 1) /\ HasReply(out[n].after)'
            /\ out[n].msgType = ReplyType(served'[out[n].after].msgType)
            /\ out[n].put <= out[n].len
      BY <1>1, <1>2, <2>1, <2>3 DEF ReplyInv, OutInv, HasReply
    <3> QED
      BY <1>1, <1>2, <2>1, <2>5, <3>1 DEF ReplyInv, OutInv
  <2>7. WritingInv'
    <3>1. str' = NoReply <=> ReplyType(t) = 0
      BY <2>2, ReplyForAnswer
    <3>2. str' # NoReply => str'.len \in 1 .. 76
      BY <2>2, ReplyForAnswer
    <3>3. str' = NoReply => Answered(Len(served))'
      BY <2>1, <3>1 DEF Answered, HasReply
    <3>4. /\ Len(served') > 0 /\ str' = ReplyFor(served'[Len(served')].msgType)
          /\ \A n \in 1..Len(out') : out'[n].after # Len(served')
      BY <1>1, <1>2, <2>1, <2>2, <2>3
    <3>5. str' # NoReply => put' < str'.len /\ put' >= 4 * calls'
      <4>1. put' = 0 /\ calls' = 0
        BY <1>1, <1>2
      <4> QED
        BY <3>2, <4>1
    <3> HIDE DEF L, t
    <3> QED
      BY <1>1, <1>2, <3>3, <3>4, <3>5 DEF WritingInv, Reading
  <2>8. CutInv'
    BY <1>1, <1>4 DEF ReplyInv, CutInv, Reading, Complete
  <2> QED
    BY <2>6, <2>7, <2>8 DEF ReplyInv
<1> QED
  BY <1>3, <1>4

\* writeLenData returns: the reply that was written stands in out, whole unless
\* the link is gone.
LEMMA ReplyWritten ==
  ASSUME TypeOK, ReplyInv, pc = "write", NEW n \in Nat, Written(n), n <= str.len,
         n < str.len => link = "hungup", UNCHANGED <<link, served, str>>
  PROVE  ReplyInv'
<1> DEFINE L == Len(served)
           r == [msgType |-> str.msgType, msgSize |-> str.msgSize,
                 len |-> str.len, put |-> n, after |-> Len(served)]
<1>1. pc' = "check" /\ out \in Seq(Sent) /\ L \in Nat
  BY LenNat DEF Written, TypeOK
<1>2. CASE str = NoReply
  <2>1. out' = out
    BY <1>2 DEF Written
  <2>2. OutInv' /\ CutInv'
    BY <1>1, <2>1 DEF ReplyInv, OutInv, CutInv, Answered, HasReply, Reading, Complete
  <2>3. WritingInv'
    BY <1>1, <1>2, <2>1 DEF ReplyInv, WritingInv, Answered, HasReply, Reading
  <2> QED
    BY <2>2, <2>3 DEF ReplyInv
<1>3. CASE str # NoReply
  <2>1. /\ out' = Append(out, r) /\ r \in Sent
        /\ r.after = L /\ r.msgType = str.msgType /\ r.put = n /\ r.len = str.len
    BY <1>1, <1>3 DEF Written, TypeOK, Reply, Sent
  <2> HIDE DEF r
  <2>2. /\ Len(out') = Len(out) + 1 /\ Len(out) \in Nat
        /\ \A x \in 1..Len(out) : out'[x] = out[x]
        /\ out'[Len(out) + 1] = r
    BY <1>1, <2>1, AppendProperties, LenProperties
  <2>3. L > 0 /\ str = ReplyFor(served[L].msgType)
    BY <1>3 DEF ReplyInv, WritingInv
  <2>4. HasReply(L) /\ r.msgType = ReplyType(served[L].msgType)
    <3>1. served[L].msgType \in Nat
      <4>1. served \in Seq(Call) /\ L \in 1..Len(served)
        BY <1>1, <2>3 DEF TypeOK
      <4>2. served[L] \in Call
        BY <4>1, ElementOfSeq
      <4> QED
        BY <4>2 DEF Call
    <3> QED
      BY <1>3, <2>1, <2>3, <3>1, ReplyForAnswer DEF HasReply
  <2>5. \A x \in 1..Len(out) : /\ Complete(out[x]) /\ out[x].after \in 1..L
                               /\ out[x].after < L
    <3>1. \A x \in 1..Len(out) : out[x].after # L /\ out[x].after \in 1..L
      BY <1>3 DEF ReplyInv, WritingInv, OutInv
    <3>2. \A x \in 1..Len(out) : Complete(out[x])
      BY <1>3 DEF ReplyInv, CutInv
    <3> QED
      BY <1>1, <3>1, <3>2
  <2>6. OutInv'
    <3>1. \A x \in 1..Len(out') :
            /\ out'[x].after \in 1..L /\ HasReply(out'[x].after)
            /\ out'[x].msgType = ReplyType(served[out'[x].after].msgType)
            /\ out'[x].put <= out'[x].len
      BY <1>1, <2>1, <2>2, <2>3, <2>4, <2>5 DEF ReplyInv, OutInv
    <3>2. \A x, y \in 1..Len(out') : x < y => out'[x].after < out'[y].after
      BY <2>1, <2>2, <2>5 DEF ReplyInv, OutInv
    <3>3. \A i \in 1..L : i # L => Answered(i)'
      BY <2>2 DEF ReplyInv, OutInv, Answered, HasReply
    <3> QED
      BY <3>1, <3>2, <3>3 DEF OutInv, HasReply
  <2>7. WritingInv'
    <3>1. Answered(L)'
      BY <1>1, <2>1, <2>2 DEF Answered
    <3> QED
      BY <1>1, <3>1 DEF WritingInv, Answered, HasReply, Reading
  <2>8. CutInv'
    <3>1. str.len \in Nat
      BY DEF TypeOK, Reply
    <3>2. ~Complete(r) => link = "hungup"
      BY <2>1, <3>1 DEF Complete
    <3>3. \A x \in 1..Len(out') : ~Complete(out'[x]) => x = Len(out') /\ link = "hungup"
      BY <2>2, <2>5, <3>2
    <3> QED
      BY <1>1, <3>3 DEF CutInv, Complete, Reading
  <2> QED
    BY <2>6, <2>7, <2>8 DEF ReplyInv
<1> QED
  BY <1>2, <1>3

LEMMA ReplyWrites ==
  ASSUME MinChunk >= 4, TypeOK, ReplyInv, WriteLenData
  PROVE  ReplyInv'
<1> USE DEF phoneVars, readVars
<1>1. pc = "write" /\ UNCHANGED <<link, served, str, headGot>>
  BY DEF WriteLenData
<1>2. put \in Nat /\ str.len \in Nat /\ calls \in 0..21 /\ MinChunk \in Nat
  BY ChunkAssumption DEF TypeOK, Reply, MAX_WRITES
<1>3. /\ put <= str.len /\ str.len <= 76
      /\ str # NoReply => put < str.len /\ (link = "up" => put >= 4 * calls)
      /\ str = NoReply => str.len = 0
  <2>1. CASE str = NoReply
    BY <1>1, <2>1 DEF ReplyInv, WritingInv, NoReply
  <2>2. CASE str # NoReply
    <3>1. Len(served) > 0 /\ str = ReplyFor(served[Len(served)].msgType) /\ put < str.len
          /\ (link = "up" => put >= 4 * calls)
      BY <1>1, <2>2 DEF ReplyInv, WritingInv
    <3>2. served[Len(served)].msgType \in Nat
      <4>1. served \in Seq(Call) /\ Len(served) \in 1..Len(served)
        BY <3>1, LenNat DEF TypeOK
      <4>2. served[Len(served)] \in Call
        BY <4>1, ElementOfSeq
      <4> QED
        BY <4>2 DEF Call
    <3>3. ReplyFor(served[Len(served)].msgType).len \in 1..76
      BY <2>2, <3>1, <3>2, ReplyForAnswer
    <3>4. str.len \in 1..76
      BY <3>1, <3>3, Zenon
    <3>5. put <= str.len /\ str.len <= 76
      <4>1. put < str.len
        BY <3>1
      <4> QED
        BY <1>2, <3>4, <4>1
    <3> QED
      BY <2>2, <3>1, <3>5, Zenon
  <2> QED
    BY <2>1, <2>2
<1>4. CASE link = "hungup" /\ Written(put)
  BY <1>1, <1>2, <1>3, <1>4, ReplyWritten
<1>5. ASSUME link = "up", NEW k \in Chunks(str.len - put, str.len - put),
             IF put + k >= str.len \/ calls + 1 >= MAX_WRITES
             THEN Written(put + k)
             ELSE put' = put + k /\ calls' = calls + 1 /\ UNCHANGED <<pc, out>>
      PROVE  ReplyInv'
  <2>1. k \in Nat /\ k <= str.len - put /\ (k >= MinChunk \/ k = str.len - put)
    <3>1. str.len - put \in Nat
      BY <1>2, <1>3
    <3> QED
      BY <3>1, ChunkRange
  <2>2. CASE Written(put + k)
    <3>1. put + k \in Nat /\ put + k <= str.len
      BY <1>2, <2>1
    <3>2. ~(put + k < str.len)
      <4> SUFFICES ASSUME put + k < str.len PROVE FALSE
        OBVIOUS
      <4>1. k >= 4 /\ str # NoReply /\ put >= 4 * calls /\ calls + 1 <= 19
        BY <1>2, <1>3, <1>5, <2>1
      <4>2. pc' = pc
        BY <1>2, <1>5, <2>1, <4>1 DEF MAX_WRITES
      <4> QED
        BY <1>1, <2>2, <4>2 DEF Written
    <3> QED
      BY <1>1, <2>2, <3>1, <3>2, ReplyWritten
  <2>3. CASE /\ put + k < str.len
             /\ put' = put + k /\ calls' = calls + 1 /\ UNCHANGED <<pc, out>>
    <3>1. str # NoReply /\ k >= 4 /\ put' >= 4 * calls' /\ put' < str.len
      BY <1>2, <1>3, <1>5, <2>1, <2>3
    <3>2. OutInv' /\ CutInv'
      BY <1>1, <2>3 DEF ReplyInv, OutInv, CutInv, Answered, HasReply, Complete, Reading
    <3>3. WritingInv'
      BY <1>1, <2>3, <3>1 DEF ReplyInv, WritingInv, Answered, HasReply, Reading
    <3> QED
      BY <3>2, <3>3 DEF ReplyInv
  <2> QED
    BY <1>2, <1>5, <2>1, <2>2, <2>3 DEF MAX_WRITES
<1> QED
  BY <1>4, <1>5 DEF WriteLenData

LEMMA ReplyNext ==
  ASSUME MinChunk >= 4, TypeOK, ReplyInv, [Next]_vars
  PROVE  ReplyInv'
<1> USE DEF phoneVars, readVars, effectVars
<1>1. ASSUME (\E m \in Message : PhoneSend(m)) \/ Hangup \/ Quit \/ Closed \/ UNCHANGED vars
      PROVE  ReplyInv'
  <2>1. UNCHANGED <<served, out, str, put, pc, calls, headGot>> /\ link' \in {link, "hungup"}
    BY <1>1 DEF PhoneSend, Hangup, Quit, Closed, vars
  <2> QED
    BY <2>1, ReplySame
<1>2. CASE CheckExit
  <2>1. /\ pc = "check" /\ pc' \in {"head", "closed"} /\ UNCHANGED <<link, served, out>>
        /\ headGot' = 0 /\ str' = NoReply /\ put' = 0
    BY <1>2 DEF CheckExit
  <2>2. OutInv' /\ CutInv'
    BY <2>1 DEF ReplyInv, OutInv, CutInv, Answered, HasReply, Complete, Reading
  <2>3. WritingInv'
    BY <2>1 DEF ReplyInv, WritingInv, Answered, HasReply, Reading
  <2> QED
    BY <2>2, <2>3 DEF ReplyInv
<1>3. CASE Killed
  <2>1. /\ UNCHANGED <<served, out, str, put>> /\ link' = "hungup" /\ pc' = "killed"
    BY <1>3 DEF Killed
  <2>2. OutInv' /\ CutInv'
    BY <2>1 DEF ReplyInv, OutInv, CutInv, Answered, HasReply, Complete, Reading
  <2>3. WritingInv'
    BY <2>1 DEF WritingInv, Reading
  <2> QED
    BY <2>2, <2>3 DEF ReplyInv
<1> QED
  BY <1>1, <1>2, <1>3, ReplyReads, ReplyServe, ReplyWrites DEF Next, Reader

\* Each command carried out is answered once, in order and whole, whatever the
\* phone sends (DecodeRecvData, writeLenData), when a write moves at least the
\* four characters that make twenty-one writes enough for the longest reply.
THEOREM OneReplyCorrect ==
  ASSUME MinChunk >= 4
  PROVE  Spec => []OneReplyPerCommand
<1>1. Init => TypeOK /\ ReplyInv
  BY TypeInit, ReplyInit
<1>2. TypeOK /\ ReplyInv /\ [Next]_vars => (TypeOK /\ ReplyInv)'
  BY TypeNext, ReplyNext
<1>3. TypeOK /\ ReplyInv => OneReplyPerCommand
  <2> SUFFICES ASSUME TypeOK, ReplyInv PROVE OneReplyPerCommand
    OBVIOUS
  <2>1. \A i \in 1..Len(served) : Answered(i) \/ (i = Len(served) /\ pc \in {"write", "killed"})
    BY DEF ReplyInv, OutInv, WritingInv
  <2> QED
    BY <2>1 DEF ReplyInv, OutInv, CutInv, OneReplyPerCommand, Answered
<1> QED
  BY <1>1, <1>2, <1>3, PTL DEF Spec

-----------------------------------------------------------------------------
(* The command service: what the mapping makes of the variables.           *)

AllGood == \A m \in Message : Good(m) /\ m.msgType < 256

\* A command is cut short only by a hang-up, and the reader is never ahead.
LEMMA NotAhead ==
  ASSUME AllGood, TypeOK, FrameInv
  PROVE  /\ Lost \/ InStep
         /\ Len(served) \in Nat /\ Len(sent) \in Nat /\ Len(served) <= Len(sent)
         /\ BrokenOff => link = "hungup" /\ Len(served) > 0 /\ ~served[Len(served)].whole
<1>1. \A i \in 1..Len(sent) : Good(sent[i].msg)
  BY SentElement DEF AllGood
<1>2. Lost \/ InStep
  BY <1>1 DEF FrameInv, Tainted
<1>3. Len(served) <= Len(sent) /\ Len(served) \in Nat /\ Len(sent) \in Nat
  BY <1>2, LenNat DEF Lost, InStep
<1>4. ASSUME NEW n \in 1..Len(served), ~served[n].whole
      PROVE  link = "hungup" /\ n = Len(served)
  <2>1. CleanTo(n)
    BY <1>1, <1>3 DEF CleanTo
  <2> QED
    BY <1>4, <2>1 DEF FrameInv, FramesServedInOrder
<1> QED
  BY <1>2, <1>3, <1>4 DEF BrokenOff

\* The messages of the frames after the first d.
MessagesAfter(frames, d) == [n \in 1..(Len(frames) - d) |-> frames[d + n].msg]

LEMMA AfterSeq ==
  ASSUME NEW frames \in Seq(SentFrame), NEW d \in 0..Len(frames)
  PROVE  /\ MessagesAfter(frames, d) \in Seq(Message)
         /\ Len(MessagesAfter(frames, d)) = Len(frames) - d
         /\ \A n \in 1..(Len(frames) - d) :
              d + n \in 1..Len(frames) /\ MessagesAfter(frames, d)[n] = frames[d + n].msg
<1>1. Len(frames) \in Nat /\ Len(frames) - d \in Nat
  BY LenProperties
<1>2. \A n \in 1..(Len(frames) - d) : d + n \in 1..Len(frames)
  BY <1>1
<1>3. \A n \in 1..(Len(frames) - d) : frames[d + n].msg \in Message
  <2> TAKE n \in 1..(Len(frames) - d)
  <2>1. frames[d + n] \in SentFrame
    BY <1>2, ElementOfSeq
  <2> QED
    BY <2>1 DEF SentFrame
<1> QED
  BY <1>1, <1>2, <1>3 DEF MessagesAfter

\* One frame more is one message more.
LEMMA AfterAppend ==
  ASSUME NEW frames \in Seq(SentFrame), NEW d \in 0..Len(frames), NEW f \in SentFrame
  PROVE  MessagesAfter(Append(frames, f), d) = Append(MessagesAfter(frames, d), f.msg)
<1> DEFINE longer == Append(frames, f)
           before == MessagesAfter(frames, d)
<1>1. /\ longer \in Seq(SentFrame) /\ Len(longer) = Len(frames) + 1 /\ Len(frames) \in Nat
      /\ \A n \in 1..Len(frames) : longer[n] = frames[n]
      /\ longer[Len(frames) + 1] = f /\ f.msg \in Message
  BY AppendProperties, LenProperties DEF SentFrame
<1>2. /\ before \in Seq(Message) /\ Len(before) = Len(frames) - d
      /\ \A n \in 1..(Len(frames) - d) :
           d + n \in 1..Len(frames) /\ before[n] = frames[d + n].msg
  BY AfterSeq
<1>3. /\ MessagesAfter(longer, d) \in Seq(Message)
      /\ Len(MessagesAfter(longer, d)) = Len(longer) - d
      /\ \A n \in 1..(Len(longer) - d) : MessagesAfter(longer, d)[n] = longer[d + n].msg
  <2>1. longer \in Seq(SentFrame) /\ d \in 0..Len(longer)
    BY <1>1
  <2> HIDE DEF longer
  <2> QED
    BY <2>1, AfterSeq
<1>4. /\ Append(before, f.msg) \in Seq(Message)
      /\ Len(Append(before, f.msg)) = Len(frames) - d + 1
      /\ \A n \in 1..(Len(frames) - d) : Append(before, f.msg)[n] = before[n]
      /\ Append(before, f.msg)[Len(frames) - d + 1] = f.msg
  <2> HIDE DEF before
  <2> QED
    BY <1>1, <1>2, AppendProperties
<1> HIDE DEF longer, before
<1>5. ASSUME NEW n \in 1..(Len(longer) - d)
      PROVE  MessagesAfter(longer, d)[n] = Append(before, f.msg)[n]
  <2>1. CASE n = Len(longer) - d
    <3>1. n = Len(frames) - d + 1 /\ d + n = Len(frames) + 1
      BY <1>1, <2>1
    <3>2. longer[d + n].msg = f.msg
      BY <1>1, <3>1
    <3> QED
      BY <1>3, <1>4, <3>1, <3>2
  <2>2. CASE n # Len(longer) - d
    <3>1. n \in 1..(Len(frames) - d)
      BY <1>1, <2>2
    <3>2. longer[d + n].msg = frames[d + n].msg /\ before[n] = frames[d + n].msg
      BY <1>1, <1>2, <3>1
    <3> QED
      BY <1>3, <1>4, <3>1, <3>2
  <2> QED
    BY <2>1, <2>2
<1>6. MessagesAfter(longer, d) = Append(before, f.msg)
  <2>1. Len(MessagesAfter(longer, d)) = Len(Append(before, f.msg))
    BY <1>1, <1>3, <1>4
  <2>2. \A n \in 1..Len(MessagesAfter(longer, d)) :
          MessagesAfter(longer, d)[n] = Append(before, f.msg)[n]
    BY <1>3, <1>5
  <2> QED
    BY <1>3, <1>4, <2>1, <2>2, SeqEqual
<1> QED
  BY <1>6 DEF longer, before

\* One command more carried out is one message less, the first one.
LEMMA AfterTail ==
  ASSUME NEW frames \in Seq(SentFrame), NEW d \in Nat, d < Len(frames)
  PROVE  /\ MessagesAfter(frames, d) # <<>>
         /\ Head(MessagesAfter(frames, d)) = frames[d + 1].msg
         /\ MessagesAfter(frames, d + 1) = Tail(MessagesAfter(frames, d))
<1> DEFINE before == MessagesAfter(frames, d)
           after  == MessagesAfter(frames, d + 1)
<1>1. Len(frames) \in Nat /\ d \in 0..Len(frames) /\ d + 1 \in 0..Len(frames)
  BY LenProperties
<1>2. /\ before \in Seq(Message) /\ Len(before) = Len(frames) - d
      /\ \A n \in 1..(Len(frames) - d) : before[n] = frames[d + n].msg
  BY <1>1, AfterSeq
<1>3. /\ after \in Seq(Message) /\ Len(after) = Len(frames) - (d + 1)
      /\ \A n \in 1..(Len(frames) - (d + 1)) : after[n] = frames[(d + 1) + n].msg
  BY <1>1, AfterSeq
<1> HIDE DEF before, after
<1>4. before # <<>> /\ Head(before) = before[1]
  BY <1>1, <1>2
<1>5. /\ Tail(before) \in Seq(Message) /\ Len(Tail(before)) = Len(before) - 1
      /\ \A n \in 1..(Len(before) - 1) : Tail(before)[n] = before[n + 1]
  BY <1>2, <1>4, HeadTailProperties
<1>6. \A n \in 1..(Len(frames) - (d + 1)) : after[n] = Tail(before)[n]
  <2> TAKE n \in 1..(Len(frames) - (d + 1))
  <2>1. n + 1 \in 1..(Len(frames) - d) /\ d + (n + 1) = (d + 1) + n /\ n \in 1..(Len(before) - 1)
    BY <1>1, <1>2
  <2>2. before[n + 1] = frames[(d + 1) + n].msg
    BY <1>2, <2>1
  <2> QED
    BY <1>3, <1>5, <2>1, <2>2
<1>7. after = Tail(before)
  <2>1. Len(after) = Len(Tail(before)) /\ \A n \in 1..Len(after) : after[n] = Tail(before)[n]
    BY <1>1, <1>2, <1>3, <1>5, <1>6
  <2> QED
    BY <1>3, <1>5, <2>1, SeqEqual
<1>8. before[1] = frames[d + 1].msg
  BY <1>1, <1>2
<1> QED
  BY <1>4, <1>7, <1>8 DEF before, after

LEMMA UnservedAfter ==
  /\ Unserved = MessagesAfter(sent, Len(served))
  /\ Unserved' = MessagesAfter(sent', Len(served'))
  BY DEF Unserved, MessagesAfter

\* What stays of the mapping when the variables it looks at stay.
LEMMA WaitingSame ==
  ASSUME UNCHANGED <<sent, served>>
  PROVE  Waiting' = Waiting
  BY DEF Waiting, BrokenOff, Unserved

LEMMA RepliedSame ==
  ASSUME UNCHANGED out
  PROVE  Replied' = Replied
  BY DEF Replied, CompleteReplies, Complete

\* A new frame is a command submitted.
LEMMA SendSubmits ==
  ASSUME AllGood, TypeOK, FrameInv, NEW m \in Message, PhoneSend(m)
  PROVE  Service!Submit(m)
<1> DEFINE f == [at |-> top, msg |-> m]
<1>1. /\ link = "up" /\ UNCHANGED <<link, pc, served, str, out>>
      /\ sent \in Seq(SentFrame) /\ sent' = Append(sent, f) /\ f \in SentFrame
  BY DEF PhoneSend, effectVars, TypeOK, SentFrame
<1>2. Len(served) \in 0..Len(sent) /\ ~BrokenOff
  BY <1>1, NotAhead
<1>3. ~BrokenOff'
  BY <1>1, <1>2 DEF BrokenOff
<1>4. Unserved' = Append(Unserved, f.msg)
  <2> HIDE DEF f
  <2> QED
    BY <1>1, <1>2, UnservedAfter, AfterAppend
<1>5. Waiting' = Append(Waiting, m)
  BY <1>2, <1>3, <1>4 DEF Waiting
<1>6. UNCHANGED <<Owed, Replied, LinkUp>>
  BY <1>1, RepliedSame DEF Owed, LinkUp
<1> QED
  BY <1>5, <1>6 DEF Service!Submit

\* The steps of the thread that read: nothing of the service happens.
LEMMA ReadsStutter ==
  ASSUME ReadHead \/ DecodeRecvHead \/ ReadBody
  PROVE  UNCHANGED <<Waiting, Owed, Replied, LinkUp>>
<1>1. UNCHANGED <<sent, link, served, out>>
  BY DEF ReadHead, DecodeRecvHead, ReadBody, phoneVars, effectVars
<1>2. pc \in {"head", "decodeHead", "body"} /\ pc' \in Reading
  <2>1. ASSUME NEW have, NEW now, NEW lenIn, NEW next, ReadLenData(have, now, lenIn, next)
        PROVE  pc' \in {pc, next}
    BY <2>1 DEF ReadLenData, ReadRefused, ReadChunk, ReadError
  <2>2. CASE ReadHead
    BY <2>1, <2>2 DEF ReadHead, Reading
  <2>3. CASE DecodeRecvHead
    BY <2>3 DEF DecodeRecvHead, Reading
  <2>4. CASE ReadBody
    BY <2>1, <2>4 DEF ReadBody, Reading
  <2> QED
    BY <2>2, <2>3, <2>4
<1>3. Owed = 0 /\ Owed' = 0 /\ LinkUp' = LinkUp
  BY <1>1, <1>2 DEF Owed, LinkUp, Reading
<1> QED
  BY <1>1, <1>3, WaitingSame, RepliedSame

\* The digits of a type that came: all of them, or none that names a command.
LEMMA TypeCut ==
  ASSUME NEW v \in Nat, v < 256, NEW n \in 0..4
  PROVE  ReplyType(Digits(v, n)) \in {0, ReplyType(v)}
<1>1. CASE n = 4
  BY <1>1, DigitsAll
<1>2. CASE n # 4
  <2>1. Digits(v, n) < 16
    <3>1. CASE n = 0  BY <3>1 DEF Digits
    <3>2. CASE n = 1  BY <3>2 DEF Digits
    <3>3. CASE n = 2  BY <3>3 DEF Digits
    <3>4. CASE n = 3  BY <3>4 DEF Digits
    <3> QED
      BY <1>2, <3>1, <3>2, <3>3, <3>4
  <2>2. Digits(v, n) \in Nat
    BY DigitsNat
  <2> HIDE DEF Digits
  <2> QED
    BY <2>1, <2>2 DEF ReplyType, MT_STATION_REQ, MT_SCAN_PARA, MT_POSITION_PARA
<1> QED
  BY <1>1, <1>2

LEMMA HeadCut ==
  ASSUME AllGood, NEW m \in Message, NEW n \in Nat
  PROVE  ReplyType(HeadOf(m, n).msgType) \in {0, ReplyType(m.msgType)}
<1>1. ReplyType(Digits(m.msgType, Have(n, 20))) \in {0, ReplyType(m.msgType)}
  BY MessageFields, HaveRange, TypeCut DEF AllGood
<1>2. ReplyType(0) = 0
  BY DEF ReplyType, MT_STATION_REQ, MT_SCAN_PARA, MT_POSITION_PARA
<1>3. HeadOf(m, n).msgType \in {0, Digits(m.msgType, Have(n, 20))}
  BY DEF HeadOf, NoHead
<1> QED
  BY <1>1, <1>2, <1>3

\* A command carried out is served, or it was cut short by the broken link.
LEMMA DataServes ==
  ASSUME AllGood, TypeOK, FrameInv, ReplyInv, DecodeRecvData
  PROVE  Service!Serve \/ Service!CutShort \/ UNCHANGED <<Waiting, Owed, Replied, LinkUp>>
<1> DEFINE L == Len(served)
           m == sent[Current].msg
<1>1. /\ pc = "decodeData" /\ pc' = "write"
      /\ UNCHANGED <<sent, link, at, headGot, out>>
  BY DEF DecodeRecvData, phoneVars, readVars
<1>2. Owed = 0 /\ LinkUp' = LinkUp /\ (LinkUp <=> link = "up") /\ Replied' = Replied
  BY <1>1, RepliedSame DEF Owed, LinkUp
<1>3. CASE headGot = 0
  <2>1. UNCHANGED <<served, str>> /\ str = NoReply
    BY <1>1, <1>3 DEF DecodeRecvData, ReplyInv, WritingInv, Reading
  <2>2. Owed' = 0
    BY <1>1, <2>1 DEF Owed, NoReply
  <2> QED
    BY <1>1, <1>2, <2>1, <2>2, WaitingSame
<1>4. CASE headGot # 0
  <2>1. InStep /\ L \in Nat /\ Len(sent) \in Nat /\ Current = L + 1
    BY <1>1, <1>4, NotAhead DEF Lost, Reading, Current
  <2>2. /\ at = Pos(Current) /\ Current \in 1..Len(sent) /\ L < Len(sent)
        /\ msgHead = HeadOf(m, headGot)
        /\ link = "up" => headGot = MSG_HEAD_SIZE /\ (Good(m) => bodyGot = msgHead.msgSize)
    <3>1. headGot > 0
      BY <1>4 DEF TypeOK, MSG_HEAD_SIZE
    <3> QED
      BY <1>1, <2>1, <3>1 DEF InStep, Reading
  <2>3. m \in Message /\ Good(m) /\ headGot \in Nat
    <3>1. m \in Message /\ headGot \in Nat
      BY <2>2, SentElement DEF TypeOK, MSG_HEAD_SIZE
    <3> HIDE DEF m
    <3> QED
      BY <3>1 DEF AllGood
  <2>4. FramesAt(at) = {Current}
    BY <2>2, OneFrameAt DEF FrameInv
  <2>5. /\ Len(served') = L + 1 /\ \A n \in 1..L : served'[n] = served[n]
        /\ served'[L + 1].whole <=> WholeFrame(Current)
    BY <1>4, <2>1, <2>4, DataStep
  <2>6. ~BrokenOff
    BY <2>1, NotAhead DEF InStep
  <2>7. Waiting = MessagesAfter(sent, L) /\ Unserved' = MessagesAfter(sent, L + 1)
    BY <1>1, <2>5, <2>6, UnservedAfter DEF Waiting
  <2>8. /\ Waiting # <<>> /\ Head(Waiting) = m
        /\ Unserved' = Tail(Waiting)
    BY <2>1, <2>2, <2>7, AfterTail DEF TypeOK
  <2>9. Owed' = ReplyType(msgHead.msgType)
    <3>1. msgHead.msgType \in Nat
      BY DEF TypeOK, HeadFields
    <3>2. str' = ReplyFor(msgHead.msgType)
      BY <1>4 DEF DecodeRecvData
    <3> QED
      BY <1>1, <3>1, <3>2, ReplyForAnswer DEF Owed
  <2> HIDE DEF m, L
  <2>10. CASE WholeFrame(Current)
    <3>1. msgHead.msgType = m.msgType
      BY <2>2, <2>3, <2>10, HeadOfGood DEF WholeFrame
    <3>2. ~BrokenOff'
      <4>1. \A n \in 1..L : served[n].whole
        BY <2>6 DEF BrokenOff, L
      <4>2. \A n \in 1..(L + 1) : served'[n].whole
        BY <2>1, <2>5, <2>10, <4>1
      <4> QED
        BY <2>5, <4>2 DEF BrokenOff
    <3>3. Waiting' = Tail(Waiting)
      BY <2>8, <3>2 DEF Waiting
    <3> QED
      BY <1>2, <2>8, <2>9, <3>1, <3>3 DEF Service!Serve
  <2>11. CASE ~WholeFrame(Current)
    <3>1. link # "up"
      <4> SUFFICES ASSUME link = "up" PROVE FALSE
        OBVIOUS
      <4>1. headGot = MSG_HEAD_SIZE /\ bodyGot = m.msgSize
        BY <2>2, <2>3, HeadOfGood
      <4> QED
        BY <2>3, <2>11, <4>1 DEF WholeFrame, m
    <3>2. BrokenOff'
      BY <2>1, <2>5, <2>11 DEF BrokenOff
    <3>3. Waiting' = <<>>
      BY <3>2 DEF Waiting
    <3>4. Owed' \in {0, ReplyType(m.msgType)}
      BY <2>2, <2>3, <2>9, HeadCut
    <3> QED
      BY <1>2, <2>8, <3>1, <3>3, <3>4 DEF Service!CutShort
  <2> QED
    BY <2>10, <2>11
<1> QED
  BY <1>3, <1>4

\* The types of the first c replies.
TypesOf(replies, c) == [n \in 1..c |-> replies[n].msgType]

LEMMA TypesSeq ==
  ASSUME NEW replies \in Seq(Sent), NEW c \in 0..Len(replies)
  PROVE  /\ TypesOf(replies, c) \in Seq(Nat) /\ Len(TypesOf(replies, c)) = c
         /\ \A n \in 1..c : TypesOf(replies, c)[n] = replies[n].msgType
<1>1. c \in Nat /\ \A n \in 1..c : n \in 1..Len(replies)
  BY LenProperties
<1>2. \A n \in 1..c : replies[n].msgType \in Nat
  <2> TAKE n \in 1..c
  <2>1. replies[n] \in Sent
    BY <1>1, ElementOfSeq
  <2> QED
    BY <2>1 DEF Sent
<1> QED
  BY <1>1, <1>2 DEF TypesOf

LEMMA TypesAppend ==
  ASSUME NEW replies \in Seq(Sent), NEW r \in Sent
  PROVE  TypesOf(Append(replies, r), Len(replies) + 1)
           = Append(TypesOf(replies, Len(replies)), r.msgType)
<1> DEFINE L == Len(replies)
           longer == Append(replies, r)
           after  == TypesOf(longer, L + 1)
           before == TypesOf(replies, L)
<1>1. /\ longer \in Seq(Sent) /\ Len(longer) = L + 1 /\ L \in Nat
      /\ \A n \in 1..L : longer[n] = replies[n]
      /\ longer[L + 1] = r /\ r.msgType \in Nat
  BY AppendProperties, LenProperties DEF Sent
<1>2. /\ before \in Seq(Nat) /\ Len(before) = L
      /\ \A n \in 1..L : before[n] = replies[n].msgType
  BY <1>1, TypesSeq
<1>3. /\ after \in Seq(Nat) /\ Len(after) = L + 1
      /\ \A n \in 1..(L + 1) : after[n] = longer[n].msgType
  <2>1. longer \in Seq(Sent) /\ L + 1 \in 0..Len(longer)
    BY <1>1
  <2> HIDE DEF longer, L
  <2> QED
    BY <2>1, TypesSeq
<1> HIDE DEF before, after, longer, L
<1>4. /\ Append(before, r.msgType) \in Seq(Nat) /\ Len(Append(before, r.msgType)) = L + 1
      /\ \A n \in 1..L : Append(before, r.msgType)[n] = before[n]
      /\ Append(before, r.msgType)[L + 1] = r.msgType
  BY <1>1, <1>2, AppendProperties
<1>5. ASSUME NEW n \in 1..(L + 1) PROVE after[n] = Append(before, r.msgType)[n]
  <2>1. CASE n = L + 1
    BY <1>1, <1>3, <1>4, <2>1
  <2>2. CASE n # L + 1
    <3>1. n \in 1..L
      BY <1>1, <2>2
    <3> QED
      BY <1>1, <1>2, <1>3, <1>4, <3>1
  <2> QED
    BY <2>1, <2>2
<1>6. after = Append(before, r.msgType)
  <2>1. \A n \in 1..Len(after) : after[n] = Append(before, r.msgType)[n]
    BY <1>3, <1>5
  <2> QED
    BY <1>3, <1>4, <2>1, SeqEqual
<1> QED
  BY <1>6 DEF after, before, longer, L

\* The reply that is owed is answered when it is whole, and abandoned when the
\* link breaks.
LEMMA WriteAnswers ==
  ASSUME TypeOK, TypeOK', ReplyInv, ReplyInv', WriteLenData
  PROVE  Service!Answer \/ Service!Abandon \/ UNCHANGED <<Waiting, Owed, Replied, LinkUp>>
<1>1. pc = "write" /\ UNCHANGED <<sent, link, served, str>>
  BY DEF WriteLenData, phoneVars
<1>2. Waiting' = Waiting
  BY <1>1, WaitingSame
<1>3. CASE UNCHANGED <<pc, out>>
  BY <1>1, <1>2, <1>3, RepliedSame DEF Owed, LinkUp
<1>4. ASSUME NEW n, Written(n)
      PROVE  Service!Answer \/ Service!Abandon \/ UNCHANGED <<Waiting, Owed, Replied, LinkUp>>
  <2>1. pc' = "check" /\ Owed' = 0 /\ LinkUp' = LinkUp /\ (LinkUp <=> link = "up")
    BY <1>1, <1>4 DEF Written, Owed, LinkUp
  <2>2. CASE str = NoReply
    <3>1. out' = out /\ Owed = 0
      BY <1>1, <1>4, <2>2 DEF Written, Owed, NoReply
    <3> QED
      BY <1>2, <2>1, <3>1, RepliedSame
  <2>3. CASE str # NoReply
    <3> DEFINE r == [msgType |-> str.msgType, msgSize |-> str.msgSize,
                     len |-> str.len, put |-> n, after |-> Len(served)]
    <3>1. out' = Append(out, r) /\ out \in Seq(Sent) /\ Len(out) \in Nat
      BY <1>4, <2>3, LenProperties DEF Written, TypeOK
    <3>2. r \in Sent
      <4>1. n = put' /\ put' \in Nat
        BY <1>4 DEF Written, TypeOK
      <4> QED
        BY <4>1, LenNat DEF TypeOK, Reply, Sent
    <3>3. r.msgType = str.msgType
      OBVIOUS
    <3> HIDE DEF r
    <3>4. /\ out' \in Seq(Sent) /\ Len(out') = Len(out) + 1
          /\ out'[Len(out) + 1] = r
      BY <3>1, <3>2, AppendProperties
    <3>5. Owed = str.msgType /\ Owed # 0
      <4>1. Len(served) > 0 /\ str = ReplyFor(served[Len(served)].msgType)
        BY <1>1, <2>3 DEF ReplyInv, WritingInv
      <4>2. served[Len(served)].msgType \in Nat
        <5>1. served \in Seq(Call) /\ Len(served) \in 1..Len(served)
          BY <4>1, LenNat DEF TypeOK
        <5>2. served[Len(served)] \in Call
          BY <5>1, ElementOfSeq
        <5> QED
          BY <5>2 DEF Call
      <4> QED
        BY <1>1, <2>3, <4>1, <4>2, ReplyForAnswer DEF Owed
    <3>6. CompleteReplies = Len(out) /\ Replied = TypesOf(out, Len(out))
      <4>1. \A x \in 1..Len(out) : Complete(out[x])
        BY <1>1, <2>3 DEF ReplyInv, CutInv
      <4>2. CompleteReplies = Len(out)
        BY <3>1, <4>1 DEF CompleteReplies
      <4> QED
        BY <4>2 DEF Replied, TypesOf
    <3>7. CASE Complete(r)
      <4>1. CompleteReplies' = Len(out) + 1
        BY <3>1, <3>4, <3>7 DEF CompleteReplies, Complete
      <4>2. Replied' = TypesOf(out', Len(out) + 1)
        BY <4>1 DEF Replied, TypesOf
      <4>3. Replied' = Append(Replied, Owed)
        BY <3>1, <3>2, <3>3, <3>5, <3>6, <4>2, TypesAppend
      <4> QED
        BY <1>2, <2>1, <3>5, <4>3 DEF Service!Answer
    <3>8. CASE ~Complete(r)
      <4>1. CompleteReplies' = Len(out)
        BY <3>1, <3>4, <3>8 DEF CompleteReplies, Complete
      <4>2. Replied' = Replied
        <5>1. \A x \in 1..Len(out) : out'[x] = out[x]
          BY <3>1, <3>2, AppendProperties
        <5> QED
          BY <3>6, <4>1, <5>1 DEF Replied, TypesOf
      <4>3. link = "hungup"
        BY <1>1, <3>1, <3>4, <3>8 DEF ReplyInv, CutInv, Complete
      <4> QED
        BY <1>2, <2>1, <3>5, <4>2, <4>3 DEF Service!Abandon
    <3> QED
      BY <3>7, <3>8
  <2> QED
    BY <2>2, <2>3
<1>5. UNCHANGED <<pc, out>> \/ \E n : Written(n)
  BY DEF WriteLenData
<1> QED
  BY <1>3, <1>4, <1>5


LEMMA ServiceInit == Init => Service!Init
<1> SUFFICES ASSUME Init PROVE Service!Init
  OBVIOUS
<1>1. TypeOK /\ sent = <<>> /\ served = <<>> /\ out = <<>> /\ pc = "head" /\ link = "up"
  BY TypeInit DEF Init
<1>2. Len(sent) = 0 /\ Len(served) = 0 /\ Len(out) = 0
  BY <1>1
<1>3. Waiting = <<>>
  <2>1. MessagesAfter(sent, 0) \in Seq(Message) /\ Len(MessagesAfter(sent, 0)) = 0
    <3>1. sent \in Seq(SentFrame) /\ 0 \in 0..Len(sent) /\ Len(sent) - 0 = 0
      BY <1>1, <1>2 DEF TypeOK
    <3> QED
      BY <3>1, AfterSeq
  <2>2. MessagesAfter(sent, 0) = <<>>
    BY <2>1, EmptySeq
  <2> QED
    BY <1>2, <2>2, UnservedAfter DEF Waiting, BrokenOff
<1>4. Replied = <<>>
  <2>1. Replied = TypesOf(out, 0)
    BY <1>2 DEF Replied, CompleteReplies, TypesOf
  <2>2. TypesOf(out, 0) \in Seq(Nat) /\ Len(TypesOf(out, 0)) = 0
    <3>1. out \in Seq(Sent) /\ 0 \in 0..Len(out)
      BY <1>1, <1>2 DEF TypeOK
    <3> QED
      BY <3>1, TypesSeq
  <2> QED
    BY <2>1, <2>2, EmptySeq
<1>5. Owed = 0 /\ LinkUp = TRUE
  BY <1>1 DEF Owed, LinkUp
<1> QED
  BY <1>3, <1>4, <1>5 DEF Service!Init

LEMMA ServiceNext ==
  ASSUME AllGood, TypeOK, TypeOK', FrameInv, ReplyInv, ReplyInv', [Next]_vars
  PROVE  [Service!Next]_(Service!vars)
<1> DEFINE Stutter == UNCHANGED <<Waiting, Owed, Replied, LinkUp>>
<1>1. ASSUME NEW m \in Message, PhoneSend(m) PROVE Service!Next
  <2>1. Service!Submit(m)
    BY <1>1, SendSubmits
  <2> QED
    BY <2>1 DEF Service!Next
<1>2. ASSUME Hangup \/ CheckExit PROVE Service!Break \/ Stutter
  <2>1. UNCHANGED <<sent, served, out>> /\ (LinkUp' => LinkUp)
    BY <1>2 DEF Hangup, CheckExit, phoneVars, readVars, effectVars, LinkUp
  <2>2. Owed' = Owed
    BY <1>2 DEF Hangup, CheckExit, effectVars, Owed
  <2>3. LinkUp \in BOOLEAN /\ LinkUp' \in BOOLEAN
    BY DEF LinkUp
  <2> QED
    BY <2>1, <2>2, <2>3, WaitingSame, RepliedSame DEF Service!Break
<1>3. ASSUME Quit \/ Closed \/ UNCHANGED vars PROVE Stutter
  <2>1. UNCHANGED <<sent, link, served, out, pc, str>>
    BY <1>3 DEF Quit, Closed, vars, phoneVars, effectVars
  <2> QED
    BY <2>1, WaitingSame, RepliedSame DEF Owed, LinkUp
<1>4. ASSUME ReadHead \/ DecodeRecvHead \/ ReadBody PROVE Stutter
  BY <1>4, ReadsStutter
<1>5. ASSUME DecodeRecvData PROVE Service!Serve \/ Service!CutShort \/ Stutter
  BY <1>5, DataServes
<1>6. ASSUME WriteLenData PROVE Service!Answer \/ Service!Abandon \/ Stutter
  BY <1>6, WriteAnswers
<1>7. ASSUME Killed PROVE Service!Break \/ Service!Abandon \/ Stutter
  <2>1. UNCHANGED <<sent, served, out>> /\ ~LinkUp' /\ Owed' = 0
    BY <1>7 DEF Killed, effectVars, LinkUp, Owed
  <2>2. Waiting' = Waiting /\ Replied' = Replied
    BY <2>1, WaitingSame, RepliedSame
  <2>3. LinkUp \in BOOLEAN /\ LinkUp' \in BOOLEAN
    BY DEF LinkUp
  <2> QED
    BY <2>1, <2>2, <2>3 DEF Service!Break, Service!Abandon
<1> HIDE DEF Stutter
<1>8. Service!Next \/ Stutter
  BY <1>1, <1>2, <1>3, <1>4, <1>5, <1>6, <1>7 DEF Next, Reader, Service!Next
<1> QED
  BY <1>8 DEF Stutter, Service!vars

\* A session implements the command service (th_RDWR, readLenData,
\* DecodeRecvHead, DecodeRecvData, writeLenData): however the tty cuts the
\* stream and whenever it breaks, each command is carried out once, in order,
\* and answered before the next one.  The messages are those the decoder
\* accepts, and their types have two hexadecimal digits, as all types of
\* stPreDefine.h have.
THEOREM SessionIsService ==
  ASSUME MinChunk >= 11, AllGood
  PROVE  Spec => Service!Spec
<1> DEFINE IInv == TypeOK /\ FrameInv /\ ReplyInv
<1>1. Init => IInv /\ Service!Init
  BY TypeInit, FrameInit, ReplyInit, ServiceInit
<1>2. IInv /\ [Next]_vars => IInv'
  <2>1. MinChunk >= 4
    BY ChunkAssumption
  <2> QED
    BY <2>1, TypeNext, FrameNext, ReplyNext
<1>3. IInv /\ IInv' /\ [Next]_vars => [Service!Next]_(Service!vars)
  BY ServiceNext
<1> QED
  BY <1>1, <1>2, <1>3, PTL DEF Spec, Service!Spec

-----------------------------------------------------------------------------
(* The way out. *)

\* On a hung up tty a step of readLenData ends the call or counts one read more.
LEMMA ReadCounts ==
  ASSUME TypeOK, link = "hungup", NEW have, NEW now, NEW lenIn, NEW next,
         ReadLenData(have, now, lenIn, next)
  PROVE  pc' = next \/ (pc' = pc /\ calls' = calls + 1)
  BY DEF ReadLenData, ReadRefused, ReadChunk, ReadError

\* After "q", on a hung up tty, each step of th_RDWR brings it nearer to the end
\* of its loop, wherever in a frame or a reply it was (readLenData,
\* writeLenData, the test of g_isExit): at most as many steps as TurnLeft says.
THEOREM TurnsToExitCorrect == Spec => [](TurnLeft \in Nat) /\ TurnsToExit
<1>1. TypeOK => TurnLeft \in Nat
  BY DEF TypeOK, TurnLeft, MAX_WRITES
<1>2. TypeOK /\ TypeOK' /\ [Next]_vars => [g_isExit /\ link = "hungup" => TurnLeft' < TurnLeft]_vars
  <2> SUFFICES ASSUME TypeOK, TypeOK', Next, vars' # vars, g_isExit, link = "hungup"
               PROVE  TurnLeft' < TurnLeft
    OBVIOUS
  <2>1. calls \in 0 .. 21 /\ calls' \in 0 .. 21
    BY DEF TypeOK, MAX_WRITES
  <2>2. Reader \/ Killed
    BY DEF Next, PhoneSend, Hangup, Quit, Closed
  <2>3. CASE ReadHead
    <3>1. pc = "head" /\ (pc' = "decodeHead" \/ (pc' = pc /\ calls' = calls + 1))
      BY <2>3, ReadCounts DEF ReadHead
    <3> QED
      BY <2>1, <3>1 DEF TurnLeft, MAX_WRITES
  <2>4. CASE ReadBody
    <3>1. pc = "body" /\ (pc' = "decodeData" \/ (pc' = pc /\ calls' = calls + 1))
      BY <2>4, ReadCounts DEF ReadBody
    <3> QED
      BY <2>1, <3>1 DEF TurnLeft, MAX_WRITES
  <2>5. CASE DecodeRecvHead
    <3>1. pc = "decodeHead" /\ pc' = "body"
      BY <2>5 DEF DecodeRecvHead
    <3>2. PICK c \in 0 .. 21 : calls' = c
      BY <2>1
    <3> QED
      BY <3>1, <3>2 DEF TurnLeft, MAX_WRITES
  <2>6. CASE DecodeRecvData
    <3>1. pc = "decodeData" /\ pc' = "write"
      BY <2>6 DEF DecodeRecvData
    <3> QED
      BY <3>1 DEF TurnLeft
  <2>7. CASE WriteLenData
    <3>1. pc = "write" /\ pc' = "check"
      BY <2>7 DEF WriteLenData, Written
    <3> QED
      BY <3>1 DEF TurnLeft
  <2>8. CASE CheckExit
    <3>1. pc = "check" /\ pc' = "closed"
      BY <2>8 DEF CheckExit
    <3> QED
      BY <3>1 DEF TurnLeft
  <2>9. CASE Killed
    <3>1. /\ pc \in {"head", "decodeHead", "body", "decodeData", "write", "check"}
          /\ pc' = "killed"
      BY <2>9 DEF Killed, TypeOK
    <3> QED
      BY <2>1, <3>1 DEF TurnLeft, MAX_WRITES
  <2> QED
    BY <2>2, <2>3, <2>4, <2>5, <2>6, <2>7, <2>8, <2>9 DEF Reader
<1>3. Spec => []TypeOK
  BY TypeCorrect
<1> QED
  BY <1>1, <1>2, <1>3, PTL DEF Spec, TurnsToExit

=============================================================================
