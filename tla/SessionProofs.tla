---------------------------- MODULE SessionProofs ----------------------------
(***************************************************************************)
(* Proofs about Session: type correctness and the framing property, for    *)
(* every set of messages, every number of frames and every way the tty     *)
(* cuts the stream into chunks of at least eleven characters.              *)
(***************************************************************************)
EXTENDS Session, SequenceTheorems, TLAPS

-----------------------------------------------------------------------------
(* The helpers of the decoder. *)

LEMMA DigitsNat == ASSUME NEW v \in Nat, NEW n \in 0..4
                   PROVE  Digits(v, n) \in Nat
<1>1. CASE n = 0  BY <1>1 DEF Digits
<1>2. CASE n = 1  BY <1>2 DEF Digits
<1>3. CASE n = 2  BY <1>3 DEF Digits
<1>4. CASE n = 3  BY <1>4 DEF Digits
<1>5. CASE n = 4  BY <1>5 DEF Digits
<1>6. QED BY <1>1, <1>2, <1>3, <1>4, <1>5

LEMMA DigitsAll == ASSUME NEW v \in Nat PROVE Digits(v, 4) = v
BY DEF Digits

LEMMA HaveRange == ASSUME NEW n \in Nat, NEW offset \in Nat
                   PROVE  Have(n, offset) \in 0..4
BY DEF Have, Smaller

LEMMA MessageFields ==
  ASSUME NEW m \in Message
  PROVE  /\ m.source \in Nat /\ m.target \in Nat
         /\ m.msgType \in Nat /\ m.msgSize \in Nat
         /\ FrameLen(m) \in Nat /\ FrameLen(m) >= 28
BY MessageAssumption DEF FrameLen, MSG_HEAD_SIZE

\* Whatever number of characters of a head came, it decodes to two numbers.
LEMMA HeadOfType == ASSUME NEW m \in Message, NEW n \in Nat
                    PROVE  HeadOf(m, n) \in HeadFields
<1>1. /\ Digits(m.msgType, Have(n, 20)) \in Nat
      /\ Digits(m.msgSize, Have(n, 24)) \in Nat
  BY MessageFields, HaveRange, DigitsNat
<1>2. QED BY <1>1 DEF HeadOf, HeadFields, NoHead

\* A complete head of an accepted frame decodes to what the phone wrote.
LEMMA HeadOfGood ==
  ASSUME NEW m \in Message, Good(m)
  PROVE  HeadOf(m, MSG_HEAD_SIZE) = [msgType |-> m.msgType, msgSize |-> m.msgSize]
<1>1. \A o \in {0, 4, 20, 24} : Have(MSG_HEAD_SIZE, o) = 4
  BY DEF Have, Smaller, MSG_HEAD_SIZE
<1>2. QED BY <1>1, MessageFields, DigitsAll DEF HeadOf, Good

\* What one read or write may move.
LEMMA ChunkRange ==
  ASSUME NEW want \in Nat, NEW there \in Nat, NEW k \in Chunks(want, there)
  PROVE  /\ k \in Nat /\ k <= want /\ k <= there
         /\ k >= MinChunk \/ k = want \/ k = there
<1>1. MinChunk \in Nat
  BY ChunkAssumption
<1>2. QED BY <1>1 DEF Chunks, Smaller

LEMMA HeadOfSize ==
  ASSUME NEW m \in Message
  PROVE  HeadOf(m, MSG_HEAD_SIZE).msgSize \in {0, m.msgSize}
<1>1. Have(MSG_HEAD_SIZE, 24) = 4
  BY DEF Have, Smaller, MSG_HEAD_SIZE
<1>2. Digits(m.msgSize, 4) = m.msgSize
  BY MessageFields, DigitsAll
<1>3. QED BY <1>1, <1>2 DEF HeadOf, NoHead

-----------------------------------------------------------------------------
(* Type correctness. *)

LEMMA ReplyForType ==
  ASSUME NEW t \in Nat
  PROVE  ReplyFor(t) \in Reply
BY DEF Reply, ReplyFor, NoReply, MT_STATION_REQ, MT_SCAN_PARA, MT_POSITION_PARA,
       MT_STAT_INFO, MT_ENB_INFO, MT_TARG_INFO

\* What a step of readLenData leaves of the types.
LEMMA ReadType ==
  ASSUME TypeOK, pc \in {"head", "body"},
         NEW have \in 0..120, NEW now \in 0..120, NEW lenIn \in Nat,
         NEW next \in {"decodeHead", "decodeData"},
         ReadLenData(have, now, lenIn, next)
  PROVE  /\ rd' \in Nat
         /\ calls' \in 0..MAX_WRITES
         /\ pc' \in {pc, next}
<1>1. CASE ReadRefused(have, now, lenIn, next)
  BY <1>1 DEF ReadRefused, TypeOK, MAX_WRITES
<1>2. CASE ReadError(now, lenIn, next)
  BY <1>2 DEF ReadError, TypeOK, MAX_WRITES
<1>3. CASE ReadChunk(have, now, lenIn, next)
  <2>1. rd' \in Nat
    BY <1>3 DEF ReadChunk, TypeOK
  <2>2. calls' \in 0..MAX_WRITES /\ pc' \in {pc, next}
    <3>1. calls \in 0..MAX_WRITES
      BY DEF TypeOK
    <3>2. QED BY <1>3, <3>1 DEF ReadChunk, MAX_READS, MAX_WRITES
  <2>3. QED BY <2>1, <2>2
<1>4. QED BY <1>1, <1>2, <1>3 DEF ReadLenData

LEMMA TypeInit == Init => TypeOK
<1>1. <<>> \in Seq(SentFrame) /\ <<>> \in Seq(Call) /\ <<>> \in Seq(Sent)
  BY EmptySeq
<1>2. NoReply \in Reply /\ NoHead \in HeadFields
  BY DEF NoReply, Reply, NoHead, HeadFields
<1>3. SUFFICES ASSUME Init PROVE TypeOK
  OBVIOUS
<1>4. sent \in Seq(SentFrame) /\ served \in Seq(Call) /\ out \in Seq(Sent)
  BY <1>1, <1>3, Zenon DEF Init
<1>5. headGot \in 0..MSG_HEAD_SIZE /\ bodyGot \in 0..MAX_LEN /\ calls \in 0..MAX_WRITES
  BY <1>3 DEF Init, MSG_HEAD_SIZE, MAX_LEN, MAX_WRITES
<1>6. QED
  BY <1>2, <1>3, <1>4, <1>5 DEF Init, TypeOK

LEMMA TypeNext == TypeOK /\ [Next]_vars => TypeOK'
<1> SUFFICES ASSUME TypeOK, [Next]_vars PROVE TypeOK'
  OBVIOUS
<1> USE DEF phoneVars, readVars, effectVars
<1>1. ASSUME NEW m \in Message, PhoneSend(m) PROVE TypeOK'
  <2>1. sent' \in Seq(SentFrame)
    <3>1. [at |-> top, msg |-> m] \in SentFrame
      BY DEF TypeOK, SentFrame
    <3>2. QED BY <1>1, <3>1, AppendProperties DEF PhoneSend, TypeOK
  <2>2. top' \in Nat
    BY <1>1, MessageFields DEF PhoneSend, TypeOK
  <2>3. QED BY <1>1, <2>1, <2>2 DEF PhoneSend, TypeOK
<1>2. CASE Hangup \/ Killed
  BY <1>2 DEF Hangup, Killed, TypeOK
<1>3. CASE Quit
  BY <1>3 DEF Quit, TypeOK
<1>4. CASE ReadHead
  <2> PICK now \in 0..MSG_HEAD_SIZE :
            ReadLenData(headGot, now, MSG_HEAD_SIZE, "decodeHead") /\ headGot' = now
    BY <1>4 DEF ReadHead
  <2>1. rd' \in Nat /\ calls' \in 0..MAX_WRITES /\ pc' \in {pc, "decodeHead"}
    <3>1. /\ headGot \in 0..120 /\ now \in 0..120 /\ MSG_HEAD_SIZE \in Nat
          /\ pc \in {"head", "body"}
      BY <1>4 DEF ReadHead, TypeOK, MSG_HEAD_SIZE
    <3>2. QED BY <3>1, ReadType
  <2>2. QED BY <1>4, <2>1 DEF ReadHead, TypeOK
<1>5. CASE DecodeRecvHead
  <2>1. msgHead' \in HeadFields
    <3>1. \A i \in FramesAt(at) : HeadOf(sent[i].msg, headGot) \in HeadFields
      <4> TAKE i \in FramesAt(at)
      <4>1. sent[i].msg \in Message
        <5>1. sent \in Seq(SentFrame) /\ i \in 1..Len(sent)
          BY DEF FramesAt, TypeOK
        <5>2. sent[i] \in SentFrame
          BY <5>1, ElementOfSeq
        <5>3. QED BY <5>2 DEF SentFrame
      <4>2. headGot \in Nat
        BY DEF TypeOK, MSG_HEAD_SIZE
      <4>3. QED BY <4>1, <4>2, HeadOfType
    <3>2. NoHead \in HeadFields /\ Garbled \subseteq HeadFields
      BY MessageAssumption DEF NoHead, HeadFields
    <3>3. QED BY <1>5, <3>1, <3>2 DEF DecodeRecvHead
  <2>2. QED BY <1>5, <2>1 DEF DecodeRecvHead, TypeOK
<1>6. CASE ReadBody
  <2> PICK now \in 0..MAX_LEN :
            ReadLenData(bodyGot, now, msgHead.msgSize, "decodeData") /\ bodyGot' = now
    BY <1>6 DEF ReadBody
  <2>1. rd' \in Nat /\ calls' \in 0..MAX_WRITES /\ pc' \in {pc, "decodeData"}
    <3>1. /\ bodyGot \in 0..120 /\ now \in 0..120 /\ msgHead.msgSize \in Nat
          /\ pc \in {"head", "body"}
      BY <1>6 DEF ReadBody, TypeOK, MAX_LEN, HeadFields
    <3>2. QED BY <3>1, ReadType
  <2>2. QED BY <1>6, <2>1 DEF ReadBody, TypeOK
<1>7. CASE DecodeRecvData
  <2>1. CASE headGot = 0
    BY <1>7, <2>1 DEF DecodeRecvData, TypeOK
  <2>2. CASE headGot # 0
    <3> DEFINE whole == {i \in FramesAt(at) : WholeFrame(i)}
               frame == IF FramesAt(at) = {} THEN 0 ELSE CHOOSE i \in FramesAt(at) : TRUE
               entry == [frame |-> frame, msgType |-> msgHead.msgType, whole |-> whole # {}]
    <3>1. frame \in Nat
      BY DEF FramesAt, TypeOK
    <3>2. msgHead.msgType \in Nat
      BY DEF TypeOK, HeadFields
    <3>3. (whole # {}) \in BOOLEAN
      OBVIOUS
    <3>4. served' = Append(served, entry) /\ str' = ReplyFor(msgHead.msgType)
      BY <1>7, <2>2 DEF DecodeRecvData
    <3>5. entry \in Call
      <4> HIDE DEF frame, whole
      <4> QED BY <3>1, <3>2, <3>3 DEF Call
    <3>6. served' \in Seq(Call)
      <4> HIDE DEF entry
      <4> QED BY <3>4, <3>5, AppendProperties DEF TypeOK
    <3>7. str' \in Reply
      BY <3>2, <3>4, ReplyForType
    <3>8. time_sec2' \in Nat
      BY <1>7, <2>2 DEF DecodeRecvData, TypeOK
    <3>9. vtimer' \in BOOLEAN
      BY <1>7, <2>2 DEF DecodeRecvData, TypeOK
    <3>10. QED BY <1>7, <3>6, <3>7, <3>8, <3>9 DEF DecodeRecvData, TypeOK
  <2>3. QED BY <2>1, <2>2
<1>8. CASE WriteLenData
  <2>1. ASSUME NEW n \in Nat, Written(n)
        PROVE  /\ pc' = "check" /\ calls' \in 0..MAX_WRITES /\ put' \in Nat
               /\ out' \in Seq(Sent)
    <3> DEFINE r == [msgType |-> str.msgType, msgSize |-> str.msgSize,
                     len |-> str.len, put |-> n, after |-> Len(served)]
    <3>1. r \in Sent
      BY LenProperties DEF TypeOK, Reply, Sent
    <3>2. out' = out \/ out' = Append(out, r)
      BY <2>1 DEF Written
    <3>3. out' \in Seq(Sent)
      <4> HIDE DEF r
      <4>1. out \in Seq(Sent)
        BY DEF TypeOK
      <4>2. QED BY <3>1, <3>2, <4>1, AppendProperties
    <3>4. QED BY <2>1, <3>3 DEF Written, MAX_WRITES
  <2>2. CASE link = "hungup" /\ Written(put)
    <3>1. put \in Nat
      BY DEF TypeOK
    <3>2. QED BY <1>8, <2>1, <2>2, <3>1 DEF WriteLenData, TypeOK
  <2>3. ASSUME NEW k \in Chunks(str.len - put, str.len - put),
               IF put + k >= str.len \/ calls + 1 >= MAX_WRITES
               THEN Written(put + k)
               ELSE put' = put + k /\ calls' = calls + 1 /\ UNCHANGED <<pc, out>>
        PROVE  TypeOK'
    <3>1. put \in Nat /\ str.len \in Nat /\ MinChunk \in Nat
      BY ChunkAssumption DEF TypeOK, Reply
    <3>2. put + k \in Nat
      BY <3>1 DEF Chunks, Smaller
    <3>3. CASE Written(put + k)
      BY <1>8, <2>1, <3>2, <3>3 DEF WriteLenData, TypeOK
    <3>4. CASE ~(calls + 1 >= MAX_WRITES) /\ put' = put + k /\ calls' = calls + 1 /\ UNCHANGED <<pc, out>>
      <4>1. calls' \in 0..MAX_WRITES
        BY <3>4 DEF TypeOK, MAX_WRITES
      <4>2. QED BY <1>8, <3>2, <3>4, <4>1 DEF WriteLenData, TypeOK
    <3>5. QED BY <2>3, <3>3, <3>4
  <2>4. QED BY <1>8, <2>2, <2>3 DEF WriteLenData
<1>9. CASE CheckExit
  BY <1>9 DEF CheckExit, TypeOK, NoHead, NoReply, Reply, HeadFields, MSG_HEAD_SIZE, MAX_LEN
<1>10. CASE UNCHANGED vars
  BY <1>10 DEF vars, TypeOK
<1>11. QED
  BY <1>1, <1>2, <1>3, <1>4, <1>5, <1>6, <1>7, <1>8, <1>9, <1>10 DEF Next, Reader, Closed

\* The variables of the session always have the types the code gives them.
THEOREM TypeCorrect == Spec => []TypeOK
<1>1. Init => TypeOK
  BY TypeInit
<1>2. TypeOK /\ [Next]_vars => TypeOK'
  BY TypeNext
<1>3. QED BY <1>1, <1>2, PTL DEF Spec
-----------------------------------------------------------------------------
(* Framing. *)

LEMMA SentElement ==
  ASSUME TypeOK, NEW i \in 1..Len(sent)
  PROVE  /\ sent[i].at \in Nat /\ sent[i].msg \in Message
         /\ FrameLen(sent[i].msg) \in Nat /\ FrameLen(sent[i].msg) >= 28
<1>1. sent \in Seq(SentFrame)
  BY DEF TypeOK
<1>2. sent[i] \in SentFrame
  BY <1>1, ElementOfSeq
<1>3. sent[i].at \in Nat /\ sent[i].msg \in Message
  BY <1>2 DEF SentFrame
<1>4. QED BY <1>3, MessageFields

LEMMA LenNat == ASSUME TypeOK
                PROVE  Len(sent) \in Nat /\ Len(served) \in Nat
BY LenProperties DEF TypeOK

\* At the start of a frame there is exactly that frame.
LEMMA OneFrameAt ==
  ASSUME TypeOK, Tiled, NEW n \in 1..Len(sent)
  PROVE  FramesAt(Pos(n)) = {n}
<1>1. Pos(n) = sent[n].at
  BY LenNat DEF Pos
<1>2. ASSUME NEW j \in 1..Len(sent), j # n PROVE sent[j].at # sent[n].at
  <2>1. j < n \/ n < j
    BY <1>2, LenNat
  <2>2. /\ j < n => sent[j].at + FrameLen(sent[j].msg) <= sent[n].at
        /\ n < j => sent[n].at + FrameLen(sent[n].msg) <= sent[j].at
    BY DEF Tiled
  <2>3. QED BY <2>1, <2>2, SentElement
<1>3. DOMAIN sent = 1..Len(sent)
  BY LenProperties DEF TypeOK
<1>4. QED BY <1>1, <1>2, <1>3 DEF FramesAt

\* A new frame leaves the earlier ones, and where they start, as they were.
LEMMA SendFacts ==
  ASSUME TypeOK, NEW m \in Message, PhoneSend(m)
  PROVE  /\ Len(sent') = Len(sent) + 1
         /\ \A i \in 1..Len(sent) : sent'[i] = sent[i]
         /\ sent'[Len(sent) + 1] = [at |-> top, msg |-> m]
         /\ \A n \in 1..(Len(sent) + 1) : Pos(n)' = Pos(n)
         /\ Pos(Len(sent) + 2)' = top + FrameLen(m)
<1> DEFINE e == [at |-> top, msg |-> m]
<1>1. e \in SentFrame /\ sent \in Seq(SentFrame) /\ sent' = Append(sent, e)
  BY DEF PhoneSend, TypeOK, SentFrame
<1>2. e.at = top
  OBVIOUS
<1> HIDE DEF e
<1>3. /\ Len(sent') = Len(sent) + 1
      /\ \A i \in 1..Len(sent) : sent'[i] = sent[i]
      /\ sent'[Len(sent) + 1] = e
  BY <1>1, AppendProperties
<1>4. \A n \in 1..(Len(sent) + 1) : Pos(n)' = Pos(n)
  <2> TAKE n \in 1..(Len(sent) + 1)
  <2>1. CASE n <= Len(sent)
    BY <1>3, <2>1, LenNat DEF Pos
  <2>2. CASE n = Len(sent) + 1
    BY <1>2, <1>3, <2>2, LenNat DEF Pos
  <2>3. QED BY <2>1, <2>2, LenNat
<1>5. Pos(Len(sent) + 2)' = top + FrameLen(m)
  BY <1>3, LenNat DEF Pos, PhoneSend
<1>6. QED BY <1>3, <1>4, <1>5 DEF e

LEMMA TiledSend ==
  ASSUME TypeOK, Tiled, NEW m \in Message, PhoneSend(m)
  PROVE  Tiled'
<1> DEFINE L == Len(sent)
<1>1. L \in Nat /\ top \in Nat /\ FrameLen(m) \in Nat /\ top' = top + FrameLen(m)
  BY LenNat, MessageFields DEF TypeOK, PhoneSend
<1>2. /\ Len(sent)' = L + 1
      /\ \A i \in 1..L : sent'[i] = sent[i]
      /\ sent'[L + 1].at = top /\ sent'[L + 1].msg = m
      /\ \A n \in 1..(L + 1) : Pos(n)' = Pos(n)
      /\ Pos(L + 2)' = top + FrameLen(m)
  <2>1. sent'[L + 1] = [at |-> top, msg |-> m]
    BY SendFacts
  <2>2. sent'[L + 1].at = top /\ sent'[L + 1].msg = m
    BY <2>1
  <2>3. QED BY <2>2, SendFacts
<1>3. \A i \in 1..L : /\ sent[i].at \in Nat /\ FrameLen(sent[i].msg) \in Nat
                      /\ Pos(i + 1) = sent[i].at + FrameLen(sent[i].msg)
                      /\ sent[i].at + FrameLen(sent[i].msg) <= top
  BY SentElement DEF Tiled
<1>4. Pos(1)' = 0
  BY <1>1, <1>2 DEF Tiled
<1>5. ASSUME NEW i \in 1..(L + 1)
      PROVE  /\ Pos(i + 1)' = sent'[i].at + FrameLen(sent'[i].msg)
             /\ sent'[i].at + FrameLen(sent'[i].msg) <= top'
  <2>1. CASE i = L + 1
    <3>1. /\ sent'[i].at = top /\ sent'[i].msg = m /\ i + 1 = L + 2
      BY <1>1, <1>2, <2>1
    <3>2. Pos(i + 1)' = top + FrameLen(m)
      BY <1>1, <1>2, <3>1 DEF Pos
    <3>3. QED BY <1>1, <3>1, <3>2
  <2>2. CASE i # L + 1
    <3>1. i \in 1..L /\ i + 1 \in 1..(L + 1)
      BY <1>1, <2>2
    <3>2. Pos(i + 1)' = Pos(i + 1) /\ sent'[i] = sent[i]
      BY <1>2, <3>1
    <3>3. QED BY <1>1, <1>3, <3>1, <3>2
  <2>3. QED BY <2>1, <2>2
<1>6. ASSUME NEW i \in 1..(L + 1), NEW j \in 1..(L + 1), i < j
      PROVE  sent'[i].at + FrameLen(sent'[i].msg) <= sent'[j].at
  <2>1. i \in 1..L /\ sent'[i] = sent[i]
    BY <1>1, <1>2, <1>6
  <2>2. CASE j = L + 1
    BY <1>2, <1>3, <2>1, <2>2
  <2>3. CASE j # L + 1
    <3>1. j \in 1..L /\ sent'[j] = sent[j]
      BY <1>1, <1>2, <2>3
    <3>2. QED BY <1>6, <2>1, <3>1 DEF Tiled
  <2>4. QED BY <2>2, <2>3
<1>7. QED BY <1>2, <1>4, <1>5, <1>6 DEF Tiled

LEMMA TiledSame == ASSUME Tiled, sent' = sent, top' = top PROVE Tiled'
BY DEF Tiled, Pos

\* What is known of the commands already carried out stays known when
\* neither they nor the frames change.
LEMMA OrderSame ==
  ASSUME TypeOK, FramesServedInOrder, served' = served, sent' = sent,
         link' = link \/ link' = "hungup"
  PROVE  FramesServedInOrder'
BY DEF FramesServedInOrder, CleanTo

LEMMA TaintedSame ==
  ASSUME Tainted, served' = served, sent' = sent
  PROVE  Tainted'
BY DEF Tainted

\* A new frame decides nothing about the commands carried out.
LEMMA OrderSend ==
  ASSUME TypeOK, FramesServedInOrder, Tainted \/ Len(served) <= Len(sent),
         NEW m \in Message, PhoneSend(m)
  PROVE  FramesServedInOrder' /\ (Tainted => Tainted')
<1>1. /\ Len(sent') = Len(sent) + 1
      /\ \A i \in 1..Len(sent) : sent'[i] = sent[i]
  BY SendFacts
<1>2. served' = served /\ link' = link
  BY DEF PhoneSend, effectVars
<1>3. Tainted => Tainted'
  BY <1>1, <1>2, LenNat DEF Tainted
<1>4. ASSUME NEW n \in 1..Len(served), CleanTo(n)'
      PROVE  CleanTo(n) /\ sent'[n] = sent[n]
  <2>1. \A i \in 1..n : Good(sent'[i].msg)
    BY <1>4 DEF CleanTo
  <2>2. CASE n <= Len(sent)
    <3>1. n \in 1..Len(sent) /\ \A i \in 1..n : i \in 1..Len(sent)
      BY <2>2, LenNat
    <3>2. QED BY <1>1, <2>1, <2>2, <3>1 DEF CleanTo
  <2>3. CASE ~(n <= Len(sent))
    <3>1. Tainted
      BY <2>3, LenNat
    <3>2. PICK i \in 1..Len(sent) : ~Good(sent[i].msg)
      BY <3>1 DEF Tainted
    <3>3. i \in 1..n /\ sent'[i] = sent[i]
      BY <1>1, <2>3, LenNat
    <3>4. QED BY <2>1, <3>2, <3>3
  <2>4. QED BY <2>2, <2>3
<1>5. FramesServedInOrder'
  <2> SUFFICES ASSUME NEW n \in 1..Len(served), CleanTo(n)'
               PROVE  \/ /\ served[n].whole /\ served[n].frame = n
                         /\ served[n].msgType = sent'[n].msg.msgType
                      \/ ~served[n].whole /\ n = Len(served) /\ link = "hungup"
    BY <1>2 DEF FramesServedInOrder
  <2>1. QED BY <1>4 DEF FramesServedInOrder
<1>6. QED BY <1>3, <1>5

-----------------------------------------------------------------------------
(* The reading steps.  MinChunk >= 11 is what makes the eleven reads of    *)
(* readLenData enough for a head and for the longest body.                 *)

\* One read of a call that has have of lenIn characters: with the link up
\* and the rest of the part already written, the call ends complete.
LEMMA ReadStep ==
  ASSUME TypeOK, MinChunk >= 11,
         NEW have \in Nat, NEW now \in Nat, NEW lenIn \in Nat, NEW next,
         have <= lenIn, lenIn <= MAX_LEN, next # pc,
         link = "up" => have >= 11 * calls,
         link = "up" /\ rd < top => top - rd >= lenIn - have,
         ReadChunk(have, now, lenIn, next)
  PROVE  /\ now <= lenIn /\ now >= have /\ rd' = rd + (now - have)
         /\ now > have => rd < top
         /\ link = "up" /\ pc' = next => now = lenIn
         /\ link = "up" /\ pc' # next => now >= 11 * calls'
         /\ pc' = next \/ pc' = pc
<1>1. /\ rd \in Nat /\ top \in Nat /\ calls \in Nat /\ MinChunk \in Nat
  BY ChunkAssumption DEF TypeOK, MAX_WRITES
<1>2. /\ now >= have /\ rd' = rd + (now - have)
      /\ pc' = next \/ pc' = pc
      /\ \/ link = "up" /\ rd < top /\ now - have \in Chunks(lenIn - have, top - rd)
         \/ (link = "hungup" \/ lenIn = have) /\ now = have
  BY DEF ReadChunk
<1>3. CASE link = "up" /\ rd < top /\ now - have \in Chunks(lenIn - have, top - rd)
  <2>1. lenIn - have \in Nat /\ top - rd \in Nat
    BY <1>1, <1>3
  <2>2. /\ now - have <= lenIn - have
        /\ now - have >= MinChunk \/ now - have = lenIn - have \/ now - have = top - rd
    BY <2>1, <1>3, ChunkRange
  <2>3. now <= lenIn /\ (now = lenIn \/ now >= have + 11)
    BY <1>1, <1>3, <2>1, <2>2
  <2>4. CASE now >= lenIn
    BY <1>2, <1>3, <2>3, <2>4 DEF ReadChunk
  <2>5. CASE ~(now >= lenIn)
    <3>1. now >= 11 * (calls + 1)
      BY <1>1, <1>3, <2>3, <2>5
    <3>2. ~(calls + 1 >= MAX_READS)
      BY <1>1, <2>5, <3>1 DEF MAX_LEN, MAX_READS
    <3>3. pc' = pc /\ calls' = calls + 1
      BY <2>5, <3>2 DEF ReadChunk
    <3>4. QED BY <1>2, <1>3, <2>3, <3>1, <3>3
  <2>6. QED BY <2>4, <2>5
<1>4. CASE link = "hungup" /\ now = have
  BY <1>1, <1>2, <1>4
<1>5. CASE lenIn = have /\ now = have
  BY <1>1, <1>2, <1>5 DEF ReadChunk
<1>6. QED BY <1>2, <1>3, <1>4, <1>5

LEMMA PosRange ==
  ASSUME TypeOK, Tiled, NEW n \in 1..Len(sent)
  PROVE  /\ Pos(n) = sent[n].at /\ Pos(n) \in Nat
         /\ Pos(n + 1) = Pos(n) + FrameLen(sent[n].msg)
         /\ Pos(n) + FrameLen(sent[n].msg) <= top
BY SentElement, LenNat DEF Tiled, Pos

\* The read of a head, in step.
LEMMA HeadInStep ==
  ASSUME TypeOK, MinChunk >= 11, Tiled, InStep, ReadHead
  PROVE  InStep'
<1> USE DEF phoneVars, effectVars
<1>1. /\ pc = "head" /\ UNCHANGED <<sent, top, link, at, bodyGot, msgHead, served>>
  BY DEF ReadHead
<1>2. PICK now \in 0..MSG_HEAD_SIZE :
         ReadLenData(headGot, now, MSG_HEAD_SIZE, "decodeHead") /\ headGot' = now
  BY DEF ReadHead
<1>3. /\ Len(served) <= Len(sent)
      /\ Len(served) > 0 => served[Len(served)].whole
      /\ at = Pos(Current) /\ (headGot > 0 => Current <= Len(sent))
      /\ bodyGot = 0 /\ rd = at + headGot
      /\ link = "up" => headGot >= 11 * calls
  BY <1>1 DEF InStep, Reading
<1>4. /\ Pos(Current)' = Pos(Current) /\ Current' = Current
  BY <1>1 DEF Pos, Current
<1>5. Current \in Nat /\ Current >= 1 /\ at \in Nat /\ top \in Nat /\ headGot \in 0..28
  BY LenNat DEF Current, TypeOK, MSG_HEAD_SIZE
<1>6. CASE ReadChunk(headGot, now, MSG_HEAD_SIZE, "decodeHead")
  <2>1. rd < top => Current <= Len(sent)
    BY <1>3, <1>5, LenNat DEF Pos
  <2>2. Current <= Len(sent) => top - rd >= MSG_HEAD_SIZE - headGot
    <3>1. Current <= Len(sent) => Pos(Current) + FrameLen(sent[Current].msg) <= top
                                  /\ FrameLen(sent[Current].msg) >= 28
                                  /\ FrameLen(sent[Current].msg) \in Nat
      BY <1>5, LenNat, PosRange, SentElement
    <3>2. QED BY <1>3, <1>5, <3>1 DEF MSG_HEAD_SIZE
  <2>3. /\ now <= 28 /\ now >= headGot /\ rd' = rd + (now - headGot)
        /\ now > headGot => rd < top
        /\ link = "up" /\ pc' = "decodeHead" => now = MSG_HEAD_SIZE
        /\ link = "up" /\ pc' # "decodeHead" => now >= 11 * calls'
        /\ pc' = "decodeHead" \/ pc' = "head"
    <3>1. /\ headGot \in Nat /\ now \in Nat /\ MSG_HEAD_SIZE \in Nat
          /\ headGot <= MSG_HEAD_SIZE /\ MSG_HEAD_SIZE <= MAX_LEN
          /\ rd < top => top - rd >= MSG_HEAD_SIZE - headGot
          /\ "decodeHead" # pc
      BY <1>1, <1>5, <2>1, <2>2 DEF MSG_HEAD_SIZE, MAX_LEN
    <3>2. QED BY <1>1, <1>3, <1>6, <3>1, ReadStep DEF MSG_HEAD_SIZE
  <2>4. now > 0 => Current <= Len(sent)
    BY <1>3, <1>5, <2>1, <2>3
  <2>5. pc' = "decodeHead" => calls' = 0
    BY <1>1, <1>6 DEF ReadChunk
  <2>6. rd' = at + now
    BY <1>3, <1>5, <2>3
  <2>7. QED BY <1>1, <1>2, <1>3, <1>4, <2>3, <2>4, <2>5, <2>6 DEF InStep, Reading
<1>7. CASE ReadError(now, MSG_HEAD_SIZE, "decodeHead")
  BY <1>1, <1>2, <1>3, <1>4, <1>7 DEF ReadError, InStep, Reading
<1>8. CASE ReadRefused(headGot, now, MSG_HEAD_SIZE, "decodeHead")
  BY <1>8 DEF ReadRefused, MSG_HEAD_SIZE, MAX_LEN
<1>9. QED BY <1>2, <1>6, <1>7, <1>8 DEF ReadLenData

\* The head is decoded from the frame it belongs to.
LEMMA DecodeHeadInStep ==
  ASSUME TypeOK, Tiled, InStep, DecodeRecvHead
  PROVE  InStep'
<1> USE DEF phoneVars, readVars, effectVars
<1>1. /\ pc = "decodeHead" /\ pc' = "body"
      /\ UNCHANGED <<sent, top, link, at, rd, headGot, bodyGot, calls, served>>
  BY DEF DecodeRecvHead
<1>2. /\ Len(served) <= Len(sent)
      /\ Len(served) > 0 => served[Len(served)].whole
      /\ at = Pos(Current) /\ (headGot > 0 => Current <= Len(sent))
      /\ bodyGot = 0 /\ calls = 0 /\ (headGot > 0 => rd = at + headGot)
      /\ link = "up" => headGot = MSG_HEAD_SIZE
  BY <1>1 DEF InStep, Reading
<1>3. Pos(Current)' = Pos(Current) /\ Current' = Current
  BY <1>1 DEF Pos, Current
<1>4. headGot > 0 => msgHead' = HeadOf(sent[Current].msg, headGot)
  <2> SUFFICES ASSUME headGot > 0 PROVE msgHead' = HeadOf(sent[Current].msg, headGot)
    OBVIOUS
  <2>1. Current \in 1..Len(sent)
    BY <1>2, LenNat DEF Current
  <2>2. FramesAt(at) = {Current}
    BY <1>2, <2>1, OneFrameAt
  <2>3. headGot # 0
    BY DEF TypeOK
  <2>4. QED BY <2>2, <2>3 DEF DecodeRecvHead
<1>5. headGot > 0 => msgHead'.msgSize >= 0
  <2>1. headGot > 0 => Current \in 1..Len(sent) /\ headGot \in Nat
    BY <1>2, LenNat DEF Current, TypeOK, MSG_HEAD_SIZE
  <2>2. headGot > 0 => msgHead' \in HeadFields
    BY <1>4, <2>1, SentElement, HeadOfType
  <2>3. QED BY <2>2 DEF HeadFields
<1>6. at \in Nat /\ headGot \in Nat
  BY DEF TypeOK, MSG_HEAD_SIZE
<1>7. QED BY <1>1, <1>2, <1>3, <1>4, <1>5, <1>6 DEF InStep, Reading

\* The read of a body, in step.
LEMMA BodyInStep ==
  ASSUME TypeOK, MinChunk >= 11, Tiled, InStep, ReadBody
  PROVE  InStep'
<1> USE DEF phoneVars, effectVars
<1> DEFINE m == sent[Current].msg
           size == msgHead.msgSize
<1>1. /\ pc = "body" /\ UNCHANGED <<sent, top, link, at, headGot, msgHead, served>>
  BY DEF ReadBody
<1>2. PICK now \in 0..MAX_LEN :
         ReadLenData(bodyGot, now, size, "decodeData") /\ bodyGot' = now
  BY DEF ReadBody
<1>3. /\ Len(served) <= Len(sent)
      /\ Len(served) > 0 => served[Len(served)].whole
      /\ at = Pos(Current) /\ (headGot > 0 => Current <= Len(sent))
      /\ link = "up" => headGot = MSG_HEAD_SIZE /\ bodyGot >= 11 * calls
      /\ headGot > 0 => msgHead = HeadOf(m, headGot)
      /\ headGot > 0 => rd = at + headGot + bodyGot /\ bodyGot <= size
  BY <1>1 DEF InStep, Reading
<1>4. Pos(Current)' = Pos(Current) /\ Current' = Current /\ m' = m
  BY <1>1 DEF Pos, Current
<1>5. /\ Current \in Nat /\ Current >= 1 /\ at \in Nat /\ top \in Nat /\ rd \in Nat
      /\ headGot \in Nat /\ bodyGot \in Nat /\ size \in Nat
  BY LenNat DEF Current, TypeOK, MSG_HEAD_SIZE, MAX_LEN, HeadFields
<1>6. pc' = "body" \/ pc' = "decodeData"
  BY <1>1, <1>2 DEF ReadLenData, ReadChunk, ReadError, ReadRefused
<1>7. CASE headGot = 0
  <2>1. link # "up"
    BY <1>3, <1>7 DEF MSG_HEAD_SIZE
  <2>2. QED BY <1>1, <1>3, <1>4, <1>6, <1>7, <2>1 DEF InStep, Reading
<1>8. CASE headGot > 0
  <2>1. Current \in 1..Len(sent)
    BY <1>3, <1>5, <1>8, LenNat
  <2>2. /\ m \in Message /\ m.msgSize \in Nat
        /\ at + MSG_HEAD_SIZE + m.msgSize <= top
    <3>1. m \in Message /\ Pos(Current) + FrameLen(m) <= top
      BY <2>1, SentElement, PosRange
    <3>2. m.msgSize \in Nat
      BY <3>1, MessageFields
    <3>3. FrameLen(m) = MSG_HEAD_SIZE + m.msgSize
      BY DEF FrameLen
    <3> HIDE DEF m
    <3>4. QED BY <1>3, <1>5, <3>1, <3>2, <3>3 DEF MSG_HEAD_SIZE
  <2>3. link = "up" => size \in {0, m.msgSize}
    BY <1>3, <1>8, <2>2, HeadOfSize
  <2>4. link = "up" /\ Good(m) => size = m.msgSize /\ size <= MAX_LEN
    <3>1. link = "up" /\ Good(m) => msgHead = [msgType |-> m.msgType, msgSize |-> m.msgSize]
      BY <1>3, <1>8, <2>2, HeadOfGood
    <3>2. QED BY <3>1 DEF Good
  <2>5. CASE ReadRefused(bodyGot, now, size, "decodeData")
    <3>1. now = bodyGot /\ rd' = rd /\ pc' = "decodeData" /\ ~(size <= MAX_LEN)
      BY <2>5, <1>5 DEF ReadRefused, MAX_LEN
    <3>2. QED BY <1>1, <1>2, <1>3, <1>4, <1>8, <2>4, <3>1 DEF InStep, Reading
  <2>6. CASE ReadError(now, size, "decodeData")
    <3>1. now = 0 /\ rd' = rd /\ pc' = "decodeData" /\ link = "hungup"
      BY <2>6 DEF ReadError
    <3>2. size = 0 => bodyGot = 0
      BY <1>3, <1>5, <1>8
    <3>3. QED BY <1>1, <1>2, <1>3, <1>4, <1>8, <3>1, <3>2 DEF InStep, Reading
  <2>7. CASE ReadChunk(bodyGot, now, size, "decodeData")
    <3> HIDE DEF m, size
    <3>1. link = "up" /\ rd < top => top - rd >= size - bodyGot
      <4>1. link = "up" => headGot = 28 /\ rd = at + headGot + bodyGot
                          /\ bodyGot <= size /\ size \in {0, m.msgSize}
        BY <1>3, <1>8, <2>3 DEF MSG_HEAD_SIZE
      <4>2. QED BY <1>5, <2>2, <4>1 DEF MSG_HEAD_SIZE
    <3>2. /\ size <= MAX_LEN /\ now \in Nat /\ "decodeData" # pc
          /\ bodyGot <= size /\ (link = "up" => bodyGot >= 11 * calls)
      BY <1>1, <1>3, <1>8, <2>7 DEF ReadChunk, MAX_LEN
    <3>3. /\ now <= size /\ now >= bodyGot /\ rd' = rd + (now - bodyGot)
          /\ link = "up" /\ pc' = "decodeData" => now = size
          /\ link = "up" /\ pc' # "decodeData" => now >= 11 * calls'
      BY <1>5, <2>7, <3>1, <3>2, ReadStep
    <3>4. rd' = at + headGot + now
      BY <1>3, <1>5, <1>8, <3>2, <3>3
    <3>5. QED
      BY <1>1, <1>2, <1>3, <1>4, <1>6, <1>8, <3>3, <3>4 DEF InStep, Reading, size, m
  <2>8. QED BY <1>2, <2>5, <2>6, <2>7 DEF ReadLenData
<1>9. QED BY <1>5, <1>7, <1>8

\* Carrying out a command adds one entry; those before it stay.
LEMMA ServedAppend ==
  ASSUME TypeOK, NEW e \in Call, served' = Append(served, e)
  PROVE  /\ Len(served') = Len(served) + 1
         /\ \A n \in 1..Len(served) : served'[n] = served[n]
         /\ served'[Len(served) + 1] = e
BY AppendProperties DEF TypeOK

LEMMA DataStep ==
  ASSUME TypeOK, DecodeRecvData
  PROVE  \/ headGot = 0 /\ served' = served
         \/ /\ headGot > 0
            /\ Len(served') = Len(served) + 1
            /\ \A n \in 1..Len(served) : served'[n] = served[n]
            /\ served'[Len(served) + 1].msgType = msgHead.msgType
            /\ \A c : FramesAt(at) = {c} =>
                 /\ served'[Len(served) + 1].frame = c
                 /\ served'[Len(served) + 1].whole <=> WholeFrame(c)
<1>1. CASE headGot = 0
  BY <1>1 DEF DecodeRecvData
<1>2. CASE headGot # 0
  <2> DEFINE whole == {i \in FramesAt(at) : WholeFrame(i)}
             frame == IF FramesAt(at) = {} THEN 0 ELSE CHOOSE i \in FramesAt(at) : TRUE
             e == [frame |-> frame, msgType |-> msgHead.msgType, whole |-> whole # {}]
  <2>1. frame \in Nat /\ msgHead.msgType \in Nat /\ (whole # {}) \in BOOLEAN
    BY DEF FramesAt, TypeOK, HeadFields
  <2>2. served' = Append(served, e)
    BY <1>2 DEF DecodeRecvData
  <2>3. e \in Call
    <3> HIDE DEF frame, whole
    <3> QED BY <2>1 DEF Call
  <2>4. ASSUME NEW c, FramesAt(at) = {c}
        PROVE  e.frame = c /\ (e.whole <=> WholeFrame(c))
    <3>1. frame = c
      BY <2>4
    <3>2. whole # {} <=> WholeFrame(c)
      BY <2>4
    <3>3. e.frame = frame /\ e.whole = (whole # {})
      <4> HIDE DEF frame, whole
      <4> QED OBVIOUS
    <3>4. QED BY <3>1, <3>2, <3>3
  <2>5. headGot > 0 /\ e.msgType = msgHead.msgType
    BY <1>2 DEF TypeOK, MSG_HEAD_SIZE
  <2> HIDE DEF e
  <2>6. /\ Len(served') = Len(served) + 1
        /\ \A n \in 1..Len(served) : served'[n] = served[n]
        /\ served'[Len(served) + 1] = e
    BY <2>2, <2>3, ServedAppend
  <2>7. QED BY <2>4, <2>5, <2>6
<1>3. QED BY <1>1, <1>2
\* A command carried out in step: either it was the next frame, whole, or
\* nothing more is promised.
LEMMA DataInStep ==
  ASSUME TypeOK, Tiled, InStep, FramesServedInOrder, DecodeRecvData
  PROVE  (Tainted' \/ Lost' \/ InStep') /\ FramesServedInOrder'
<1> USE DEF phoneVars, readVars
<1> DEFINE L == Len(served)
           m == sent[Current].msg
<1>1. /\ pc = "decodeData" /\ pc' = "write"
      /\ UNCHANGED <<sent, top, link, at, rd, headGot, bodyGot, calls, msgHead>>
  BY DEF DecodeRecvData
<1>2. /\ L <= Len(sent)
      /\ L > 0 => served[L].whole
      /\ at = Pos(Current) /\ (headGot > 0 => Current <= Len(sent))
      /\ link = "up" => headGot = MSG_HEAD_SIZE
      /\ headGot > 0 =>
            /\ msgHead = HeadOf(m, headGot)
            /\ bodyGot = msgHead.msgSize => rd = at + headGot + bodyGot
            /\ link = "up" /\ Good(m) => bodyGot = msgHead.msgSize
  BY <1>1 DEF InStep, Reading
<1>3. Current = L + 1 /\ L \in Nat /\ headGot \in Nat
  BY LenNat DEF Current, TypeOK, MSG_HEAD_SIZE
<1>4. CASE headGot = 0 /\ served' = served
  <2>1. link = "hungup"
    BY <1>2, <1>4 DEF TypeOK, MSG_HEAD_SIZE
  <2>2. Lost'
    BY <1>1, <1>2, <1>4, <2>1 DEF Lost, Reading
  <2>3. FramesServedInOrder'
    BY <1>1, <1>4 DEF FramesServedInOrder, CleanTo
  <2>4. QED BY <2>2, <2>3
<1>5. CASE /\ headGot > 0
           /\ Len(served') = L + 1
           /\ \A n \in 1..L : served'[n] = served[n]
           /\ served'[L + 1].msgType = msgHead.msgType
           /\ \A c : FramesAt(at) = {c} =>
                /\ served'[L + 1].frame = c
                /\ served'[L + 1].whole <=> WholeFrame(c)
  <2>1. Current \in 1..Len(sent)
    BY <1>2, <1>3, <1>5, LenNat
  <2>2. FramesAt(at) = {Current}
    BY <1>2, <2>1, OneFrameAt
  <2>3. /\ served'[L + 1].frame = L + 1
        /\ served'[L + 1].msgType = msgHead.msgType
        /\ served'[L + 1].whole <=> WholeFrame(Current)
    BY <1>3, <1>5, <2>2
  <2>4. m \in Message /\ Len(served') <= Len(sent')
    BY <1>1, <1>3, <1>5, <2>1, SentElement
  <2>5. ASSUME WholeFrame(Current)
        PROVE  /\ served'[L + 1].msgType = m.msgType
               /\ InStep'
    <3>1. Good(m) /\ headGot = MSG_HEAD_SIZE /\ bodyGot = m.msgSize
      BY <2>5 DEF WholeFrame
    <3>2. msgHead = [msgType |-> m.msgType, msgSize |-> m.msgSize]
      BY <1>2, <1>5, <2>4, <3>1, HeadOfGood
    <3>3. rd = Pos(Current) + FrameLen(m)
      <4>1. bodyGot = msgHead.msgSize
        BY <3>1, <3>2
      <4>2. rd = at + headGot + bodyGot /\ at = Pos(Current) /\ at \in Nat
        BY <1>2, <1>5, <4>1 DEF TypeOK
      <4>3. m.msgSize \in Nat /\ FrameLen(m) = MSG_HEAD_SIZE + m.msgSize
        BY <2>4, MessageFields DEF FrameLen
      <4> HIDE DEF m
      <4>4. QED BY <3>1, <4>2, <4>3 DEF MSG_HEAD_SIZE
    <3>4. rd = Pos(Current + 1)
      BY <2>1, <3>3, PosRange
    <3>5. rd' = Pos(Current)'
      BY <1>1, <1>3, <1>5, <3>4 DEF Pos, Current
    <3>6. served'[Len(served')].whole
      BY <1>5, <2>3, <2>5
    <3>7. QED BY <1>1, <2>3, <2>4, <3>2, <3>5, <3>6 DEF InStep, Reading
  <2>6. ASSUME Good(m), ~WholeFrame(Current)
        PROVE  link = "hungup"
    <3>1. SUFFICES ASSUME link = "up" PROVE FALSE
      BY DEF TypeOK
    <3>2. headGot = MSG_HEAD_SIZE /\ bodyGot = msgHead.msgSize
      BY <1>2, <1>5, <2>6, <3>1
    <3>3. msgHead = [msgType |-> m.msgType, msgSize |-> m.msgSize]
      BY <1>2, <1>5, <2>4, <2>6, <3>2, HeadOfGood
    <3>4. QED BY <2>6, <3>2, <3>3 DEF WholeFrame
  <2>7. ASSUME ~Good(m) PROVE Tainted'
    BY <1>1, <1>3, <1>5, <2>1, <2>7 DEF Tainted
  <2>8. ASSUME link = "hungup" PROVE Lost'
    BY <1>1, <2>4, <2>8 DEF Lost, Reading
  <2>9. FramesServedInOrder'
    <3> SUFFICES ASSUME NEW n \in 1..(L + 1), CleanTo(n)
                 PROVE  \/ /\ served'[n].whole /\ served'[n].frame = n
                           /\ served'[n].msgType = sent[n].msg.msgType
                        \/ ~served'[n].whole /\ n = L + 1 /\ link = "hungup"
      BY <1>1, <1>5 DEF FramesServedInOrder, CleanTo
    <3>1. CASE n = L + 1
      <4>1. Good(m)
        BY <1>3, <3>1 DEF CleanTo
      <4>2. QED BY <1>3, <2>3, <2>5, <2>6, <3>1, <4>1
    <3>2. CASE n # L + 1
      <4>1. n \in 1..L /\ served'[n] = served[n]
        BY <1>3, <1>5, <3>2
      <4>2. served[n].whole \/ n # L
        BY <1>2, <1>3, <4>1
      <4>3. QED BY <1>3, <4>1, <4>2 DEF FramesServedInOrder
    <3>3. QED BY <3>1, <3>2
  <2>10. QED BY <2>5, <2>6, <2>7, <2>8, <2>9
<1>6. QED BY <1>4, <1>5, DataStep

\* Once a frame was not accepted, what follows decides nothing.
LEMMA DataTainted ==
  ASSUME TypeOK, Tainted, FramesServedInOrder, DecodeRecvData
  PROVE  Tainted' /\ FramesServedInOrder'
<1>1. sent' = sent /\ link' = link
  BY DEF DecodeRecvData, phoneVars
<1>2. /\ Len(served) \in Nat /\ Len(served') \in Nat
      /\ Len(served') >= Len(served)
      /\ \A n \in 1..Len(served) : served'[n] = served[n]
      /\ served' = served \/ Len(served') = Len(served) + 1
  BY DataStep, LenNat
<1>3. PICK i \in 1..Len(sent) : i <= Len(served) /\ ~Good(sent[i].msg)
  BY DEF Tainted
<1>4. Tainted'
  BY <1>1, <1>2, <1>3, LenNat DEF Tainted
<1>5. FramesServedInOrder'
  <2> SUFFICES ASSUME NEW n \in 1..Len(served'), CleanTo(n)
               PROVE  \/ /\ served'[n].whole /\ served'[n].frame = n
                         /\ served'[n].msgType = sent[n].msg.msgType
                      \/ ~served'[n].whole /\ n = Len(served') /\ link = "hungup"
    BY <1>1 DEF FramesServedInOrder, CleanTo
  <2>1. n < i
    BY <1>3, LenNat DEF CleanTo
  <2>2. n \in 1..Len(served) /\ n # Len(served) /\ served'[n] = served[n]
    BY <1>2, <1>3, <2>1, LenNat
  <2>3. QED BY <2>2 DEF FramesServedInOrder
<1>6. QED BY <1>4, <1>5

\* Once the link is gone, a command found in the buffer cannot be whole.
LEMMA DataLost ==
  ASSUME TypeOK, Lost, FramesServedInOrder, DecodeRecvData
  PROVE  Lost' /\ FramesServedInOrder'
<1>1. /\ pc = "decodeData" /\ pc' = "write"
      /\ sent' = sent /\ link' = link
  BY DEF DecodeRecvData, phoneVars
<1>2. headGot = 0
  BY <1>1 DEF Lost, Reading
<1>3. served' = served
  BY <1>2 DEF DecodeRecvData
<1>4. QED BY <1>1, <1>3 DEF Lost, Reading, FramesServedInOrder, CleanTo
-----------------------------------------------------------------------------
(* The steps that leave the commands carried out alone.                    *)

\* A lost link stays lost.
LEMMA ReaderLost ==
  ASSUME TypeOK, Lost, ReadHead \/ DecodeRecvHead \/ ReadBody \/ WriteLenData \/ CheckExit
  PROVE  Lost'
<1> USE DEF phoneVars, readVars, effectVars
<1>1. link = "hungup" /\ link' = link /\ sent' = sent /\ served' = served
  BY DEF Lost, ReadHead, DecodeRecvHead, ReadBody, WriteLenData, CheckExit
<1>2. pc' \in Reading => headGot' = 0
  <2>1. CASE ReadHead
    <3>1. headGot = 0
      BY <2>1 DEF Lost, ReadHead, Reading
    <3>2. \A now : ReadLenData(headGot, now, MSG_HEAD_SIZE, "decodeHead") => now = 0
      BY <1>1, <3>1 DEF ReadLenData, ReadRefused, ReadChunk, ReadError
    <3>3. QED BY <2>1, <3>2 DEF ReadHead
  <2>2. CASE DecodeRecvHead
    BY <2>2 DEF DecodeRecvHead, Lost, Reading
  <2>3. CASE ReadBody
    BY <2>3 DEF ReadBody, Lost, Reading
  <2>4. CASE WriteLenData
    BY <2>4 DEF WriteLenData, Written, Reading
  <2>5. CASE CheckExit
    BY <2>5 DEF CheckExit
  <2>6. QED BY <2>1, <2>2, <2>3, <2>4, <2>5
<1>3. QED BY <1>1, <1>2 DEF Lost

\* Writing the reply and closing the turn keep the reader in step.
LEMMA WriteInStep ==
  ASSUME TypeOK, InStep, WriteLenData
  PROVE  InStep'
<1>1. /\ pc = "write" /\ (pc' = "write" \/ (pc' = "check" /\ calls' = 0))
      /\ UNCHANGED <<sent, top, link, at, rd, headGot, bodyGot, msgHead, served>>
  <2>1. ASSUME NEW n, Written(n) PROVE pc' = "check" /\ calls' = 0
    BY <2>1 DEF Written
  <2>2. pc' = pc \/ \E n : Written(n)
    BY DEF WriteLenData
  <2>3. pc = "write" /\ UNCHANGED <<sent, top, link, at, rd, headGot, bodyGot, msgHead, served>>
    BY DEF WriteLenData, phoneVars
  <2> HIDE DEF WriteLenData, Written
  <2>4. QED BY <2>1, <2>2, <2>3
<1>2. QED BY <1>1 DEF InStep, Reading, Pos, Current

LEMMA CheckInStep ==
  ASSUME TypeOK, InStep, CheckExit
  PROVE  InStep'
<1>1. /\ pc = "check" /\ (pc' = "head" \/ pc' = "closed")
      /\ at' = rd /\ headGot' = 0 /\ bodyGot' = 0
      /\ UNCHANGED <<sent, top, link, rd, calls, served>>
  BY DEF CheckExit, phoneVars
<1>2. rd = Pos(Current) /\ calls = 0 /\ rd \in Nat
  BY <1>1 DEF InStep, TypeOK
<1>3. Pos(Current)' = Pos(Current)
  BY <1>1 DEF Pos, Current
<1>4. Len(served) <= Len(sent) /\ (Len(served) > 0 => served[Len(served)].whole)
  BY DEF InStep
<1>5. QED BY <1>1, <1>2, <1>3, <1>4 DEF InStep, Reading

\* A new frame comes after everything the reader has seen.
LEMMA SendInStep ==
  ASSUME TypeOK, InStep, NEW m \in Message, PhoneSend(m)
  PROVE  InStep'
<1>1. /\ Len(sent') = Len(sent) + 1
      /\ \A i \in 1..Len(sent) : sent'[i] = sent[i]
      /\ \A n \in 1..(Len(sent) + 1) : Pos(n)' = Pos(n)
  BY SendFacts
<1>2. UNCHANGED <<link, pc, at, rd, headGot, bodyGot, calls, msgHead, served>>
  BY DEF PhoneSend, readVars, effectVars
<1>3. Len(served) <= Len(sent) /\ Len(served) \in Nat /\ Len(sent) \in Nat
  BY LenNat DEF InStep
<1>4. Current' = Current /\ Current \in 1..(Len(sent) + 1)
  BY <1>2, <1>3 DEF Current
<1>5. Pos(Current)' = Pos(Current)
  BY <1>1, <1>2, <1>4 DEF Current, Pos
<1>6. Current <= Len(sent) => sent'[Current] = sent[Current]
  BY <1>1, <1>3, <1>4
<1>7. pc \in {"body", "decodeData"} /\ headGot > 0 => Current <= Len(sent)
  BY DEF InStep, Reading
<1>8. Current <= Len(sent) => Current' <= Len(sent')
  BY <1>1, <1>3, <1>4
<1>9. QED BY <1>1, <1>2, <1>3, <1>4, <1>5, <1>6, <1>7, <1>8 DEF InStep, Reading

\* The phone hangs up: what was promised of a live link is promised no more.
LEMMA HangupInStep ==
  ASSUME InStep, Hangup
  PROVE  InStep'
<1>1. /\ link' = "hungup"
      /\ UNCHANGED <<sent, top, pc, at, rd, headGot, bodyGot, calls, msgHead, served>>
  BY DEF Hangup, readVars, effectVars
<1>2. QED BY <1>1 DEF InStep, Reading, Pos, Current
-----------------------------------------------------------------------------
(* The framing theorem.                                                    *)

LEMMA FrameInit == Init => FrameInv
<1> SUFFICES ASSUME Init PROVE FrameInv
  OBVIOUS
<1>1. sent = <<>> /\ served = <<>> /\ top = 0 /\ pc = "head" /\ at = 0 /\ rd = 0
      /\ headGot = 0 /\ bodyGot = 0 /\ calls = 0
  BY DEF Init
<1>2. Len(sent) = 0 /\ Len(served) = 0
  BY <1>1
<1>3. Tiled
  BY <1>1, <1>2 DEF Tiled, Pos
<1>4. InStep
  BY <1>1, <1>2 DEF InStep, Reading, Pos, Current
<1>5. FramesServedInOrder
  BY <1>2 DEF FramesServedInOrder
<1>6. QED BY <1>3, <1>4, <1>5 DEF FrameInv

LEMMA FrameNext ==
  ASSUME MinChunk >= 11, TypeOK, FrameInv, [Next]_vars
  PROVE  FrameInv'
<1>0. Tiled /\ (Tainted \/ Lost \/ InStep) /\ FramesServedInOrder
  BY DEF FrameInv
<1>1. ASSUME NEW m \in Message, PhoneSend(m) PROVE FrameInv'
  <2>1. Tiled'
    BY <1>0, <1>1, TiledSend
  <2>2. Tainted \/ Len(served) <= Len(sent)
    BY <1>0 DEF Lost, InStep
  <2>3. FramesServedInOrder' /\ (Tainted => Tainted')
    BY <1>0, <1>1, <2>2, OrderSend
  <2>4. ~Lost
    BY <1>1 DEF PhoneSend, Lost
  <2>5. InStep => InStep'
    BY <1>1, SendInStep
  <2>6. QED BY <1>0, <2>1, <2>3, <2>4, <2>5 DEF FrameInv
<1>2. CASE Hangup
  <2>1. sent' = sent /\ top' = top /\ served' = served /\ pc' = pc /\ headGot' = headGot
        /\ link' = "hungup" /\ link = "up"
    BY <1>2 DEF Hangup, readVars, effectVars
  <2>2. Tiled' /\ (Tainted => Tainted')
    BY <1>0, <2>1, TiledSame DEF Tainted
  <2>3. FramesServedInOrder'
    BY <1>0, <2>1 DEF FramesServedInOrder, CleanTo
  <2>4. InStep => InStep'
    BY <1>2, HangupInStep
  <2>5. ~Lost
    BY <2>1 DEF Lost
  <2>6. QED BY <1>0, <2>2, <2>3, <2>4, <2>5 DEF FrameInv
<1>3. ASSUME ReadHead \/ DecodeRecvHead \/ ReadBody \/ WriteLenData \/ CheckExit
      PROVE  FrameInv'
  <2>1. sent' = sent /\ top' = top /\ link' = link /\ served' = served
    BY <1>3 DEF ReadHead, DecodeRecvHead, ReadBody, WriteLenData, CheckExit,
                phoneVars, effectVars
  <2>2. Tiled' /\ (Tainted => Tainted')
    BY <1>0, <2>1, TiledSame DEF Tainted
  <2>3. FramesServedInOrder'
    BY <1>0, <2>1 DEF FramesServedInOrder, CleanTo
  <2>4. Lost => Lost'
    BY <1>3, ReaderLost
  <2>5. InStep => InStep'
    BY <1>0, <1>3, HeadInStep, DecodeHeadInStep, BodyInStep, WriteInStep, CheckInStep
  <2>6. QED BY <1>0, <2>2, <2>3, <2>4, <2>5 DEF FrameInv
<1>4. CASE DecodeRecvData
  <2>1. Tiled'
    BY <1>0, <1>4, TiledSame DEF DecodeRecvData, phoneVars
  <2>2. (Tainted' \/ Lost' \/ InStep') /\ FramesServedInOrder'
    BY <1>0, <1>4, DataTainted, DataLost, DataInStep
  <2>3. QED BY <2>1, <2>2 DEF FrameInv
<1>5. CASE Quit \/ Closed \/ UNCHANGED vars
  <2>1. UNCHANGED <<sent, top, link, pc, at, rd, headGot, bodyGot, calls, msgHead, served>>
    BY <1>5 DEF Quit, Closed, vars, phoneVars, readVars, effectVars
  <2>2. Tiled' /\ (Tainted => Tainted') /\ (Lost => Lost') /\ FramesServedInOrder'
    BY <1>0, <2>1, TiledSame DEF Tainted, Lost, FramesServedInOrder, CleanTo
  <2>3. InStep => InStep'
    BY <2>1 DEF InStep, Reading, Pos, Current
  <2>4. QED BY <1>0, <2>2, <2>3 DEF FrameInv
<1>6. CASE Killed
  <2>1. /\ UNCHANGED <<sent, top, served>> /\ link' = "hungup" /\ pc' = "killed"
    BY <1>6 DEF Killed, effectVars
  <2>2. Tiled' /\ (Tainted => Tainted') /\ FramesServedInOrder'
    BY <1>0, <2>1, TiledSame DEF Tainted, FramesServedInOrder, CleanTo
  <2>3. Lost \/ InStep => Lost'
    BY <2>1 DEF Lost, InStep, Reading
  <2>4. QED BY <1>0, <2>2, <2>3 DEF FrameInv
<1>7. QED BY <1>1, <1>2, <1>3, <1>4, <1>5, <1>6 DEF Next, Reader

\* However the tty cuts the stream, the n-th command carried out is the n-th
\* frame written, whole (readLenData, DecodeRecvHead, DecodeRecvData), for any
\* frames and any number of them, when a read moves at least the eleven
\* characters that make eleven reads enough for the longest body.
THEOREM FramingCorrect ==
  ASSUME MinChunk >= 11
  PROVE  Spec => []FramesServedInOrder
<1>1. Init => TypeOK /\ FrameInv
  BY TypeInit, FrameInit
<1>2. TypeOK /\ FrameInv /\ [Next]_vars => (TypeOK /\ FrameInv)'
  BY TypeNext, FrameNext
<1>3. FrameInv => FramesServedInOrder
  BY DEF FrameInv
<1>4. QED BY <1>1, <1>2, <1>3, PTL DEF Spec

\* What the framing rests on holds in every state, whatever the decoder refuses
\* (readLenData, DecodeRecvHead, DecodeRecvData): the reader is in step with the
\* frames, or it has met a frame that is refused, or there is no text to come.
THEOREM FrameInvCorrect ==
  ASSUME MinChunk >= 11
  PROVE  Spec => []FrameInv
<1>1. Init => TypeOK /\ FrameInv
  BY TypeInit, FrameInit
<1>2. TypeOK /\ FrameInv /\ [Next]_vars => (TypeOK /\ FrameInv)'
  BY TypeNext, FrameNext
<1>3. QED BY <1>1, <1>2, PTL DEF Spec
=============================================================================
