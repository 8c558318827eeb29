------------------------------ MODULE SibProofs ------------------------------
(***************************************************************************)
(* Proofs about Sib, for every set of messages: types, the lists and their *)
(* arrays, the head that SIB2 reads again, and the way of the position.    *)
(***************************************************************************)
EXTENDS Sib, SequenceTheorems, TLAPS

-----------------------------------------------------------------------------
(* Reading. *)

LEMMA MaskWeights ==
  ASSUME NEW j \in 1 .. 8
  PROVE  mask[j] \in Nat \ {0}
  BY DEF mask

LEMMA BitRange ==
  ASSUME data_p \in Messages, NEW p \in Nat
  PROVE  Bit(p) \in {0, 1}
<1>1. CASE p < Size
  <2>1. data_p \in Seq(0 .. 255) /\ Len(data_p) \in Nat
    BY MessagesAssumption
  <2>2. (p \div 8) + 1 \in 1 .. Len(data_p)
    BY <1>1, <2>1 DEF Size
  <2>3. data_p[(p \div 8) + 1] \in 0 .. 255
    BY <2>1, <2>2, ElementOfSeq, Zenon
  <2>4. mask[(p % 8) + 1] \in Nat \ {0}
    BY MaskWeights
  <2>5. \A x \in 0 .. 255, y \in Nat \ {0} : (x \div y) % 2 \in {0, 1}
    OBVIOUS
  <2> QED
    BY <1>1, <2>3, <2>4, <2>5 DEF Bit
<1>2. CASE ~(p < Size)
  BY <1>2 DEF Bit
<1> QED
  BY <1>1, <1>2

\* A number of one to five bits.
LEMMA ExtraDataRange ==
  ASSUME data_p \in Messages, NEW p \in Nat
  PROVE  /\ ExtraData(p, 2) \in 0 .. 3
         /\ ExtraData(p, 3) \in 0 .. 7
         /\ ExtraData(p, 4) \in 0 .. 15
         /\ ExtraData(p, 5) \in 0 .. 31
<1>1. \A j \in 0 .. 4 : Bit(p + j) \in {0, 1}
  BY BitRange
<1>2. ExtraData(p, 2) = Bit(p + 1) + 2 * Bit(p)
  BY <1>1, BitRange DEF ExtraData, Opt
<1>3. ExtraData(p, 3) = Bit(p + 2) + 2 * Bit(p + 1) + 4 * Bit(p)
  BY <1>1, BitRange DEF ExtraData, Opt
<1>4. ExtraData(p, 4) = Bit(p + 3) + 2 * Bit(p + 2) + 4 * Bit(p + 1) + 8 * Bit(p)
  BY <1>1, BitRange DEF ExtraData, Opt
<1>5. ExtraData(p, 5) = Bit(p + 4) + 2 * Bit(p + 3) + 4 * Bit(p + 2) + 8 * Bit(p + 1) + 16 * Bit(p)
  BY <1>1, BitRange DEF ExtraData, Opt
<1>6. Bit(p) \in {0, 1}
  BY BitRange
<1> QED
  BY <1>1, <1>2, <1>3, <1>4, <1>5, <1>6
-----------------------------------------------------------------------------
(* A block ends at or behind its first bit. *)

FromTo(p, end) == end \in Nat /\ end >= p

LEMMA Sib1Blocks ==
  ASSUME data_p \in Messages, NEW p \in Nat, flags \in 0 .. 7
  PROVE  /\ FromTo(p, AccessInfo(p)) /\ FromTo(p, CellSelection(p))
         /\ FromTo(p, SchedulingInfo(p)) /\ FromTo(p, SiWindow(p))
<1>1. FromTo(p, AccessInfo(p))
  <2> DEFINE mnc == p + 8 + Opt(Bit(p + 7) = 1, 12)
  <2>1. mnc \in Nat /\ mnc >= p
    BY DEF Opt
  <2>2. Opt(Bit(p + 3) = 1, 27) \in Nat
    BY DEF Opt
  <2>3. AccessInfo(p)
          = mnc + 1 + (IF Bit(mnc) = 1 THEN 12 ELSE 8) + 48 + Opt(Bit(p + 3) = 1, 27)
    BY DEF AccessInfo
  <2> QED
    BY <2>1, <2>2, <2>3 DEF FromTo
<1>2. FromTo(p, CellSelection(p))
  BY DEF FromTo, CellSelection, Opt
<1>3. FromTo(p, SchedulingInfo(p))
  BY ExtraDataRange DEF FromTo, SchedulingInfo
<1>4. \A q \in Nat : FromTo(q, Extension(q))
  <2> TAKE q \in Nat
  <2>1. ExtraData(q + 2, 3) \in 0 .. 7
    BY ExtraDataRange
  <2>2. 5 + 6 * (ExtraData(q + 2, 3) + 1) + 16 \in Nat
    BY <2>1
  <2>3. Opt(~Flag(ExtraData(q, 2), 2), 5 + 6 * (ExtraData(q + 2, 3) + 1) + 16) \in Nat
    BY <2>2 DEF Opt
  <2> QED
    BY <2>3 DEF FromTo, Extension
<1>5. FromTo(p, SiWindow(p))
  <2> DEFINE end == p + Opt(Flag(flags, 2), 7) + 9
  <2>1. end \in Nat /\ end >= p
    BY DEF Opt
  <2>2. SiWindow(p) = IF Flag(flags, 1) THEN Extension(end) ELSE end
    BY DEF SiWindow
  <2>3. FromTo(end, Extension(end))
    BY <1>4, <2>1
  <2> HIDE DEF end
  <2> QED
    BY <2>1, <2>2, <2>3 DEF FromTo
<1> QED
  BY <1>1, <1>2, <1>3, <1>5

LEMMA Sib2Blocks ==
  ASSUME data_p \in Messages, NEW p \in Nat
  PROVE  /\ FromTo(p, AcBarring(p)) /\ FromTo(p, RachConfig(p)) /\ FromTo(p, CommonConfig(p))
         /\ FromTo(p, SoundingRs(p)) /\ FromTo(p, PowerControl(p)) /\ FromTo(p, FreqInfo(p))
<1>1. FromTo(p, AcBarring(p))
  BY DEF FromTo, AcBarring, Opt
<1>2. FromTo(p, SoundingRs(p))
  BY DEF FromTo, SoundingRs, Opt
<1> QED
  BY <1>1, <1>2 DEF FromTo, RachConfig, CommonConfig, PowerControl, FreqInfo, Opt

LEMMA LaterBlocks ==
  ASSUME NEW p \in Nat
  PROVE  /\ FromTo(p, ReselectionCommon(p)) /\ FromTo(p, ServingFreq(p))
         /\ FromTo(p, IntraFreq(p)) /\ FromTo(p, BlackCell(p)) /\ FromTo(p, CarrierFreq(p))
<1>1. FromTo(p, IntraFreq(p))
  BY DEF FromTo, IntraFreq, Opt
<1>2. FromTo(p, CarrierFreq(p))
  BY DEF FromTo, CarrierFreq, Opt
<1> QED
  BY <1>1, <1>2 DEF FromTo, ReselectionCommon, ServingFreq, BlackCell, Opt

-----------------------------------------------------------------------------
(* The invariant. *)

\* The places from the list of SIBs on.
Listed ==
  {"list", "sib2", "acBarring", "rach", "common", "srs", "power", "freqInfo", "timeAlignment",
   "sib3", "servingFreq", "intraFreq", "sib4", "intraNeigh", "black", "blackCell",
   "physCellId", "sib5", "carrier", "r12"}

\* The head is a c1 with system information, its count is maxSIB.
HeadRead == Bit(0) = 0 /\ Bit(1) = 0 /\ Bit(2) = 0 /\ maxSIB = ExtraData(4, 5) + 1

\* A list is read with elements left, and no more of them than its count, of
\* five, four or three bits, can say.
ListInv ==
  /\ place \in Elements => k < n
  /\ place \in {"intraNeigh", "blackCell"} => n <= 15
  /\ place = "carrier" => n <= 8

SibInv ==
  /\ data_p \in Messages
  /\ TypeOK
  /\ place = "head" => i = 0 /\ pos = 0
  /\ place \in Listed => HeadRead
  /\ place = "acBarring" => pos = 13
  /\ ListInv

LEMMA SibInit == Init => SibInv
  BY DEF Init, SibInv, TypeOK, Places, Listed, ListInv, Elements

\* What a block leaves: the message, and its own end.
LEMMA ReadFacts ==
  ASSUME NEW from, NEW end, NEW to, Read(from, end, to)
  PROVE  place = from /\ pos' = end /\ place' \in {to, "outside"} /\ data_p' = data_p
  BY DEF Read

\* The bits stay as long as the message does.
LEMMA HeadStays ==
  ASSUME HeadRead, data_p' = data_p, maxSIB' = maxSIB
  PROVE  HeadRead'
  BY DEF HeadRead, Bit, ExtraData, Size, Opt

LEMMA HeadStep ==
  ASSUME SibInv, DecodeHead
  PROVE  SibInv'
<1>1. ExtraData(4, 5) \in 0 .. 31
  BY ExtraDataRange DEF SibInv
<1>2. data_p' = data_p /\ UNCHANGED <<i, flags, n, k>> /\ i = 0
  BY DEF DecodeHead, Read, Plain, SibInv
<1>3. CASE Bit(0) = 0 /\ Bit(1) = 0 /\ Bit(2) = 0 /\ Read("head", 9, "list")
           /\ maxSIB' = ExtraData(4, 5) + 1
  <2>1. HeadRead'
    BY <1>2, <1>3 DEF HeadRead, Bit, ExtraData, Size, Opt
  <2>2. TypeOK'
    BY <1>1, <1>2, <1>3 DEF SibInv, TypeOK, Places, Read
  <2> QED
    BY <1>2, <1>3, <2>1, <2>2 DEF SibInv, ListInv, Elements, Read
<1>4. CASE /\ Read("head", 1, "done") \/ Read("head", 2, "sib1") \/ Read("head", 3, "done")
           /\ maxSIB' = maxSIB
  BY <1>2, <1>4 DEF SibInv, TypeOK, Places, Listed, ListInv, Elements, Read
<1> QED
  BY <1>3, <1>4 DEF DecodeHead, Plain

LEMMA ListStep ==
  ASSUME SibInv, NextSib \/ EndOfList
  PROVE  SibInv' /\ pos' >= pos
<1>1. /\ data_p' = data_p /\ place = "list" /\ UNCHANGED <<maxSIB, flags, n, k>>
      /\ pos' \in {pos, pos + 5} /\ i' \in {i, i + 1} /\ i' <= maxSIB
  BY DEF NextSib, EndOfList, Read, Plain, SibInv, TypeOK
<1>2. place' \in {"sib2", "sib3", "sib4", "sib5", "list", "done", "outside"}
  BY DEF NextSib, EndOfList, Read, SibPlace
<1>3. HeadRead'
  BY <1>1, HeadStays DEF SibInv, Listed
<1>4. TypeOK'
  BY <1>1, <1>2 DEF SibInv, TypeOK, Places
<1>5. pos \in Nat
  BY DEF SibInv, TypeOK
<1> QED
  BY <1>1, <1>2, <1>3, <1>4, <1>5 DEF SibInv, Listed, ListInv, Elements

\* An element of a list, behind which the list goes on or ends.
LEMMA ElementStep ==
  ASSUME SibInv, NEW from \in Elements, NEW end, FromTo(pos, end), NEW to \in Places,
         ReadElement(from, end, to),
         to \notin Elements \union {"head", "acBarring"},
         from # "siMessage" => to \in Listed \union {"outside"},
         from = "siMessage" => to \notin Listed
  PROVE  SibInv' /\ pos' >= pos
<1>1. /\ data_p' = data_p /\ place = from /\ UNCHANGED <<maxSIB, i, flags, n>>
      /\ pos' = end /\ k' = k + 1
      /\ place' = "outside" \/ place' = IF k + 1 < n THEN from ELSE to
  BY DEF ReadElement, Read
<1>2. k \in Nat /\ n \in 0 .. 32 /\ k < n /\ pos \in Nat
  BY <1>1 DEF SibInv, TypeOK, ListInv
<1>3. TypeOK'
  BY <1>1, <1>2 DEF SibInv, TypeOK, FromTo, Places, Elements
<1>4. ListInv'
  BY <1>1, <1>2 DEF SibInv, ListInv, Elements
<1>5. from # "siMessage" => HeadRead'
  BY <1>1, HeadStays DEF SibInv, Listed, Elements
<1> QED
  BY <1>1, <1>2, <1>3, <1>4, <1>5 DEF SibInv, FromTo, Listed, Elements

\* A block of fields that belongs to no list.
LEMMA PlainStep ==
  ASSUME SibInv, NEW from \in Listed, NEW end, FromTo(pos, end), NEW to \in Listed,
         Read(from, end, to), UNCHANGED <<maxSIB, i>>, TypeOK',
         to \notin Elements \union {"acBarring"}
  PROVE  SibInv' /\ pos' >= pos
<1>1. place = from /\ place' \in {to, "outside"} /\ pos' = end /\ data_p' = data_p
  BY ReadFacts
<1>2. HeadRead'
  BY <1>1, HeadStays DEF SibInv
<1>3. to # "head"
  BY DEF Listed
<1> QED
  BY <1>1, <1>2, <1>3 DEF SibInv, FromTo, ListInv, Elements

LEMMA Sib1Step ==
  ASSUME SibInv, Sib1
  PROVE  SibInv' /\ pos' >= pos
<1>1. data_p \in Messages /\ pos \in Nat /\ flags \in 0 .. 7
  BY DEF SibInv, TypeOK
<1>2. /\ FromTo(pos, AccessInfo(pos)) /\ FromTo(pos, CellSelection(pos))
      /\ FromTo(pos, SchedulingInfo(pos)) /\ FromTo(pos, SiWindow(pos))
  BY <1>1, Sib1Blocks
<1>3. CASE /\ Read("sib1", AccessInfo(pos), "cellSelection")
           /\ flags' = ExtraData(pos, 3) /\ UNCHANGED <<maxSIB, i, n, k>>
  <2>1. flags' \in 0 .. 7
    BY <1>1, <1>3, ExtraDataRange
  <2> QED
    BY <1>2, <1>3, <2>1, ReadFacts
       DEF SibInv, TypeOK, Places, FromTo, Listed, ListInv, Elements
<1>4. CASE /\ Read("cellSelection", CellSelection(pos) + 5, "siMessage")
           /\ n' = ExtraData(CellSelection(pos), 5) + 1 /\ k' = 0
           /\ UNCHANGED <<maxSIB, i, flags>>
  <2>1. n' \in 1 .. 32
    <3>1. ExtraData(CellSelection(pos), 5) \in 0 .. 31
      BY <1>1, <1>2, ExtraDataRange DEF FromTo
    <3> QED
      BY <1>4, <3>1
  <2> QED
    BY <1>2, <1>4, <2>1, ReadFacts
       DEF SibInv, TypeOK, Places, FromTo, Listed, ListInv, Elements
<1>5. CASE ReadElement("siMessage", SchedulingInfo(pos), "siWindow")
  <2>1. "siWindow" \in Places /\ "siMessage" \in Elements
        /\ "siWindow" \notin Elements \union {"head", "acBarring"} \union Listed
    BY DEF Places, Elements, Listed
  <2> QED
    BY <1>2, <1>5, <2>1, ElementStep
<1>6. CASE Read("siWindow", SiWindow(pos), "done") /\ Plain
  BY <1>2, <1>6, ReadFacts
     DEF SibInv, TypeOK, Places, FromTo, Listed, ListInv, Elements, Plain
<1> QED
  BY <1>3, <1>4, <1>5, <1>6 DEF Sib1

\* SIB2 begins behind the head that is read again, which HeadRead knows.
LEMMA Sib2Step ==
  ASSUME SibInv, Sib2
  PROVE  SibInv' /\ (pos' >= pos \/ place = "sib2")
<1>1. CASE Sib2Head
  <2>1. place = "sib2" /\ HeadRead
    BY <1>1 DEF Sib2Head, Read, SibInv, Listed
  <2>2. /\ pos' = 13 /\ place' \in {"acBarring", "outside"} /\ data_p' = data_p
        /\ UNCHANGED <<maxSIB, i, flags, n, k>>
    BY <1>1, <2>1 DEF Sib2Head, Read, Plain, HeadRead
  <2>3. HeadRead'
    BY <2>1, <2>2, HeadStays
  <2> QED
    BY <2>1, <2>2, <2>3 DEF SibInv, TypeOK, Places, Listed, ListInv, Elements
<1>2. ASSUME NEW from \in Listed, NEW end, FromTo(pos, end), NEW to \in Listed,
             Read(from, end, to), Plain, to \notin Elements \union {"acBarring"}
      PROVE  SibInv' /\ pos' >= pos
  <2>1. TypeOK'
    BY <1>2, ReadFacts DEF SibInv, TypeOK, Places, Listed, FromTo, Plain
  <2> QED
    BY <1>2, <2>1, PlainStep DEF Plain
<1>3. data_p \in Messages /\ pos \in Nat
  BY DEF SibInv, TypeOK
<1>4. /\ FromTo(pos, AcBarring(pos)) /\ FromTo(pos, RachConfig(pos))
      /\ FromTo(pos, CommonConfig(pos)) /\ FromTo(pos, SoundingRs(pos))
      /\ FromTo(pos, PowerControl(pos)) /\ FromTo(pos, FreqInfo(pos)) /\ FromTo(pos, pos + 3)
  BY <1>3, Sib2Blocks DEF FromTo
<1>5. /\ {"acBarring", "rach", "common", "srs", "power", "freqInfo", "timeAlignment", "list"}
           \subseteq Listed
      /\ {"rach", "common", "srs", "power", "freqInfo", "timeAlignment", "list"}
           \intersect (Elements \union {"acBarring"}) = {}
  BY DEF Listed, Elements
<1>6. CASE Read("acBarring", AcBarring(pos), "rach") /\ Plain
  BY <1>2, <1>4, <1>5, <1>6
<1>7. CASE Read("rach", RachConfig(pos), "common") /\ Plain
  BY <1>2, <1>4, <1>5, <1>7
<1>8. CASE Read("common", CommonConfig(pos), "srs") /\ Plain
  BY <1>2, <1>4, <1>5, <1>8
<1>9. CASE Read("srs", SoundingRs(pos), "power") /\ Plain
  BY <1>2, <1>4, <1>5, <1>9
<1>10. CASE Read("power", PowerControl(pos), "freqInfo") /\ Plain
  BY <1>2, <1>4, <1>5, <1>10
<1>11. CASE Read("freqInfo", FreqInfo(pos), "timeAlignment") /\ Plain
  BY <1>2, <1>4, <1>5, <1>11
<1>12. CASE Read("timeAlignment", pos + 3, "list") /\ Plain
  BY <1>2, <1>4, <1>5, <1>12
<1> QED
  BY <1>1, <1>6, <1>7, <1>8, <1>9, <1>10, <1>11, <1>12 DEF Sib2

LEMMA Sib3Step ==
  ASSUME SibInv, Sib3
  PROVE  SibInv' /\ pos' >= pos
<1>1. pos \in Nat /\ UNCHANGED <<maxSIB, i>>
  BY DEF SibInv, TypeOK, Sib3, Plain
<1>2. /\ FromTo(pos, ReselectionCommon(pos)) /\ FromTo(pos, ServingFreq(pos))
      /\ FromTo(pos, IntraFreq(pos))
  BY <1>1, LaterBlocks
<1>3. TypeOK'
  BY <1>2, ReadFacts DEF SibInv, TypeOK, Places, Sib3, Plain, FromTo
<1>4. /\ {"sib3", "servingFreq", "intraFreq", "list"} \subseteq Listed
      /\ {"servingFreq", "intraFreq", "list"} \intersect (Elements \union {"acBarring"}) = {}
  BY DEF Listed, Elements
<1>5. CASE Read("sib3", ReselectionCommon(pos), "servingFreq")
  BY <1>1, <1>2, <1>3, <1>4, <1>5, PlainStep
<1>6. CASE Read("servingFreq", ServingFreq(pos), "intraFreq")
  BY <1>1, <1>2, <1>3, <1>4, <1>6, PlainStep
<1>7. CASE Read("intraFreq", IntraFreq(pos), "list")
  BY <1>1, <1>2, <1>3, <1>4, <1>7, PlainStep
<1> QED
  BY <1>5, <1>6, <1>7 DEF Sib3

\* A count of four bits fits the arrays of sixteen.
LEMMA CountedStep ==
  ASSUME SibInv, place \in {"sib4", "black"}, NEW start \in Nat, start >= pos,
         NEW first \in {"intraNeigh", "blackCell"}, NEW none \in {"black", "physCellId"},
         CountedList(start, 4, first, none), flags' \in 0 .. 7
  PROVE  SibInv' /\ pos' >= pos
<1>1. ExtraData(start, 4) \in 0 .. 15
  BY ExtraDataRange DEF SibInv
<1>2. /\ data_p' = data_p /\ pos' = start + 4 /\ UNCHANGED <<maxSIB, i>>
      /\ n' = ExtraData(start, 4) /\ k' = 0
      /\ place' = "outside" \/ place' = IF ExtraData(start, 4) > 0 THEN first ELSE none
  BY DEF CountedList, Read
<1>3. HeadRead'
  BY <1>2, HeadStays DEF SibInv, Listed
<1>4. pos \in Nat
  BY DEF SibInv, TypeOK
<1>5. TypeOK'
  BY <1>1, <1>2 DEF SibInv, TypeOK, Places
<1> QED
  BY <1>1, <1>2, <1>3, <1>4, <1>5 DEF SibInv, Listed, ListInv, Elements

LEMMA Sib4Step ==
  ASSUME SibInv, Sib4
  PROVE  SibInv' /\ pos' >= pos
<1>1. /\ data_p \in Messages /\ pos \in Nat /\ flags \in 0 .. 7
      /\ pos + 3 \in Nat /\ pos + 3 >= pos /\ pos >= pos
  BY DEF SibInv, TypeOK
<1>2. CASE /\ place = "sib4" /\ flags' = ExtraData(pos, 3)
           /\ IF Bit(pos) = 1
              THEN CountedList(pos + 3, 4, "intraNeigh", "black")
              ELSE Read("sib4", pos + 3, "black") /\ UNCHANGED <<maxSIB, i, n, k>>
  <2>1. flags' \in 0 .. 7
    BY <1>1, <1>2, ExtraDataRange
  <2>2. CASE CountedList(pos + 3, 4, "intraNeigh", "black")
    BY <1>1, <1>2, <2>1, <2>2, CountedStep
  <2>3. CASE Read("sib4", pos + 3, "black") /\ UNCHANGED <<maxSIB, i, n, k>>
    <3>1. TypeOK'
      BY <2>1, <2>3, ReadFacts DEF SibInv, TypeOK, Places
    <3>2. {"sib4", "black"} \subseteq Listed /\ "black" \notin Elements \union {"acBarring"}
      BY DEF Listed, Elements
    <3>3. FromTo(pos, pos + 3)
      BY <1>1 DEF FromTo
    <3> QED
      BY <2>3, <3>1, <3>2, <3>3, PlainStep
  <2> QED
    BY <1>2, <2>2, <2>3
<1>3. CASE ReadElement("intraNeigh", pos + 14, "black")
  <2>1. /\ "intraNeigh" \in Elements /\ "black" \in Places \intersect Listed
        /\ "black" \notin Elements \union {"head", "acBarring"}
    BY DEF Elements, Places, Listed
  <2>2. FromTo(pos, pos + 14)
    BY <1>1 DEF FromTo
  <2> QED
    BY <1>3, <2>1, <2>2, ElementStep
<1>4. CASE /\ place = "black" /\ UNCHANGED flags
           /\ IF Flag(flags, 2)
              THEN CountedList(pos, 4, "blackCell", "physCellId")
              ELSE Read("black", pos, "physCellId") /\ UNCHANGED <<maxSIB, i, n, k>>
  <2>1. flags' \in 0 .. 7
    BY <1>1, <1>4
  <2>2. CASE CountedList(pos, 4, "blackCell", "physCellId")
    BY <1>1, <1>4, <2>1, <2>2, CountedStep
  <2>3. CASE Read("black", pos, "physCellId") /\ UNCHANGED <<maxSIB, i, n, k>>
    <3>1. TypeOK'
      BY <2>1, <2>3, ReadFacts DEF SibInv, TypeOK, Places
    <3>2. /\ {"black", "physCellId"} \subseteq Listed
          /\ "physCellId" \notin Elements \union {"acBarring"}
      BY DEF Listed, Elements
    <3>3. FromTo(pos, pos)
      BY <1>1 DEF FromTo
    <3> QED
      BY <2>3, <3>1, <3>2, <3>3, PlainStep
  <2> QED
    BY <1>4, <2>2, <2>3
<1>5. CASE ReadElement("blackCell", BlackCell(pos), "physCellId")
  <2>1. /\ "blackCell" \in Elements /\ "physCellId" \in Places \intersect Listed
        /\ "physCellId" \notin Elements \union {"head", "acBarring"}
    BY DEF Elements, Places, Listed
  <2>2. FromTo(pos, BlackCell(pos))
    BY <1>1, LaterBlocks
  <2> QED
    BY <1>5, <2>1, <2>2, ElementStep
<1>6. CASE Read("physCellId", pos + 15, "list") /\ Plain
  <2>1. TypeOK'
    BY <1>1, <1>6, ReadFacts DEF SibInv, TypeOK, Places, Plain
  <2>2. {"physCellId", "list"} \subseteq Listed /\ "list" \notin Elements \union {"acBarring"}
    BY DEF Listed, Elements
  <2>3. FromTo(pos, pos + 15)
    BY <1>1 DEF FromTo
  <2> QED
    BY <1>6, <2>1, <2>2, <2>3, PlainStep DEF Plain
<1> QED
  BY <1>2, <1>3, <1>4, <1>5, <1>6 DEF Sib4

\* A count of three bits and one more fits the array of eight.
LEMMA Sib5Step ==
  ASSUME SibInv, Sib5
  PROVE  SibInv' /\ pos' >= pos
<1>1. data_p \in Messages /\ pos \in Nat /\ flags \in 0 .. 7
  BY DEF SibInv, TypeOK
<1>2. CASE /\ Read("sib5", pos + 4, "carrier")
           /\ flags' = Bit(pos) /\ n' = ExtraData(pos + 1, 3) + 1 /\ k' = 0
           /\ UNCHANGED <<maxSIB, i>>
  <2>1. n' \in 1 .. 8 /\ flags' \in 0 .. 7
    BY <1>1, <1>2, BitRange, ExtraDataRange
  <2>2. HeadRead'
    BY <1>2, ReadFacts, HeadStays DEF SibInv, Listed
  <2>3. TypeOK'
    BY <1>1, <1>2, <2>1, ReadFacts DEF SibInv, TypeOK, Places
  <2> QED
    BY <1>1, <1>2, <2>1, <2>2, <2>3, ReadFacts DEF SibInv, Listed, ListInv, Elements
<1>3. ASSUME NEW to \in {"r12", "list"}, ReadElement("carrier", CarrierFreq(pos), to)
      PROVE  SibInv' /\ pos' >= pos
  <2>1. /\ "carrier" \in Elements /\ to \in Places \intersect Listed
        /\ to \notin Elements \union {"head", "acBarring"}
    BY <1>3 DEF Elements, Places, Listed
  <2>2. FromTo(pos, CarrierFreq(pos))
    BY <1>1, LaterBlocks
  <2> QED
    BY <1>3, <2>1, <2>2, ElementStep
<1>4. CASE Read("r12", pos + 23 + 4 * 56, "list") /\ Plain
  <2>1. TypeOK'
    BY <1>1, <1>4, ReadFacts DEF SibInv, TypeOK, Places, Plain
  <2>2. {"r12", "list"} \subseteq Listed /\ "list" \notin Elements \union {"acBarring"}
    BY DEF Listed, Elements
  <2>3. FromTo(pos, pos + 23 + 4 * 56)
    BY <1>1 DEF FromTo
  <2> QED
    BY <1>4, <2>1, <2>2, <2>3, PlainStep DEF Plain
<1> QED
  BY <1>2, <1>3, <1>4 DEF Sib5

LEMMA SibNext ==
  ASSUME SibInv, [Next]_vars
  PROVE  SibInv' /\ (pos' >= pos \/ place = "sib2")
<1>1. CASE DecodeHead
  <2>1. pos' >= pos
    BY <1>1 DEF DecodeHead, Read, SibInv
  <2> QED
    BY <1>1, <2>1, HeadStep
<1>2. CASE UNCHANGED vars
  <2>1. HeadRead => HeadRead'
    BY <1>2, HeadStays DEF vars
  <2> QED
    BY <1>2, <2>1 DEF vars, SibInv, TypeOK, ListInv
<1> QED
  BY <1>1, <1>2, ListStep, Sib1Step, Sib2Step, Sib3Step, Sib4Step, Sib5Step DEF Next, Decode

\* The position and the count are sound at every place of every message: the
\* head that the list and SIB2 rely on was read, and the counts fit the arrays.
THEOREM SibInvariant == Spec => []SibInv
  BY SibInit, SibNext, PTL DEF Spec

-----------------------------------------------------------------------------
(* The properties. *)

\* Types, for every message: no count of a list is passed, and no more SIBs
\* are begun than the head counts (DecodeSIBMesg).
THEOREM TypeCorrect == Spec => []TypeOK
<1>1. SibInv => TypeOK
  BY DEF SibInv
<1> QED
  BY <1>1, SibInvariant, PTL

\* Whatever the message says, no element of a list is stored behind its array
\* (info_sib, PhysCellId, range, dl_CarrierFreq): the widths of the counts see
\* to it.
THEOREM ArraysInRangeCorrect == Spec => []ArraysInRange
<1>1. SibInv => ArraysInRange
  BY DEF SibInv, TypeOK, ListInv, Elements, ArraysInRange
<1> QED
  BY <1>1, SibInvariant, PTL

\* SIB2, which reads the head once more (main_test_sib2), finds in it what
\* DecodeSIBMesg has found, at every place of every list.
THEOREM Sib2ReadsHeadCorrect == Spec => []Sib2ReadsHead
<1>1. SibInv => Sib2ReadsHead
  <2> SUFFICES ASSUME SibInv, place = "acBarring" PROVE Sib2ReadsHead
    BY DEF Sib2ReadsHead
  <2>1. pos = 13 /\ HeadRead
    BY DEF SibInv, Listed
  <2>2. ExtraData(0, 3) = Bit(2) + 2 * Bit(1) + 4 * Bit(0)
    BY <2>1 DEF ExtraData, Opt, HeadRead
  <2> QED
    BY <2>1, <2>2 DEF Sib2ReadsHead, HeadRead
<1> QED
  BY <1>1, SibInvariant, PTL

\* Every block but the head of SIB2 ends at or behind its first bit, so only
\* SIB2 is read again (pos of main_test_sib1 to main_test_sib5).
THEOREM OnlySib2GoesBackCorrect == Spec => OnlySib2GoesBack
<1>1. SibInv /\ [Next]_vars => [pos' >= pos \/ place = "sib2"]_vars
  BY SibNext
<1> QED
  BY <1>1, SibInvariant, PTL DEF Spec, OnlySib2GoesBack

-----------------------------------------------------------------------------
(* What is left to read. *)

LEMMA BlocksRange ==
  ASSUME NEW p \in Places \ {"head"}
  PROVE  BlocksLeft[p] \in 0 .. 9
  BY DEF Places, BlocksLeft

LEMMA LeftRange ==
  ASSUME SibInv
  PROVE  LeftToRead \in Nat
<1>1. place # "head" => BlocksLeft[place] \in 0 .. 9
  BY BlocksRange DEF SibInv, TypeOK
<1> QED
  BY <1>1 DEF SibInv, TypeOK, LeftToRead

\* A block that the list of SIBs is not begun with, nor an element.
LEMMA BlockCounts ==
  ASSUME SibInv, SibInv', NEW from \in Places \ {"head"}, NEW end, NEW to \in Places \ {"head"},
         Read(from, end, to), UNCHANGED <<maxSIB, i>>, BlocksLeft[to] < BlocksLeft[from]
  PROVE  LeftToRead' < LeftToRead
<1>1. place = from /\ place' \in {to, "outside"}
  BY ReadFacts
<1>2. BlocksLeft["outside"] = 0
  BY DEF BlocksLeft
<1>3. BlocksLeft[to] \in 0 .. 9 /\ BlocksLeft[from] \in 0 .. 9
  BY BlocksRange
<1>4. BlocksLeft[place'] \in 0 .. 9 /\ BlocksLeft[place'] < BlocksLeft[place]
      /\ BlocksLeft[place] \in 0 .. 9
  BY <1>1, <1>2, <1>3
<1>5. place # "head" /\ place' # "head"
  BY <1>1
<1>6. PICK before \in 0 .. 32 :
        LeftToRead = 400 * (maxSIB - i) + 33 * BlocksLeft[place] + before
  BY <1>5 DEF SibInv, TypeOK, LeftToRead
<1>7. PICK after \in 0 .. 32 :
        LeftToRead' = 400 * (maxSIB' - i') + 33 * BlocksLeft[place'] + after
  BY <1>5 DEF SibInv, TypeOK, LeftToRead
<1>8. \A s, b, c \in Nat : b < c => 400 * s + 33 * b + after < 400 * s + 33 * c + before
  OBVIOUS
<1>9. maxSIB - i \in Nat /\ maxSIB' = maxSIB /\ i' = i
  BY DEF SibInv, TypeOK
<1> QED
  BY <1>4, <1>6, <1>7, <1>8, <1>9

LEMMA ElementCounts ==
  ASSUME SibInv, SibInv', NEW from \in Elements, NEW end, NEW to \in Places \ {"head"},
         ReadElement(from, end, to), BlocksLeft[to] < BlocksLeft[from]
  PROVE  LeftToRead' < LeftToRead
<1>1. from \in Places \ {"head"}
  BY DEF Elements, Places
<1>2. CASE k + 1 < n /\ place' = from
  <2>1. place = from /\ UNCHANGED <<maxSIB, i, n>> /\ k' = k + 1
    BY DEF ReadElement, Read
  <2>2. BlocksLeft[from] \in 0 .. 9
    BY <1>1, BlocksRange
  <2> QED
    BY <1>1, <1>2, <2>1, <2>2 DEF SibInv, TypeOK, LeftToRead
<1>3. CASE ~(k + 1 < n /\ place' = from)
  <2>1. Read(from, end, to) \/ Read(from, end, "outside")
    BY <1>3 DEF ReadElement, Read
  <2>2. UNCHANGED <<maxSIB, i>>
    BY DEF ReadElement
  <2>3. BlocksLeft["outside"] = 0 /\ BlocksLeft[to] \in 0 .. 9 /\ BlocksLeft[from] \in 0 .. 9
    BY <1>1, BlocksRange DEF BlocksLeft
  <2>4. "outside" \in Places \ {"head"}
    BY DEF Places
  <2> QED
    BY <1>1, <2>1, <2>2, <2>3, <2>4, BlockCounts
<1> QED
  BY <1>2, <1>3

LEMMA NextSibCounts ==
  ASSUME SibInv, SibInv', NextSib
  PROVE  LeftToRead' < LeftToRead
<1>1. /\ place = "list" /\ i' = i + 1 /\ UNCHANGED <<maxSIB, n, k>> /\ i < maxSIB
      /\ place' \in {"sib2", "sib3", "sib4", "sib5", "list", "outside"}
  BY DEF NextSib, Read, SibPlace
<1>2. BlocksLeft[place'] \in 0 .. 9 /\ BlocksLeft[place] = 1
  BY <1>1 DEF BlocksLeft
<1>3. place' \notin Elements \union {"head"} /\ place \notin Elements \union {"head"}
  BY <1>1 DEF Elements
<1>4. maxSIB \in Nat /\ i \in Nat
  BY DEF SibInv, TypeOK
<1> QED
  BY <1>1, <1>2, <1>3, <1>4 DEF LeftToRead

LEMMA HeadCounts ==
  ASSUME SibInv, SibInv', DecodeHead
  PROVE  LeftToRead' < LeftToRead
<1>1. LeftToRead = 400 * 33
  BY DEF DecodeHead, Read, LeftToRead
<1>2. place' \in {"list", "done", "sib1", "outside"}
  BY DEF DecodeHead, Read
<1>3. BlocksLeft[place'] \in 0 .. 9 /\ place' \notin Elements \union {"head"}
  BY <1>2 DEF BlocksLeft, Elements
<1>4. maxSIB' \in 0 .. 32 /\ i' \in 0 .. maxSIB'
  BY DEF SibInv, TypeOK
<1> QED
  BY <1>1, <1>3, <1>4 DEF LeftToRead

LEMMA SibCounts ==
  ASSUME SibInv, SibInv', Decode
  PROVE  LeftToRead' < LeftToRead
<1>1. CASE DecodeHead
  BY <1>1, HeadCounts
<1>2. CASE NextSib
  BY <1>2, NextSibCounts
<1> DEFINE Block(from, to) ==
      /\ from \in Places \ {"head"} /\ to \in Places \ {"head"}
      /\ \E end : Read(from, end, to)
      /\ UNCHANGED <<maxSIB, i>> /\ BlocksLeft[to] < BlocksLeft[from]
<1>3. ASSUME NEW from, NEW to, Block(from, to)
      PROVE  LeftToRead' < LeftToRead
  BY <1>3, BlockCounts
<1> DEFINE Element(from, to) ==
      /\ from \in Elements /\ to \in Places \ {"head"}
      /\ \E end : ReadElement(from, end, to)
      /\ BlocksLeft[to] < BlocksLeft[from]
<1>4. ASSUME NEW from, NEW to, Element(from, to)
      PROVE  LeftToRead' < LeftToRead
  BY <1>4, ElementCounts
<1>5. CASE EndOfList
  <2>1. Block("list", "done")
    BY <1>5 DEF EndOfList, Plain, Places, BlocksLeft
  <2> QED
    BY <1>3, <2>1
<1>6. CASE Sib1
  <2>1. \/ Block("sib1", "cellSelection") \/ Block("cellSelection", "siMessage")
        \/ Element("siMessage", "siWindow") \/ Block("siWindow", "done")
    BY <1>6 DEF Sib1, Plain, Places, BlocksLeft, Elements
  <2> HIDE DEF Block, Element
  <2> QED
    BY <1>3, <1>4, <2>1
<1>7. CASE Sib2
  <2>1. \/ Block("sib2", "acBarring") \/ Block("sib2", "list") \/ Block("acBarring", "rach")
        \/ Block("rach", "common") \/ Block("common", "srs") \/ Block("srs", "power")
        \/ Block("power", "freqInfo") \/ Block("freqInfo", "timeAlignment")
        \/ Block("timeAlignment", "list")
    BY <1>7 DEF Sib2, Sib2Head, Plain, Places, BlocksLeft
  <2> HIDE DEF Block
  <2> QED
    BY <1>3, <2>1
<1>8. CASE Sib3
  <2>1. \/ Block("sib3", "servingFreq") \/ Block("servingFreq", "intraFreq")
        \/ Block("intraFreq", "list")
    BY <1>8 DEF Sib3, Plain, Places, BlocksLeft
  <2> HIDE DEF Block
  <2> QED
    BY <1>3, <2>1
<1>9. CASE Sib4
  <2>1. \/ Block("sib4", "intraNeigh") \/ Block("sib4", "black")
        \/ Element("intraNeigh", "black") \/ Block("black", "blackCell")
        \/ Block("black", "physCellId") \/ Element("blackCell", "physCellId")
        \/ Block("physCellId", "list")
    BY <1>9 DEF Sib4, CountedList, Plain, Places, BlocksLeft, Elements
  <2> HIDE DEF Block, Element
  <2> QED
    BY <1>3, <1>4, <2>1
<1>10. CASE Sib5
  <2>1. \/ Block("sib5", "carrier") \/ Element("carrier", "r12") \/ Element("carrier", "list")
        \/ Block("r12", "list")
    BY <1>10 DEF Sib5, Plain, Places, BlocksLeft, Elements
  <2> HIDE DEF Block, Element
  <2> QED
    BY <1>3, <1>4, <2>1
<1> QED
  BY <1>1, <1>2, <1>5, <1>6, <1>7, <1>8, <1>9, <1>10 DEF Decode

\* Each block the decoder reads leaves less to read, of any message: the calls
\* of DecodeSIBMesg are at most as many as LeftToRead says at the head.
THEOREM EachReadCountsCorrect == Spec => [](LeftToRead \in Nat) /\ EachReadCounts
<1>1. SibInv /\ SibInv' /\ [Next]_vars => [LeftToRead' < LeftToRead]_vars
  BY SibCounts DEF Next
<1>2. SibInv => LeftToRead \in Nat
  BY LeftRange
<1> QED
  BY <1>1, <1>2, SibInvariant, PTL DEF Spec, EachReadCounts
=============================================================================
