-------------------------------- MODULE Sib --------------------------------
(***************************************************************************)
(* The decoder of LTE system information: DecodeSIBMesg and the functions  *)
(* for SIB1 to SIB5, which walk over a message with the global bit         *)
(* position pos.  What a field is printed as is left out; what decides     *)
(* where the next one starts (flags, choices, counts) is kept.             *)
(*                                                                         *)
(* A block of fields is an operator from the position of its first bit to  *)
(* the position after its last one.  The code never compares pos with the  *)
(* size of the message: a block that leaves it reads what lies behind the  *)
(* array, and the model ends there ("outside").                            *)
(***************************************************************************)
EXTENDS Integers, Sequences

CONSTANT Messages   \* data_p, as sequences of bytes

ASSUME MessagesAssumption == \A m \in Messages : m \in Seq(0 .. 255)

VARIABLES
  data_p, pos,
  place,        \* the block that is read next
  maxSIB, i,    \* the SIBs of the list, and how many of them were begun
  flags,        \* the option flags of the SIB that is read
  n, k          \* a count of its elements, and how many of them were read

vars == <<data_p, pos, place, maxSIB, i, flags, n, k>>

Places ==
  {"head", "list", "done", "outside"}
    \union {"sib1", "cellSelection", "siMessage", "siWindow"}
    \union {"sib2", "acBarring", "rach", "common", "srs", "power", "freqInfo", "timeAlignment"}
    \union {"sib3", "servingFreq", "intraFreq"}
    \union {"sib4", "intraNeigh", "black", "blackCell", "physCellId"}
    \union {"sib5", "carrier", "r12"}

TypeOK ==
  /\ pos \in Nat
  /\ place \in Places
  /\ maxSIB \in 0 .. 32 /\ i \in 0 .. maxSIB
  /\ flags \in 0 .. 7 /\ n \in 0 .. 32 /\ k \in 0 .. n

Init ==
  /\ data_p \in Messages
  /\ pos = 0 /\ place = "head"
  /\ maxSIB = 0 /\ i = 0 /\ flags = 0 /\ n = 0 /\ k = 0

-----------------------------------------------------------------------------
(* Reading. *)

Size == 8 * Len(data_p)

mask == <<128, 64, 32, 16, 8, 4, 2, 1>>

\* Bits behind the message count as 0: no position after them is used.
Bit(p) ==
  IF p < Size THEN (data_p[(p \div 8) + 1] \div mask[(p % 8) + 1]) % 2 ELSE 0

Opt(present, bits) == IF present THEN bits ELSE 0

\* The number of `bitsize` bits, the last one the lowest.  No number that
\* decides where a field starts has more than five.
ExtraData(p, bitsize) ==
  LET Weighed(q, weight) == Opt(q < bitsize, weight * Bit(p + bitsize - 1 - q))
  IN  Weighed(0, 1) + Weighed(1, 2) + Weighed(2, 4) + Weighed(3, 8) + Weighed(4, 16)

Flag(value, weight) == (value \div weight) % 2 = 1

\* The block at `from` ends before `end`, and `to` is the next one.
Read(from, end, to) ==
  /\ place = from
  /\ pos' = end
  /\ place' = IF end <= Size THEN to ELSE "outside"
  /\ UNCHANGED data_p

\* The same, for one of the n elements of a list.
ReadElement(from, end, to) ==
  /\ Read(from, end, IF k + 1 < n THEN from ELSE to)
  /\ k' = k + 1
  /\ UNCHANGED <<maxSIB, i, flags, n>>

Plain == UNCHANGED <<maxSIB, i, flags, n, k>>

-----------------------------------------------------------------------------
(* DecodeSIBMesg. *)

\* The choices: a message that is no c1, or a future extension, is left alone.
DecodeHead ==
  \/ /\ Bit(0) = 1
     /\ Read("head", 1, "done") /\ Plain
  \/ /\ Bit(0) = 0 /\ Bit(1) = 1
     /\ Read("head", 2, "sib1") /\ Plain
  \/ /\ Bit(0) = 0 /\ Bit(1) = 0 /\ Bit(2) = 1
     /\ Read("head", 3, "done") /\ Plain
  \/ /\ Bit(0) = 0 /\ Bit(1) = 0 /\ Bit(2) = 0
     /\ Read("head", 9, "list")
     /\ maxSIB' = ExtraData(4, 5) + 1
     /\ UNCHANGED <<i, flags, n, k>>

SibPlace(type) ==
  CASE type = 2 -> "sib2" [] type = 3 -> "sib3" [] type = 4 -> "sib4" [] type = 5 -> "sib5"
    [] OTHER -> "list"

\* Slip: the list goes on while there are bits left.
NextSibByBits ==
  /\ pos < Size
  /\ Read("list", pos + 5, SibPlace(ExtraData(pos, 5) + 2))
  /\ i' = (i + 1) % 32
  /\ UNCHANGED <<maxSIB, flags, n, k>>

\* The type of the next SIB.  One that is not decoded is not skipped either:
\* its first bits are taken for the next type.
NextSib ==
  /\ i < maxSIB
  /\ Read("list", pos + 5, SibPlace(ExtraData(pos, 5) + 2))
  /\ i' = i + 1
  /\ UNCHANGED <<maxSIB, flags, n, k>>

EndOfList ==
  /\ i = maxSIB
  /\ Read("list", pos, "done")
  /\ Plain

-----------------------------------------------------------------------------
(* SIB1. *)

\* MCC if present, MNC of two or three digits, tracking area, cell identity.
AccessInfo(p) ==
  LET mnc == p + 8 + Opt(Bit(p + 7) = 1, 12)
  IN  mnc + 1 + (IF Bit(mnc) = 1 THEN 12 ELSE 8) + 48 + Opt(Bit(p + 3) = 1, 27)

CellSelection(p) == p + 7 + Opt(Bit(p) = 1, 3) + Opt(Flag(flags, 4), 6) + 6

\* Periodicity, the number of types, the types.
SchedulingInfo(p) == p + 8 + 5 * ExtraData(p + 3, 5)

\* The v890 extension: bands, then four fields.
Extension(p) ==
  p + 2 + Opt(~Flag(ExtraData(p, 2), 2), 5 + 6 * (ExtraData(p + 2, 3) + 1) + 16)

SiWindow(p) ==
  LET end == p + Opt(Flag(flags, 2), 7) + 9
  IN  IF Flag(flags, 1) THEN Extension(end) ELSE end

Sib1 ==
  \/ /\ Read("sib1", AccessInfo(pos), "cellSelection")
     /\ flags' = ExtraData(pos, 3)
     /\ UNCHANGED <<maxSIB, i, n, k>>
  \/ /\ Read("cellSelection", CellSelection(pos) + 5, "siMessage")
     /\ n' = ExtraData(CellSelection(pos), 5) + 1 /\ k' = 0
     /\ UNCHANGED <<maxSIB, i, flags>>
  \/ ReadElement("siMessage", SchedulingInfo(pos), "siWindow")
  \/ Read("siWindow", SiWindow(pos), "done") /\ Plain

-----------------------------------------------------------------------------
(* SIB2. *)

\* Slip: the position is not set back.
Sib2HeadStays ==
  /\ Read("sib2", IF Bit(pos + 2) = 0 THEN pos + 13 ELSE pos + 3,
          IF Bit(pos + 2) = 0 THEN "acBarring" ELSE "list")
  /\ Plain

\* pos goes back to 0 and the head is read once more, with four bits for the
\* type where DecodeSIBMesg has read five.
Sib2Head ==
  /\ Read("sib2", IF Bit(2) = 0 THEN 13 ELSE 3, IF Bit(2) = 0 THEN "acBarring" ELSE "list")
  /\ Plain

AcBarring(p) ==
  LET configs == ExtraData(p + 2, 2)
  IN  p + 2 + Opt(Bit(p) = 1, 3 + Opt(Flag(configs, 2), 12) + Opt(Flag(configs, 1), 12))

RachConfig(p) == p + 5 + Opt(Bit(p) = 1, 9) + 6 + 10 + 3

\* bcch, pcch, prach, pdsch, pusch and pucch have no optional field.
CommonConfig(p) == p + 2 + 5 + 28 + 9 + 21 + 23

SoundingRs(p) == p + 1 + Opt(Bit(p) = 1, 9 + Opt(Bit(p + 1) = 1, 1))

\* Power control, the cyclic prefix, and six timers and constants.
PowerControl(p) == p + 29 + 2 + 18

\* What follows is read only if option_level1, which is 0 here, says so: the
\* list of MBSFN subframes is never skipped.
FreqInfo(p) == p + 2 + Opt(Bit(p) = 1, 16) + Opt(Bit(p + 1) = 1, 3) + 5

Sib2 ==
  \/ Sib2Head
  \/ /\ \/ Read("acBarring", AcBarring(pos), "rach")
        \/ Read("rach", RachConfig(pos), "common")
        \/ Read("common", CommonConfig(pos), "srs")
        \/ Read("srs", SoundingRs(pos), "power")
        \/ Read("power", PowerControl(pos), "freqInfo")
        \/ Read("freqInfo", FreqInfo(pos), "timeAlignment")
        \/ Read("timeAlignment", pos + 3, "list")
     /\ Plain

-----------------------------------------------------------------------------
(* SIB3. *)

\* Slip: the first bit is at a fixed position, as a line left as a comment has it.
ReselectionCommonFixed(p) == 15 + 5 + Opt(Bit(15) = 1, 18)

\* One bit is passed over; the speed parameters are optional.
ReselectionCommon(p) == p + 6 + Opt(Bit(p + 1) = 1, 18)

ServingFreq(p) == p + 1 + Opt(Bit(p) = 1, 5) + 8

IntraFreq(p) ==
  p + 10 + Opt(Bit(p) = 1, 6) + Opt(Bit(p + 1) = 1, 5) + Opt(Bit(p + 2) = 1, 3)
    + 6 + Opt(Bit(p + 3) = 1, 4)

Sib3 ==
  /\ \/ Read("sib3", ReselectionCommon(pos), "servingFreq")
     \/ Read("servingFreq", ServingFreq(pos), "intraFreq")
     \/ Read("intraFreq", IntraFreq(pos), "list")
  /\ Plain

-----------------------------------------------------------------------------
(* SIB4. *)

\* Slip: the number of neighbours has five bits.
CountedListWide(start, width, first, none) ==
  LET count == ExtraData(start, width + 1)
  IN  /\ Read(place, start + width + 1, IF count > 0 THEN first ELSE none)
      /\ n' = count /\ k' = 0
      /\ UNCHANGED <<maxSIB, i>>

\* A list that may be empty: its count, then its elements, if any.
CountedList(start, width, first, none) ==
  LET count == ExtraData(start, width)
  IN  /\ Read(place, start + width, IF count > 0 THEN first ELSE none)
      /\ n' = count /\ k' = 0
      /\ UNCHANGED <<maxSIB, i>>

BlackCell(p) == p + 10 + Opt(Bit(p) = 1, 4)

Sib4 ==
  \/ /\ place = "sib4" /\ flags' = ExtraData(pos, 3)
     /\ IF Bit(pos) = 1
        THEN CountedList(pos + 3, 4, "intraNeigh", "black")
        ELSE Read("sib4", pos + 3, "black") /\ UNCHANGED <<maxSIB, i, n, k>>
  \/ ReadElement("intraNeigh", pos + 14, "black")
  \/ /\ place = "black" /\ UNCHANGED flags
     /\ IF Flag(flags, 2)
        THEN CountedList(pos, 4, "blackCell", "physCellId")
        ELSE Read("black", pos, "physCellId") /\ UNCHANGED <<maxSIB, i, n, k>>
  \/ ReadElement("blackCell", BlackCell(pos), "physCellId")
  \/ Read("physCellId", pos + 15, "list") /\ Plain

-----------------------------------------------------------------------------
(* SIB5. *)

CarrierFreq(p) ==
  p + 29 + Opt(Bit(p + 1) = 1, 6) + 3 + Opt(Bit(p + 2) = 1, 4) + 14 + Opt(Bit(p + 3) = 1, 3) + 2

\* After the carriers: four of them once more, in a later form.
Sib5 ==
  \/ /\ Read("sib5", pos + 4, "carrier")
     /\ flags' = Bit(pos)
     /\ n' = ExtraData(pos + 1, 3) + 1 /\ k' = 0
     /\ UNCHANGED <<maxSIB, i>>
  \/ ReadElement("carrier", CarrierFreq(pos), IF flags = 1 THEN "r12" ELSE "list")
  \/ Read("r12", pos + 23 + 4 * 56, "list") /\ Plain

-----------------------------------------------------------------------------

Decode == DecodeHead \/ NextSib \/ EndOfList \/ Sib1 \/ Sib2 \/ Sib3 \/ Sib4 \/ Sib5

Next == Decode

Spec == Init /\ [][Next]_vars

\* The decoder is a sequence of calls that runs to its end.
FairSpec == Spec /\ WF_vars(Decode)

-----------------------------------------------------------------------------
(* Properties. *)

\* No element of a list is stored past the end of its array: info_sib[32],
\* PhysCellId[16], range[16] and dl_CarrierFreq[8].
ArraysInRange ==
  /\ place = "siMessage" => k < 32
  /\ place \in {"intraNeigh", "blackCell"} => k < 16
  /\ place = "carrier" => k < 8

\* Where the code of SIB2 begins it has read the head that DecodeSIBMesg has
\* read, wherever in the list the SIB is: the same choices and the same count,
\* so that its body starts one bit before the first SIB of the list does.
Sib2ReadsHead ==
  place = "acBarring" => /\ ExtraData(0, 3) = 0
                         /\ maxSIB = ExtraData(pos - 9, 5) + 1
                         /\ pos = 13

\* A SIB that is not SIB2 is read behind everything that was read before it;
\* only SIB2 takes the position back.
OnlySib2GoesBack == [][pos' >= pos \/ place = "sib2"]_vars

\* The blocks of a SIB that are left, with the way back to the list.
BlocksLeft ==
  [sib1 |-> 4, cellSelection |-> 3, siMessage |-> 2, siWindow |-> 1,
   sib2 |-> 9, acBarring |-> 8, rach |-> 7, common |-> 6, srs |-> 5, power |-> 4,
   freqInfo |-> 3, timeAlignment |-> 2,
   sib3 |-> 4, servingFreq |-> 3, intraFreq |-> 2,
   sib4 |-> 6, intraNeigh |-> 5, black |-> 4, blackCell |-> 3, physCellId |-> 2,
   sib5 |-> 4, carrier |-> 3, r12 |-> 2,
   list |-> 1, done |-> 0, outside |-> 0]

\* The places where the elements of a list are read.
Elements == {"siMessage", "intraNeigh", "blackCell", "carrier"}

\* What is left to read: SIBs, then blocks of a SIB, then elements of a block.
\* There are at most 32 elements and nine blocks, and the head at most 32 SIBs.
LeftToRead ==
  IF place = "head"
  THEN 400 * 33
  ELSE 400 * (maxSIB - i) + 33 * BlocksLeft[place] + (IF place \in Elements THEN n - k ELSE 0)

\* Every block that is read leaves less to read, wherever its bits stand: what
\* the message says and the way back of SIB2 cannot make the decoder go round.
EachReadCounts == [][LeftToRead' < LeftToRead]_vars

\* Decoding ends, in spite of the position that goes back, and when it ends
\* inside the message as many SIBs were begun as the head counts.
DecodeEnds == <>(place = "outside" \/ (place = "done" /\ i = maxSIB))
=============================================================================
