------------------------------- MODULE Codec -------------------------------
(***************************************************************************)
(* Where the fields of the messages stand: the head as MakeSendHead prints *)
(* it and as DecodeRecvHead reads it, the bodies DecodeRecvData takes      *)
(* apart, and the sizes of the reports.  Pure operators and what is proved *)
(* of them; Session has the session they are used in.                      *)
(***************************************************************************)
EXTENDS Integers, TLAPS

-----------------------------------------------------------------------------
(* The head: seven numbers of four digits. *)

Fields == {"source", "target", "priority", "Ackflg", "CRC", "msgType", "msgSize"}

Printed == <<"source", "target", "Ackflg", "CRC", "priority", "msgType", "msgSize">>
Parsed  == <<"source", "target", "priority", "Ackflg", "CRC", "msgType", "msgSize">>

\* head is a function of Fields; the text is the sequence of its numbers.
MakeSendHead(head) == [j \in 1 .. 7 |-> head[Printed[j]]]
DecodeRecvHead(text) == [f \in Fields |-> text[CHOOSE j \in 1 .. 7 : Parsed[j] = f]]

LEMMA ParsedPlaces ==
  \A f \in Fields : \E j \in 1 .. 7 : Parsed[j] = f
  BY SMT DEF Fields, Parsed

\* A head printed by MakeSendHead and read by DecodeRecvHead keeps what a
\* frame is found and acted on by, and moves the three numbers between.
THEOREM HeadExchanges ==
  ASSUME NEW head
  PROVE  LET read == DecodeRecvHead(MakeSendHead(head)) IN
         /\ \A f \in {"source", "target", "msgType", "msgSize"} : read[f] = head[f]
         /\ read["priority"] = head["Ackflg"]
         /\ read["Ackflg"] = head["CRC"]
         /\ read["CRC"] = head["priority"]
<1> DEFINE at(f) == CHOOSE j \in 1 .. 7 : Parsed[j] = f
<1>1. \A f \in Fields : at(f) \in 1 .. 7 /\ Parsed[at(f)] = f
  BY ParsedPlaces, Zenon
<1>2. /\ at("source") = 1 /\ at("target") = 2 /\ at("priority") = 3 /\ at("Ackflg") = 4
      /\ at("CRC") = 5 /\ at("msgType") = 6 /\ at("msgSize") = 7
  <2> HIDE DEF at
  <2> QED
    BY <1>1, SMT DEF Fields, Parsed
<1>3. \A f \in Fields : DecodeRecvHead(MakeSendHead(head))[f] = head[Printed[at(f)]]
  BY <1>1 DEF DecodeRecvHead, MakeSendHead
<1> HIDE DEF at
<1> QED
  BY <1>2, <1>3, SMT DEF Fields, Printed

-----------------------------------------------------------------------------
(* The bodies.  A field is [kind, size, offset]. *)

MAX_LEN == 120   \* readLenData reads no longer body

Hex(size, offset)  == [kind |-> "hex", size |-> size, offset |-> offset]
Text(size, offset) == [kind |-> "text", size |-> size, offset |-> offset]

\* GetStrToHex and GetStrToStr refuse an offset past these.
FarthestHex == 160
FarthestText == 256
Read(field) == field.offset <= (IF field.kind = "hex" THEN FarthestHex ELSE FarthestText)

StartType(n) == Hex(4, 12 + 4 * n + 68)

\* The body of a scan command that counts n frequencies.
ScanFields(n) ==
  {Hex(4, 0), Hex(4, 4), Hex(4, 8)}
    \union {Hex(4, 12 + 4 * j) : j \in 0 .. n - 1}
    \union {Text(16, 12 + 4 * n + 16 * j) : j \in 0 .. 3}
    \union {Hex(4, 12 + 4 * n + 64), StartType(n)}

ScanSize(n) == 84 + 4 * n

\* The body of a position command that counts n cells.
PositionFields(n) ==
  {Hex(4, 0)}
    \union UNION {{Hex(8, 4 + 16 * j), Hex(4, 4 + 16 * j + 8), Hex(4, 4 + 16 * j + 12)} :
                    j \in 0 .. n - 1}

PositionSize(n) == 4 + 16 * n

Inside(field, size) == field.offset + field.size <= size

Apart(f, g) == f = g \/ f.offset + f.size <= g.offset \/ g.offset + g.size <= f.offset

\* In a body of its own length that readLenData takes, no field of a scan
\* command is refused for its offset, and none lies outside of the body.
THEOREM ScanFieldsRead ==
  ASSUME NEW n \in Nat, ScanSize(n) <= MAX_LEN, NEW f \in ScanFields(n)
  PROVE  Read(f) /\ Inside(f, ScanSize(n))
  BY DEF ScanFields, ScanSize, StartType, MAX_LEN, Read, Inside, Hex, Text, FarthestHex,
     FarthestText

\* The same for a position command.
THEOREM PositionFieldsRead ==
  ASSUME NEW n \in Nat, PositionSize(n) <= MAX_LEN, NEW f \in PositionFields(n)
  PROVE  Read(f) /\ Inside(f, PositionSize(n))
  BY DEF PositionFields, PositionSize, MAX_LEN, Read, Inside, Hex, FarthestHex

\* No character of a body belongs to two fields, for any count: the offsets
\* computed from it leave room for every list before them.
THEOREM ScanFieldsApart ==
  ASSUME NEW n \in Nat, NEW f \in ScanFields(n), NEW g \in ScanFields(n)
  PROVE  Apart(f, g)
  BY DEF ScanFields, StartType, Apart, Hex, Text

\* The same for a position command, whose cells take sixteen characters each.
THEOREM PositionFieldsApart ==
  ASSUME NEW n \in Nat, NEW f \in PositionFields(n), NEW g \in PositionFields(n)
  PROVE  Apart(f, g)
  BY DEF PositionFields, Apart, Hex

\* A count of more than 20 frequencies arms no timer, whatever the body: its
\* start type is refused, and a refused field is not 1.
THEOREM FarScanArmsNothing ==
  ASSUME NEW n \in Nat
  PROVE  n > 20 <=> ~Read(StartType(n))
  BY DEF StartType, Read, Hex, FarthestHex

-----------------------------------------------------------------------------
(* The report of the stations: 16 characters and then the cells. *)

\* What GetStrSize announces for n cells.
GetStrSize(n) == 16 + 20 * n

\* forTmp when cell i is printed, 20 * 0 + 20 * 1 + ... + 20 * (i - 1).
CellOffset(i) == 10 * i * (i - 1)

\* A NUL stands l characters into the cells: a cell ends there, and no later
\* one is printed over it.
NulAt(n, l) ==
  \E i \in 0 .. n - 1 :
    /\ l = CellOffset(i) + 20
    /\ \A j \in i + 1 .. n - 1 : l < CellOffset(j) \/ CellOffset(j) + 20 <= l

LEMMA LaterCells ==
  ASSUME NEW j \in Nat, j >= 3
  PROVE  CellOffset(j) >= 60
<1>1. j * (j - 1) >= 3 * (j - 1)
  OBVIOUS
<1>2. 10 * j * (j - 1) = 10 * (j * (j - 1))
  OBVIOUS
<1> QED
  BY <1>1, <1>2 DEF CellOffset

\* The report of one cell, the only one DEV_SendScanPara makes, is as long as
\* its head announces.
THEOREM OneCellAnnounced ==
  /\ GetStrSize(1) = 16 + 20
  /\ NulAt(1, 20) /\ \A l \in 0 .. 19 : ~NulAt(1, l)
  BY DEF GetStrSize, NulAt, CellOffset

\* The report of two cells or more would end before that.
THEOREM MoreCellsCut ==
  ASSUME NEW n \in Nat, n >= 2
  PROVE  \E l \in Nat : NulAt(n, l) /\ 16 + l < GetStrSize(n)
<1>1. CellOffset(0) = 0 /\ CellOffset(1) = 0 /\ CellOffset(2) = 20
  BY DEF CellOffset
<1>2. CASE n = 2
  BY <1>1, <1>2 DEF NulAt, GetStrSize
<1>3. CASE n >= 3
  <2>1. \A j \in 3 .. n - 1 : CellOffset(j) >= 60
    BY LaterCells
  <2>2. NulAt(n, 40)
    <3>1. 2 \in 0 .. n - 1 /\ 40 = CellOffset(2) + 20
      BY <1>1, <1>3
    <3>2. \A j \in 2 + 1 .. n - 1 : 40 < CellOffset(j) \/ CellOffset(j) + 20 <= 40
      BY <1>3, <2>1 DEF CellOffset
    <3> QED
      BY <3>1, <3>2, Zenon DEF NulAt
  <2> QED
    BY <1>3, <2>2 DEF GetStrSize
<1> QED
  BY <1>2, <1>3
=============================================================================
