------------------------------- MODULE MCSib -------------------------------
(***************************************************************************)
(* Messages for TLC: the samples that stand as comments in the decoder and *)
(* in its test program, each with any number of SIBs up to four and any    *)
(* first type, and with one of its bits turned over.                       *)
(***************************************************************************)
EXTENDS Sib

OneSib1  == <<80, 64, 4, 3, 0, 1, 0, 0, 0, 28, 22, 80, 144, 32, 128, 133, 0, 0>>
OneSib2  == <<0, 0, 6, 15, 214, 200, 22, 12, 0, 42, 0, 32, 1, 65, 0, 0, 41, 170, 85, 105,
              109, 12, 114, 148, 76, 28, 0>>
Sib2And3 == <<0, 128, 15, 89, 149, 100, 128, 0, 2, 10, 88, 0, 32, 0, 8, 4, 1, 47, 57, 87,
              150, 222, 192, 10, 17, 31, 232, 7, 193>>
OneSib3  == <<0, 4, 48, 32, 56, 64, 0>>
OneSib4  == <<16, 8, 96, 18, 0, 0, 0>>
LongSib1 == <<112, 81, 128, 1, 36, 78, 199, 167, 0, 24, 27, 90, 4, 66, 4, 17, 48, 145, 62,
              128, 0, 0>>
OneSib5  == <<0, 15, 84, 76, 181, 145, 169, 82, 211, 162, 37, 3, 8, 39, 45, 100, 68, 166,
              145, 4, 229, 172, 136, 152, 38, 32, 156, 181, 145, 19, 29, 132, 19, 150, 178,
              34, 88, 0, 130, 114, 212, 64, 163, 171, 0, 16, 3, 132, 49, 90, 233, 0, 16, 3,
              232, 49, 90, 217, 0, 16, 11, 184, 49, 90, 201, 0, 16, 12, 228, 49, 90, 233,
              0, 0, 0>>

\* The seven bits from 7 on: the low bits of the count and the first type.
WithList(m, v) == [m EXCEPT ![1] = v \div 64, ![2] = 4 * (v % 64) + (@ % 4)]

Flipped(m, b) ==
  LET weight == 2 ^ (7 - (b % 8))
  IN  [m EXCEPT ![(b \div 8) + 1] = IF (@ \div weight) % 2 = 1 THEN @ - weight ELSE @ + weight]

Samples == {OneSib1, LongSib1, OneSib2, Sib2And3, OneSib3, OneSib4, OneSib5}

MCMessages ==
  Samples
    \union {WithList(m, v) : m \in {Sib2And3, OneSib3, OneSib4, OneSib5}, v \in 0 .. 127}
    \union UNION {{Flipped(m, b) : b \in 0 .. (8 * Len(m) - 1)} : m \in Samples}
=============================================================================
