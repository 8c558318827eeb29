------------------------------ MODULE MCSession ------------------------------
(* Values for TLC: frames as the phone builds them, with real sizes. *)
EXTENDS Session

Frame(t, size) == [source |-> 1, target |-> 2, msgType |-> t,
                   msgSize |-> size, StartType |-> 0]

StationReq   == Frame(17, 8)
ScanPara     == [Frame(18, 88) EXCEPT !.StartType = 1]  \* one frequency
PositionPara == Frame(19, 20)                           \* one cell
Shutdown     == Frame(22, 0)
MisAddressed == [Frame(17, 8) EXCEPT !.target = 3]
LongScan     == Frame(18, 124)                          \* ten frequencies

GoodMessages == {ScanPara, PositionPara, Shutdown}
MixedMessages == {StationReq, ScanPara, MisAddressed, LongScan}

GarbledHeads == {NoHead, [msgType |-> 19, msgSize |-> 100]}
=============================================================================
