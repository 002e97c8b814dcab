---------------------------- MODULE MC_Prefetch ----------------------------
(* File layouts for Prefetch.  Every piece has size 1 and the wanted size  *)
(* is two pieces, except where a layout says otherwise.                    *)
EXTENDS Prefetch

File(first, last, media) ==
    [first |-> first, last |-> last, size |-> last - first + 1, media |-> media]

\* A media file of three pieces followed by a one-piece file of another
\* type: the spec's prefetch example (4.D, test 4) at piece granularity.
OneMedia == [i \in 0..1 |-> IF i = 0 THEN File(0, 2, TRUE) ELSE File(3, 3, FALSE)]

\* A one-piece media file followed by a two-piece file of another type.
ShortMedia == [i \in 0..1 |-> IF i = 0 THEN File(0, 0, TRUE) ELSE File(1, 2, FALSE)]

\* Two media files of two pieces each.
TwoMedia == [i \in 0..1 |-> IF i = 0 THEN File(0, 1, TRUE) ELSE File(2, 3, TRUE)]

\* A four-piece media file and a two-piece file of another type.
LongMedia == [i \in 0..1 |-> IF i = 0 THEN File(0, 3, TRUE) ELSE File(4, 5, FALSE)]

UnitPieces6 == [p \in 0..5 |-> 1]
UnitPieces4 == [p \in 0..3 |-> 1]
UnitPieces3 == [p \in 0..2 |-> 1]
=============================================================================
