--------------------------- MODULE ItemTimestamps ---------------------------
(***************************************************************************)
(* Timestamps as a DynamoDB item holds them: the text datetime.isoformat   *)
(* writes for an instant in UTC.  It has the seconds at a fixed width, a   *)
(* point and six digits for the microseconds unless they are zero, then    *)
(* the offset +00:00.  DynamoDB compares texts character by character.     *)
(*                                                                         *)
(* A text is its seconds, whose order is that of the characters up to      *)
(* there, the character that follows, and the digits after a point.        *)
(***************************************************************************)
EXTENDS Integers

CONSTANT TicksPerSecond   \* instants in a second, a million of them

ASSUME TicksAssumption == TicksPerSecond \in Nat \ {0}

\* The characters that may follow the seconds, in their order.
CodePoint == [c \in {"+", ".", "Z"} |-> IF c = "+" THEN 43 ELSE IF c = "." THEN 46 ELSE 90]

Texts == [second : Nat, mark : DOMAIN CodePoint, fraction : Nat]

\* Mutant: the offset is written Z.
IsoWithZ(t) ==
    [second   |-> t \div TicksPerSecond,
     mark     |-> IF t % TicksPerSecond = 0 THEN "Z" ELSE ".",
     fraction |-> t % TicksPerSecond]

\* datetime.isoformat
Iso(t) ==
    [second   |-> t \div TicksPerSecond,
     mark     |-> IF t % TicksPerSecond = 0 THEN "+" ELSE ".",
     fraction |-> t % TicksPerSecond]

\* datetime.fromisoformat
FromIso(text) == TicksPerSecond * text.second + text.fraction

\* The order DynamoDB has on texts.
SortsUpTo(a, b) ==
    \/ a.second < b.second
    \/ /\ a.second = b.second
       /\ \/ CodePoint[a.mark] < CodePoint[b.mark]
          \/ a.mark = b.mark /\ a.fraction <= b.fraction
=============================================================================
