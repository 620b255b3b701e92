------------------------ MODULE ItemTimestamps_proofs ------------------------
(***************************************************************************)
(* What the repository's use of texts for timestamps rests on: a timestamp *)
(* reads back as itself, and DynamoDB's comparisons of the texts are those *)
(* of the instants, also between a text with microseconds and one without. *)
(***************************************************************************)
EXTENDS ItemTimestamps, TLAPS

\* The seconds of an instant and the ticks that are left.
LEMMA InstantParts ==
    ASSUME NEW t \in Nat
    PROVE  /\ t \div TicksPerSecond \in Nat
           /\ t % TicksPerSecond \in 0 .. TicksPerSecond - 1
           /\ t = TicksPerSecond * (t \div TicksPerSecond) + (t % TicksPerSecond)
<1>1. TicksPerSecond \in Nat /\ TicksPerSecond > 0
  BY TicksAssumption
<1> QED BY <1>1

\* isoformat writes a text, and fromisoformat reads the same instant from it
\* (persistence_models.py).
THEOREM TextsReadBack ==
    ASSUME NEW t \in Nat
    PROVE  Iso(t) \in Texts /\ FromIso(Iso(t)) = t
<1>1. Iso(t) \in Texts
  BY InstantParts DEF Iso, Texts, CodePoint
<1>2. FromIso(Iso(t)) = t
  BY InstantParts DEF Iso, FromIso
<1> QED BY <1>1, <1>2

\* Two instants have the same text only if they are the same.
LEMMA TextsAreInjective ==
    ASSUME NEW s \in Nat, NEW t \in Nat, Iso(s) = Iso(t)
    PROVE  s = t
  BY TextsReadBack

\* An instant of an earlier second is earlier.
LEMMA EarlierSecond ==
    ASSUME NEW R \in Nat, NEW a \in Nat, NEW b \in Nat, a < b,
           NEW f \in 0 .. R - 1, NEW g \in Nat
    PROVE  R * a + f < R * b + g
<1>1. PICK d \in Nat : b = a + 1 + d
  <2>1. b - a - 1 \in Nat /\ b = a + 1 + (b - a - 1)
    OBVIOUS
  <2> QED BY <2>1
<1>2. R * b = R * a + R + R * d
  BY <1>1
<1>3. R * d \in Nat /\ R * a \in Nat /\ R * b \in Nat
  OBVIOUS
<1> QED BY <1>2, <1>3

\* The order DynamoDB has on the texts of two instants is the order of the
\* instants: the lease comparison of claim_job's condition expression is the
\* one is_lease_expired makes in memory.
THEOREM TextsSortAsInstants ==
    ASSUME NEW s \in Nat, NEW t \in Nat
    PROVE  SortsUpTo(Iso(s), Iso(t)) <=> s <= t
<1> DEFINE a == s \div TicksPerSecond  f == s % TicksPerSecond
           b == t \div TicksPerSecond  g == t % TicksPerSecond
<1>1. /\ a \in Nat /\ f \in 0 .. TicksPerSecond - 1 /\ s = TicksPerSecond * a + f
      /\ b \in Nat /\ g \in 0 .. TicksPerSecond - 1 /\ t = TicksPerSecond * b + g
      /\ TicksPerSecond \in Nat
  BY InstantParts, TicksAssumption
<1>2. a < b => s < t
  BY <1>1, EarlierSecond
<1>3. b < a => t < s
  BY <1>1, EarlierSecond
<1>4. a = b => (s <= t <=> f <= g)
  <2>1. TicksPerSecond * a \in Nat
    BY <1>1
  <2> QED BY <1>1, <2>1
<1>5. SortsUpTo(Iso(s), Iso(t)) <=> a < b \/ (a = b /\ f <= g)
  <2>1. /\ Iso(s).second = a /\ Iso(s).fraction = f
        /\ Iso(s).mark = (IF f = 0 THEN "+" ELSE ".")
        /\ Iso(t).second = b /\ Iso(t).fraction = g
        /\ Iso(t).mark = (IF g = 0 THEN "+" ELSE ".")
    BY DEF Iso
  <2>2. CodePoint["+"] = 43 /\ CodePoint["."] = 46
    BY DEF CodePoint
  <2> HIDE DEF a, b, f, g
  <2>3. f \in Nat /\ g \in Nat /\ a \in Nat /\ b \in Nat
    BY <1>1
  <2> QED BY <2>1, <2>2, <2>3 DEF SortsUpTo
<1> HIDE DEF a, b, f, g
<1> QED BY <1>1, <1>2, <1>3, <1>4, <1>5
=============================================================================
