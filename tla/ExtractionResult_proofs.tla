----------------------- MODULE ExtractionResult_proofs ---------------------
(***************************************************************************)
(* What the conversions of a result preserve, for every result and for     *)
(* every limit of floats, decimals and bytes.                              *)
(***************************************************************************)
EXTENDS ExtractionResult, FiniteSetTheorems, WellFoundedInduction, TLAPS

\* Reading a stored number gives its value back: ToDecimal and FromDecimal
\* change the form alone.
LEMMA ValueIsKept ==
    ASSUME NEW n \in Numbers
    PROVE  /\ FromDecimal(ToDecimal(n)) \in Numbers
           /\ FromDecimal(ToDecimal(n)).digits = n.digits
           /\ FromDecimal(ToDecimal(n)).exp = n.exp
BY DEF Numbers, Forms, ToDecimal, FromDecimal

\* An integer and a fraction are read in the very form they were written in.
LEMMA FormIsKept ==
    ASSUME NEW n \in Numbers, n.form = "int" \/ n.exp < 0
    PROVE  FromDecimal(ToDecimal(n)) = n
<1>1. n = [form |-> n.form, digits |-> n.digits, exp |-> n.exp] /\ n.exp \in Int
  BY ExtractionAssumption DEF Numbers
<1>2. n.form = IF n.exp >= 0 THEN "int" ELSE "float"
  BY <1>1 DEF Numbers, Forms
<1> QED
  BY <1>1, <1>2 DEF ToDecimal, FromDecimal

\* No number is longer when it is read than when it was accepted, but for the
\* floats with an exponent that are integers.
LEMMA OnlyWidenedNumbersGrow ==
    ASSUME NEW n \in Numbers, ~Widened(n)
    PROVE  Width(FromDecimal(ToDecimal(n))) <= Width(n)
<1>1. CASE n.form = "int" \/ n.exp < 0
  <2>1. Width(n) \in Int
    BY ExtractionAssumption DEF Numbers, Forms, Width, Magnitude
  <2>2. FromDecimal(ToDecimal(n)) = n
    BY <1>1, FormIsKept
  <2> QED
    BY <2>1, <2>2
<1>2. CASE n.form = "float" /\ n.exp >= 0
  <2>1. /\ n.digits \in Nat /\ n.digits >= 1 /\ n.exp \in Int
        /\ Positional \in Nat /\ Leading \in Nat
    BY ExtractionAssumption DEF Numbers
  <2>2. Magnitude(n) \in 1..Positional /\ Magnitude(n) \in -Leading..Positional
    BY <1>2, <2>1 DEF Widened, Magnitude
  <2>3. Width(n) = Magnitude(n) + 2
    BY <1>2, <2>1, <2>2 DEF Width
  <2>4. Width(FromDecimal(ToDecimal(n))) = Magnitude(n)
    BY <1>2, <2>1 DEF Width, FromDecimal, ToDecimal, Magnitude
  <2> QED
    BY <2>2, <2>3, <2>4
<1> QED
  BY <1>1, <1>2 DEF Numbers, Forms, Widened

\* An item is of its type, and so is what is read of it.
LEMMA ItemTypes ==
    /\ \A r \in Payloads : ToItem(r) \in Items
    /\ \A i \in Items : FromItem(i) \in Payloads
<1>1. ASSUME NEW r \in Payloads
      PROVE  ToItem(r) \in Items
  <2>1. ASSUME NEW f \in Field
        PROVE  ToDecimal(r.numbers[f]) \in Decimals
    BY DEF Payloads, Numbers, Decimals, ToDecimal
  <2> QED
    BY <2>1 DEF Payloads, Items, ToItem
<1>2. ASSUME NEW i \in Items
      PROVE  FromItem(i) \in Payloads
  <2>1. ASSUME NEW f \in Field
        PROVE  FromDecimal(i.numbers[f]) \in Numbers
    <3>1. i.numbers[f] \in Decimals
      BY DEF Items
    <3> QED
      BY <3>1 DEF Decimals, Numbers, Forms, FromDecimal
  <2> QED
    BY <2>1 DEF Payloads, Items, FromItem
<1> QED
  BY <1>1, <1>2

\* The inductive invariant is the conjunction of the three.
IndInv == ResultTypeOK /\ ResultInv /\ AnswersDecide

\* What a call that fails makes of the job: no error is an invalid response.
LEMMA ErrorsDoNotFail ==
    ASSUME NEW error \in Errors
    PROVE  StatusAfter(Category(error)) \in {"PROCESSING", "PENDING_UPLOAD"}
BY DEF StatusAfter, Category

LEMMA InitInv == Init => IndInv
BY ExtractionAssumption DEF Init, IndInv, ResultTypeOK, ResultInv, AnswersDecide

LEMMA StepInv == IndInv /\ [Next]_vars => IndInv'
<1> SUFFICES ASSUME IndInv, [Next]_vars
             PROVE  IndInv'
  OBVIOUS
<1> USE ExtractionAssumption
<1>1. CASE Claim
  BY <1>1 DEF IndInv, ResultTypeOK, ResultInv, AnswersDecide, Claim
<1>2. ASSUME NEW error \in Errors, ProviderFails(error)
      PROVE  IndInv'
  <2>1. answer' \in Answers /\ answer' \in [error : Errors]
    BY <1>2 DEF ProviderFails, Answers
  <2>2. status' \in {"PROCESSING", "PENDING_UPLOAD"}
    BY <1>2, ErrorsDoNotFail DEF ProviderFails
  <2> QED
    BY <1>2, <2>1, <2>2 DEF IndInv, ResultTypeOK, ResultInv, AnswersDecide, ProviderFails
<1>3. ASSUME NEW response \in Responses, ResponseIsNoObject(response)
      PROVE  IndInv'
  <2>1. status' = "FAILED" /\ answer' \in Responses /\ answer' \in Answers /\ ~IsObject(answer')
    BY <1>3 DEF ResponseIsNoObject, StatusAfter, Answers
  <2> QED
    BY <1>3, <2>1 DEF IndInv, ResultTypeOK, ResultInv, AnswersDecide, ResponseIsNoObject
<1>4. ASSUME NEW payload \in Payloads, ParseExtractionResult(payload)
      PROVE  IndInv'
  <2>1. PICK response \in Responses : IsObject(response) /\ answer' = response
    BY <1>4 DEF ParseExtractionResult
  <2>2. answer' \in Responses /\ answer' \in Answers /\ HasText(answer')
    BY <2>1 DEF Answers, IsObject
  <2> QED
    BY <1>4, <2>2 DEF IndInv, ResultTypeOK, ResultInv, AnswersDecide, ParseExtractionResult, StatusAfter
<1>5. CASE CompleteJob
  <2>1. extracted \in Payloads /\ ToItem(extracted) \in Items /\ item' = ToItem(extracted)
    BY <1>5, ItemTypes DEF IndInv, ResultTypeOK, ResultInv, AnswersDecide, CompleteJob
  <2>2. shown' = NoResult /\ item' # NoResult
    BY <1>5, <2>1 DEF IndInv, ResultTypeOK, ResultInv, AnswersDecide, CompleteJob
  <2>3. answer' \in Responses /\ answer' \in Answers /\ HasText(answer') /\ status' = "SUCCEEDED"
    BY <1>5 DEF IndInv, ResultInv, CompleteJob, IsObject, Answers
  <2> QED
    BY <1>5, <2>1, <2>2, <2>3 DEF IndInv, ResultTypeOK, ResultInv, AnswersDecide, CompleteJob
<1>6. CASE CompleteFails
  BY <1>6 DEF IndInv, ResultTypeOK, ResultInv, AnswersDecide, CompleteFails
<1>7. CASE Abandon
  BY <1>7 DEF IndInv, ResultTypeOK, ResultInv, AnswersDecide, Abandon
<1>8. CASE GiveUp
  BY <1>8 DEF IndInv, ResultTypeOK, ResultInv, AnswersDecide, GiveUp
<1>9. CASE GetJob
  <2>1. shown' \in Payloads \union {NoResult, Invalid}
    BY <1>9, ItemTypes DEF IndInv, ResultTypeOK, GetJob, ParseProcessingResult
  <2>2. shown' # NoResult => item # NoResult
    BY <1>9 DEF GetJob, ParseProcessingResult
  <2> QED
    BY <1>9, <2>1, <2>2 DEF IndInv, ResultTypeOK, ResultInv, AnswersDecide, GetJob
<1>10. CASE UNCHANGED vars
  BY <1>10 DEF IndInv, ResultTypeOK, ResultInv, AnswersDecide, vars
<1> QED
  BY <1>1, <1>2, <1>3, <1>4, <1>5, <1>6, <1>7, <1>8, <1>9, <1>10 DEF Next

\* Type correctness, for any numbers of a response and any limits.
THEOREM ResultTypeCorrect == Spec => []ResultTypeOK
<1>1. IndInv => ResultTypeOK
  BY DEF IndInv
<1> QED
  BY InitInv, StepInv, <1>1, PTL DEF Spec

\* A job succeeds with the result that was accepted and stored, and fails only
\* for a response that was refused (complete_job and fail_job of the workflow).
THEOREM ResultInvariance == Spec => []ResultInv
<1>1. IndInv => ResultInv
  BY DEF IndInv
<1> QED
  BY InitInv, StepInv, <1>1, PTL DEF Spec

\* An error of the call never fails a job, whatever its code, and a response
\* is never asked for again (the workflow's handlers of AIProviderError).
THEOREM AnswersDecideJobs == Spec => []AnswersDecide
<1>1. IndInv => AnswersDecide
  BY DEF IndInv
<1> QED
  BY InitInv, StepInv, <1>1, PTL DEF Spec

\* The conversions to decimals and back keep every value, and what is shown
\* is within the size limit (_to_dynamodb_value, _from_dynamodb_value).
THEOREM ShownValuesAreExtracted == Spec => []ShownIsExtracted
<1>1. IndInv => ShownIsExtracted
  <2> SUFFICES ASSUME IndInv, shown \notin {NoResult, Invalid}
               PROVE  /\ status = "SUCCEEDED" /\ shown.rest = extracted.rest
                      /\ \A f \in Field :
                           /\ shown.numbers[f].digits = extracted.numbers[f].digits
                           /\ shown.numbers[f].exp = extracted.numbers[f].exp
                      /\ Size(shown) <= MaxBytes
    BY DEF ShownIsExtracted
  <2>1. /\ item # NoResult /\ item = ToItem(extracted) /\ status = "SUCCEEDED"
        /\ extracted \in Payloads /\ shown = ParseProcessingResult(item)
    BY DEF IndInv, ResultInv, ResultTypeOK
  <2>2. shown = FromItem(item) /\ Accepts(FromItem(item))
    BY <2>1 DEF ParseProcessingResult
  <2>3. Size(shown) <= MaxBytes
    BY <2>2 DEF Accepts
  <2>4. shown.rest = extracted.rest
    BY <2>1, <2>2 DEF FromItem, ToItem
  <2>5. ASSUME NEW f \in Field
        PROVE  /\ shown.numbers[f].digits = extracted.numbers[f].digits
               /\ shown.numbers[f].exp = extracted.numbers[f].exp
    <3>1. extracted.numbers[f] \in Numbers
      BY <2>1 DEF Payloads
    <3>2. shown.numbers[f] = FromDecimal(ToDecimal(extracted.numbers[f]))
      BY <2>1, <2>2 DEF FromItem, ToItem
    <3> QED
      BY <3>1, <3>2, ValueIsKept
  <2> QED
    BY <2>1, <2>3, <2>4, <2>5
<1> QED
  BY InitInv, StepInv, <1>1, PTL DEF Spec

\* A stored result whose numbers are integers, or fractions, as written.
StoredPlain ==
    item # NoResult /\ \A f \in Field :
        extracted.numbers[f].form = "int" \/ extracted.numbers[f].exp < 0

\* A stored result without integral floats is read back as it was accepted,
\* hence never refused (_parse_processing_result).
THEOREM PlainResultsAreReadable ==
    Spec => [](StoredPlain => ParseProcessingResult(item) = extracted)
<1>1. IndInv => (StoredPlain => ParseProcessingResult(item) = extracted)
  <2> SUFFICES ASSUME IndInv, StoredPlain
               PROVE  ParseProcessingResult(item) = extracted
    OBVIOUS
  <2>1. extracted \in Payloads /\ Accepts(extracted) /\ item = ToItem(extracted)
    BY DEF IndInv, ResultInv, ResultTypeOK, StoredPlain
  <2>2. ASSUME NEW f \in Field
        PROVE  FromDecimal(ToDecimal(extracted.numbers[f])) = extracted.numbers[f]
    BY <2>1, FormIsKept DEF StoredPlain, Payloads
  <2>3. /\ extracted = [numbers |-> extracted.numbers, rest |-> extracted.rest,
                        ordered |-> extracted.ordered]
        /\ extracted.ordered = TRUE
        /\ extracted.numbers = [f \in Field |-> extracted.numbers[f]]
    BY <2>1 DEF Payloads, Accepts
  <2>4. FromItem(item).numbers = extracted.numbers
    BY <2>1, <2>2, <2>3 DEF FromItem, ToItem
  <2>5. FromItem(item) = extracted
    BY <2>1, <2>3, <2>4 DEF FromItem, ToItem
  <2> QED
    BY <2>1, <2>5 DEF ParseProcessingResult, StoredPlain
<1> QED
  BY InitInv, StepInv, <1>1, PTL DEF Spec

---------------------------------------------------------------------------
(* Sums over the fields of a result.  The induction rules of the library    *)
(* quantify over predicates, which the provers cannot instantiate; that     *)
(* the strict subsets of a finite set are well-founded they can use.        *)

\* Induction without an induction rule: a set of counterexamples among the
\* subsets of a finite set has a smallest one.
LEMMA Smallest ==
    ASSUME NEW S, IsFiniteSet(S), NEW T \in SUBSET SUBSET S, T # {}
    PROVE  \E U \in T : \A V \in T : ~(V \subseteq U /\ V # U)
<1>1. T \subseteq FiniteSubsetsOf(S)
  BY FS_FiniteSubsetsOfFinite
<1>2. \E U \in T : \A V \in T : <<V, U>> \notin StrictSubsetOrdering(S)
  BY <1>1, FS_StrictSubsetOrderingWellFounded, WFMin
<1> QED
  BY <1>2 DEF StrictSubsetOrdering

\* The numbers up to k, as a case of it.
LEMMA Least ==
    ASSUME NEW k \in Nat, NEW N \in SUBSET (0..k), N # {}
    PROVE  \E n \in N : \A m \in N : n <= m
<1> DEFINE S == 1..k
           T == {1..n : n \in N}
<1>1. T \in SUBSET SUBSET S /\ T # {}
  <2>1. \A n \in N : 1..n \subseteq S
    OBVIOUS
  <2> QED
    BY <2>1
<1>2. IsFiniteSet(S)
  BY FS_Interval
<1> HIDE DEF S, T
<1>3. PICK U \in T : \A V \in T : ~(V \subseteq U /\ V # U)
  BY <1>1, <1>2, Smallest
<1>4. PICK n \in N : U = 1..n
  BY DEF T
<1>5. ASSUME NEW m \in N, ~(n <= m)
      PROVE  FALSE
  <2>1. 1..m \in T /\ 1..m \subseteq U
    BY <1>4, <1>5 DEF T
  <2>2. n \in U /\ n \notin 1..m
    BY <1>4, <1>5
  <2> QED
    BY <1>3, <2>1, <2>2
<1> QED
  BY <1>5

Pick(s) == CHOOSE x \in s : TRUE

\* g sums up f over the members of D, in the order of the choices.
IsFold(f, D, g) ==
    g = [s \in D |-> IF s = {} THEN 0 ELSE f[Pick(s)] + g[s \ {Pick(s)}]]

Fold(f) == CHOOSE g : IsFold(f, SUBSET DOMAIN f, g)

\* The definition of FoldFunction, expanded.
LEMMA FoldFunctionIsFold ==
    ASSUME NEW f
    PROVE  FoldFunction(+, 0, f) = Fold(f)[DOMAIN f]
BY DEF FoldFunction, FoldFunctionOnSet, MapThenFoldSet, Fold, IsFold, Pick

\* The recursion has a solution on a finite set.
LEMMA FoldExists ==
    ASSUME NEW S, IsFiniteSet(S), NEW f
    PROVE  \E g : IsFold(f, SUBSET S, g)
<1> DEFINE D(n) == {s \in SUBSET S : Cardinality(s) <= n}
           k == Cardinality(S)
           N == {n \in 0..k : ~ \E g : IsFold(f, D(n), g)}
<1>0. /\ k \in Nat
      /\ \A s \in SUBSET S : IsFiniteSet(s) /\ Cardinality(s) \in Nat /\ Cardinality(s) <= k
  BY FS_CardinalityType, FS_Subset
<1>1. ASSUME N # {}
      PROVE  FALSE
  <2>1. PICK n \in N : \A m \in N : n <= m
    BY <1>0, <1>1, Least
  <2>2. PICK g : n > 0 => IsFold(f, D(n - 1), g)
    <3>1. n \in 0..k /\ (n > 0 => n - 1 \in 0..k)
      BY <1>0
    <3>2. ~(n <= n - 1)
      BY <3>1, <1>0
    <3>3. n > 0 => n - 1 \notin N
      BY <2>1, <3>2
    <3> QED
      BY <3>1, <3>3
  <2> DEFINE h == [s \in D(n) |-> IF s = {} THEN 0 ELSE f[Pick(s)] + g[s \ {Pick(s)}]]
  <2>3. ASSUME NEW s \in D(n), s # {}
        PROVE  h[s \ {Pick(s)}] = g[s \ {Pick(s)}]
    <3> DEFINE t == s \ {Pick(s)}
    <3>1. Pick(s) \in s
      BY <2>3 DEF Pick
    <3>2. IsFiniteSet(s) /\ Cardinality(s) \in Nat /\ Cardinality(s) <= n /\ n \in Nat
      BY <1>0, <2>1
    <3>3. Cardinality(t) = Cardinality(s) - 1 /\ Cardinality(t) \in Nat
      BY <3>1, <3>2, <1>0, FS_RemoveElement
    <3>4. n > 0 /\ t \in D(n - 1) /\ t \in D(n)
      BY <3>2, <3>3
    <3>5. g[t] = IF t = {} THEN 0 ELSE f[Pick(t)] + g[t \ {Pick(t)}]
      BY <2>2, <3>4 DEF IsFold
    <3> QED
      BY <3>4, <3>5
  <2>4. IsFold(f, D(n), h)
    BY <2>3 DEF IsFold
  <2> QED
    BY <2>1, <2>4
<1>2. D(k) = SUBSET S
  BY <1>0
<1> QED
  BY <1>0, <1>1, <1>2

\* Hence the fold satisfies it.
LEMMA FoldEquation ==
    ASSUME NEW f, IsFiniteSet(DOMAIN f), NEW s \in SUBSET DOMAIN f
    PROVE  Fold(f)[s] = IF s = {} THEN 0 ELSE f[Pick(s)] + Fold(f)[s \ {Pick(s)}]
<1>1. IsFold(f, SUBSET DOMAIN f, Fold(f))
  BY FoldExists DEF Fold
<1> QED
  BY <1>1 DEF IsFold

\* A sum of terms that are no larger is no larger.
LEMMA FoldGrows ==
    ASSUME NEW S, IsFiniteSet(S), NEW f \in [S -> Int], NEW g \in [S -> Int],
           \A x \in S : f[x] <= g[x]
    PROVE  /\ FoldFunction(+, 0, f) \in Int /\ FoldFunction(+, 0, g) \in Int
           /\ FoldFunction(+, 0, f) <= FoldFunction(+, 0, g)
<1> DEFINE Grows(s) == Fold(f)[s] \in Int /\ Fold(g)[s] \in Int /\ Fold(f)[s] <= Fold(g)[s]
           T == {s \in SUBSET S : ~Grows(s)}
<1>0. DOMAIN f = S /\ DOMAIN g = S
  OBVIOUS
<1>1. ASSUME T # {}
      PROVE  FALSE
  <2>0. T \in SUBSET SUBSET S
    OBVIOUS
  <2> HIDE DEF T
  <2>1. PICK s \in T : \A t \in T : ~(t \subseteq s /\ t # s)
    BY <1>1, <2>0, Smallest
  <2> USE DEF T
  <2>2. CASE s = {}
    <3>1. Fold(f)[s] = 0 /\ Fold(g)[s] = 0
      BY <1>0, <2>2, FoldEquation
    <3> QED
      BY <3>1
  <2>3. CASE s # {}
    <3> DEFINE t == s \ {Pick(s)}
    <3>1. Pick(s) \in s /\ Pick(s) \in S
      BY <2>1, <2>3 DEF Pick
    <3>2. Grows(t)
      BY <2>1, <3>1
    <3>3. Fold(f)[s] = f[Pick(s)] + Fold(f)[t] /\ Fold(g)[s] = g[Pick(s)] + Fold(g)[t]
      BY <1>0, <2>3, FoldEquation
    <3>4. f[Pick(s)] \in Int /\ g[Pick(s)] \in Int /\ f[Pick(s)] <= g[Pick(s)]
      BY <3>1
    <3>5. Grows(s)
      BY <3>2, <3>3, <3>4
    <3> QED
      BY <2>1, <3>5
  <2> QED
    BY <2>2, <2>3
<1>2. Grows(S)
  BY <1>1
<1> QED
  BY <1>0, <1>2, FoldFunctionIsFold

\* What is read is no larger than what was accepted, if no number is widened.
LEMMA ReadingDoesNotGrow ==
    ASSUME NEW r \in Payloads, \A f \in Field : ~Widened(r.numbers[f])
    PROVE  /\ Size(FromItem(ToItem(r))) <= Size(r)
           /\ Size(FromItem(ToItem(r))) \in Int /\ Size(r) \in Int
<1> DEFINE back == FromItem(ToItem(r))
           read == [f \in Field |-> Width(back.numbers[f])]
           accepted == [f \in Field |-> Width(r.numbers[f])]
<1>1. ASSUME NEW f \in Field
      PROVE  /\ Width(back.numbers[f]) \in Int /\ Width(r.numbers[f]) \in Int
             /\ Width(back.numbers[f]) <= Width(r.numbers[f])
  <2>1. r.numbers[f] \in Numbers /\ ~Widened(r.numbers[f])
    BY DEF Payloads
  <2>2. back.numbers[f] = FromDecimal(ToDecimal(r.numbers[f]))
    BY DEF FromItem, ToItem
  <2>3. back.numbers[f] \in Numbers
    BY <2>1, <2>2, ValueIsKept
  <2>4. \A n \in Numbers : Width(n) \in Int
    BY ExtractionAssumption DEF Numbers, Forms, Width, Magnitude
  <2> QED
    BY <2>1, <2>2, <2>3, <2>4, OnlyWidenedNumbersGrow
<1>2. /\ FoldFunction(+, 0, read) <= FoldFunction(+, 0, accepted)
      /\ FoldFunction(+, 0, read) \in Int /\ FoldFunction(+, 0, accepted) \in Int
  <2>1. read \in [Field -> Int] /\ accepted \in [Field -> Int]
    BY <1>1
  <2>2. \A f \in Field : read[f] <= accepted[f]
    BY <1>1
  <2> HIDE DEF read, accepted
  <2> QED
    BY <2>1, <2>2, FoldGrows, ExtractionAssumption
<1>3. r.rest \in Nat
  BY ExtractionAssumption DEF Payloads
<1>4. back.rest = r.rest
  BY DEF FromItem, ToItem
<1>5. /\ Size(back) = r.rest + FoldFunction(+, 0, read)
      /\ Size(r) = r.rest + FoldFunction(+, 0, accepted)
  BY <1>4 DEF Size
<1> HIDE DEF read, accepted, back
<1> DEFINE a == FoldFunction(+, 0, read)
           b == FoldFunction(+, 0, accepted)
<1>6. a <= b /\ a \in Int /\ b \in Int /\ Size(back) = r.rest + a /\ Size(r) = r.rest + b
  BY <1>2, <1>5
<1> HIDE DEF a, b
<1>7. Size(back) <= Size(r) /\ Size(back) \in Int /\ Size(r) \in Int
  BY <1>3, <1>6
<1> QED
  BY <1>7 DEF back

\* Validating a stored result again refuses it only for a float that was
\* widened (_parse_processing_result, MAX_SERIALIZED_RESULT_BYTES): the size
\* limit is met by what is read, field by field, if it was met when accepted.
THEOREM OnlyWidenedResultsAreRefused == Spec => []UnreadableOnlyWhenWidened
<1>1. IndInv => UnreadableOnlyWhenWidened
  <2> SUFFICES ASSUME IndInv, shown = Invalid,
                      \A f \in Field : ~Widened(extracted.numbers[f])
               PROVE  FALSE
    BY DEF UnreadableOnlyWhenWidened
  <2>1. /\ item # NoResult /\ item = ToItem(extracted) /\ Accepts(extracted)
        /\ extracted \in Payloads /\ ParseProcessingResult(item) = Invalid
    BY ExtractionAssumption DEF IndInv, ResultInv, ResultTypeOK
  <2> DEFINE back == FromItem(item)
  <2>2. back \in Payloads /\ back # Invalid
    BY <2>1, ItemTypes, ExtractionAssumption
  <2>3. ~Accepts(back)
    BY <2>1, <2>2 DEF ParseProcessingResult
  <2>4. back.ordered
    BY DEF FromItem
  <2>5. Size(back) <= MaxBytes
    <3>1. Size(extracted) <= MaxBytes
      BY <2>1 DEF Accepts
    <3>2. Size(back) \in Int /\ MaxBytes \in Int
      BY <2>1, ReadingDoesNotGrow, ExtractionAssumption
    <3> QED
      BY <2>1, <3>1, <3>2, ReadingDoesNotGrow
  <2>6. ASSUME NEW f \in Field
        PROVE  IsFinite(back.numbers[f])
    <3>1. extracted.numbers[f] \in Numbers /\ IsFinite(extracted.numbers[f])
      BY <2>1 DEF Payloads, Accepts
    <3>2. back.numbers[f] = FromDecimal(ToDecimal(extracted.numbers[f]))
      BY <2>1 DEF FromItem, ToItem
    <3> QED
      BY <3>1, <3>2 DEF IsFinite, FromDecimal, ToDecimal, Magnitude, Numbers, Forms
  <2> QED
    BY <2>3, <2>4, <2>5, <2>6 DEF Accepts
<1> QED
  BY InitInv, StepInv, <1>1, PTL DEF Spec
============================================================================
