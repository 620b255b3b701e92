-------------------------- MODULE ExtractionResult -------------------------
(***************************************************************************)
(* A result on its way from the provider's JSON to the item of DynamoDB    *)
(* and back to a reader of the job.                                        *)
(*                                                                         *)
(* A result is bounded when the provider's response is parsed and again    *)
(* whenever the item is read; in between its numbers become decimals, and  *)
(* come back as integers or floats by their value.  What a number counts   *)
(* for in each check depends on how it is written, so a number is its form *)
(* and its place: digits significant digits, the last one at 10^exp.  All  *)
(* else of a result is its size, and whether its keys, strings, types and  *)
(* depth are in order: neither changes on the way.                         *)
(*                                                                         *)
(* An attempt ends as the provider's answer says, which ProviderAnswers    *)
(* classifies.  One attempt works at a time; that others cannot interfere  *)
(* with its writes is the subject of DocumentProcessing.                   *)
(***************************************************************************)
EXTENDS Integers, FiniteSets, Functions, ProviderAnswers

CONSTANTS
    Field,          \* where key_fields holds a number
    Rests,          \* the sizes of the rest of a result
    NoResult,       \* None
    Invalid,        \* what a reader gets when the item is refused
    Positional,     \* largest magnitude of a float written without exponent (16)
    Leading,        \* most zeros after the point of such a float (4)
    Mark,           \* the characters of an exponent and its point
    Precision,      \* digits of a DynamoDB number (38)
    MaxMagnitude,   \* largest and, negated, smallest magnitude of such a number
    MinMagnitude,   \*     (126 and 129)
    FloatMax,       \* largest magnitude of a finite float (309)
    MaxBytes,       \* MAX_SERIALIZED_RESULT_BYTES (32 KiB)
    MaxDigits, MaxExp,      \* bounds of the numbers a response has
    MaxClaims               \* bound of the claims

VARIABLES
    status,     \* the item's status
    item,       \* the item's processing_result
    claims,     \* its attempts
    phase,      \* what the attempt does
    answer,     \* how the call of the last attempt ended
    extracted,  \* the payload of that answer, accepted or not
    shown       \* the processing_result of the last read

vars == <<status, item, claims, phase, answer, extracted, shown>>

Forms == {"int", "float"}

Numbers == {n \in [form : Forms, digits : 1..MaxDigits, exp : -MaxExp..MaxExp] :
                n.form = "int" => n.exp >= 0}

\* ordered: whether keys, strings, types, entries and depth are as required.
Payloads == [numbers : [Field -> Numbers], rest : Rests, ordered : BOOLEAN]

Decimals == [digits : 1..MaxDigits, exp : -MaxExp..MaxExp]

Items == [numbers : [Field -> Decimals], rest : Rests]

\* An error, or a response.
Answers == [error : Errors] \union Responses

ASSUME ExtractionAssumption ==
    /\ IsFiniteSet(Field)
    /\ Rests \subseteq Nat
    /\ {Positional, Leading, Mark, Precision, MaxMagnitude, MinMagnitude, FloatMax,
        MaxBytes, MaxDigits, MaxExp, MaxClaims} \subseteq Nat
    /\ NoResult # Invalid
    /\ NoResult \notin Payloads /\ Invalid \notin Payloads /\ NoResult \notin Items
    /\ NoResult \notin Answers

---------------------------------------------------------------------------
(* Numbers *)

\* The digits before the point; none or less for a fraction.
Magnitude(n) == n.digits + n.exp

\* json.loads makes an infinity of a float literal that is too large.
IsFinite(n) == n.form = "int" \/ Magnitude(n) <= FloatMax

\* The characters model_dump_json writes for a number.
Width(n) ==
    IF n.form = "int" THEN Magnitude(n)
    ELSE IF Magnitude(n) \notin -Leading..Positional THEN n.digits + Mark
    ELSE IF Magnitude(n) <= 0 THEN n.digits + 2 - Magnitude(n)
    ELSE IF n.exp < 0 THEN n.digits + 1
    ELSE Magnitude(n) + 2

\* What boto3 and DynamoDB take: an integer counts with its trailing zeros.
IsStorable(n) ==
    /\ (IF n.form = "int" THEN Magnitude(n) ELSE n.digits) <= Precision
    /\ Magnitude(n) \in -MinMagnitude..MaxMagnitude

\* Mutant: what is written loses a digit.
ToDecimalRounded(n) == [digits |-> 1, exp |-> n.exp]

\* _to_dynamodb_value: DynamoDB keeps the value, and not the form.
ToDecimal(n) == [digits |-> n.digits, exp |-> n.exp]

\* Mutant: every number comes back as a float.
FromDecimalAsFloat(d) == [form |-> "float", digits |-> d.digits, exp |-> d.exp]

\* _from_dynamodb_value
FromDecimal(d) ==
    [form |-> IF d.exp >= 0 THEN "int" ELSE "float", digits |-> d.digits, exp |-> d.exp]

---------------------------------------------------------------------------
(* Results *)

Size(r) == r.rest + FoldFunction(+, 0, [f \in Field |-> Width(r.numbers[f])])

\* AIExtractionResult.model_validate
Accepts(r) ==
    /\ r.ordered
    /\ \A f \in Field : IsFinite(r.numbers[f])
    /\ Size(r) <= MaxBytes

ToItem(r) == [numbers |-> [f \in Field |-> ToDecimal(r.numbers[f])], rest |-> r.rest]

FromItem(i) == [numbers |-> [f \in Field |-> FromDecimal(i.numbers[f])],
                rest |-> i.rest, ordered |-> TRUE]

\* _parse_processing_result: what is read is validated again.
ParseProcessingResult(i) ==
    IF i = NoResult THEN NoResult
    ELSE IF Accepts(FromItem(i)) THEN FromItem(i) ELSE Invalid

---------------------------------------------------------------------------
(* The attempt *)

Init ==
    /\ status = "PENDING_UPLOAD" /\ claims = 0 /\ phase = "idle"
    /\ item = NoResult /\ answer = NoResult /\ extracted = NoResult /\ shown = NoResult

\* start_processing, with the lease of an earlier claim expired.
Claim ==
    /\ phase = "idle" /\ claims < MaxClaims
    /\ status \in {"PENDING_UPLOAD", "PROCESSING"}
    /\ status' = "PROCESSING" /\ claims' = claims + 1 /\ phase' = "extract"
    /\ answer' = NoResult /\ extracted' = NoResult
    /\ UNCHANGED <<item, shown>>

\* The call ends in an error.
ProviderFails(error) ==
    /\ phase = "extract"
    /\ answer' = [error |-> error]
    /\ status' = StatusAfter(Category(error)) /\ phase' = "idle"
    /\ UNCHANGED <<item, claims, extracted, shown>>

\* The response is refused before its object is validated.
ResponseIsNoObject(response) ==
    /\ phase = "extract" /\ ~IsObject(response)
    /\ answer' = response
    /\ status' = StatusAfter("invalid_response") /\ phase' = "idle"
    /\ UNCHANGED <<item, claims, extracted, shown>>

\* The response is an object, and validated.
ParseExtractionResult(payload) ==
    /\ phase = "extract"
    /\ \E response \in Responses : IsObject(response) /\ answer' = response
    /\ extracted' = payload
    /\ IF Accepts(payload)
       THEN phase' = "complete" /\ UNCHANGED status
       ELSE phase' = "idle" /\ status' = StatusAfter("invalid_response")
    /\ UNCHANGED <<item, claims, shown>>

\* complete_job puts the result.
CompleteJob ==
    /\ phase = "complete"
    /\ \A f \in Field : IsStorable(extracted.numbers[f])
    /\ status' = "SUCCEEDED" /\ item' = ToItem(extracted) /\ phase' = "idle"
    /\ UNCHANGED <<claims, answer, extracted, shown>>

\* boto3 or DynamoDB refuses a number; the error passes, and so the claim stays.
CompleteFails ==
    /\ phase = "complete"
    /\ \E f \in Field : ~IsStorable(extracted.numbers[f])
    /\ phase' = "idle"
    /\ UNCHANGED <<status, item, claims, answer, extracted, shown>>

\* The invocation ends early: an unexpected exception (a RecursionError of
\* json.loads among them), a failed put, a crash.
Abandon ==
    /\ phase # "idle" /\ phase' = "idle"
    /\ UNCHANGED <<status, item, claims, answer, extracted, shown>>

\* mark_dead, when the messages of the job are exhausted.
GiveUp ==
    /\ phase = "idle" /\ claims > 0
    /\ status \in {"PENDING_UPLOAD", "PROCESSING"}
    /\ status' = "DEAD"
    /\ UNCHANGED <<item, claims, phase, answer, extracted, shown>>

GetJob ==
    /\ shown' = ParseProcessingResult(item)
    /\ UNCHANGED <<status, item, claims, phase, answer, extracted>>

Next ==
    \/ Claim
    \/ \E error \in Errors : ProviderFails(error)
    \/ \E response \in Responses : ResponseIsNoObject(response)
    \/ \E payload \in Payloads : ParseExtractionResult(payload)
    \/ CompleteJob \/ CompleteFails \/ Abandon \/ GiveUp \/ GetJob

Spec == Init /\ [][Next]_vars

---------------------------------------------------------------------------
(* Properties *)

\* The types of the variables.
ResultTypeOK ==
    /\ status \in {"PENDING_UPLOAD", "PROCESSING", "SUCCEEDED", "FAILED", "DEAD"}
    /\ item \in Items \union {NoResult}
    /\ claims \in 0..MaxClaims
    /\ phase \in {"idle", "extract", "complete"}
    /\ answer \in Answers \union {NoResult}
    /\ extracted \in Payloads \union {NoResult}
    /\ shown \in Payloads \union {NoResult, Invalid}

\* A result is stored with the success of the job and is the one the provider
\* returned; a job fails only for a response that was refused, never for a
\* result that could not be stored; what was read is what is stored.
ResultInv ==
    /\ item # NoResult <=> status = "SUCCEEDED"
    /\ item # NoResult =>
        /\ extracted # NoResult /\ Accepts(extracted)
        /\ \A f \in Field : IsStorable(extracted.numbers[f])
        /\ item = ToItem(extracted)
    /\ phase # "idle" => status = "PROCESSING"
    /\ phase = "extract" => answer = NoResult /\ extracted = NoResult
    /\ phase = "complete" =>
        /\ answer \in Responses /\ IsObject(answer)
        /\ extracted # NoResult /\ Accepts(extracted)
    /\ status = "FAILED" => extracted = NoResult \/ ~Accepts(extracted)
    /\ shown # NoResult => item # NoResult /\ shown = ParseProcessingResult(item)

\* The answer of the last attempt decides the job.  Only a refused response of
\* the model fails it: no error of the call, whatever its code, does, credentials
\* and a misconfigured model included.  Only an error has it tried again at once:
\* a response is not asked for twice.  And only a complete one is stored.
AnswersDecide ==
    /\ status = "FAILED" =>
         /\ answer \in Responses
         /\ ~IsObject(answer) \/ (extracted # NoResult /\ ~Accepts(extracted))
    /\ status = "PENDING_UPLOAD" /\ claims > 0 => answer \in [error : Errors]
    /\ status = "SUCCEEDED" => answer \in Responses /\ HasText(answer)

\* What a reader is shown is a success, has the value of every number that the
\* provider returned, and is within the size limit in the form it is shown in:
\* the conversions to decimals and back lose nothing.
ShownIsExtracted ==
    shown \notin {NoResult, Invalid} =>
        /\ status = "SUCCEEDED" /\ shown.rest = extracted.rest
        /\ \A f \in Field :
             /\ shown.numbers[f].digits = extracted.numbers[f].digits
             /\ shown.numbers[f].exp = extracted.numbers[f].exp
        /\ Size(shown) <= MaxBytes

\* A number that comes back as an integer although it was written with an
\* exponent: the one form in which a result may grow.
Widened(n) == n.form = "float" /\ n.exp >= 0 /\ Magnitude(n) > Positional

\* Validating a stored result again refuses it only if some float was widened:
\* no other result that was accepted is lost to its readers.
UnreadableOnlyWhenWidened ==
    shown = Invalid => \E f \in Field : Widened(extracted.numbers[f])

\* docs/architecture/data-model.md:179: the conversion of numbers "is
\* appropriate for the current AI output contract": what was accepted and
\* stored can be read.
StoredResultIsReadable ==
    item # NoResult => ParseProcessingResult(item) # Invalid
============================================================================
