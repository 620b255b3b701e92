--------------------------- MODULE ProviderAnswers --------------------------
(***************************************************************************)
(* How a call of the Bedrock provider ends, and what the provider and the  *)
(* workflow make of it: an error of boto3 or of the service is put into a  *)
(* category, a response must be one completed text of the assistant that   *)
(* is a JSON object.  The workflow tells an invalid response, which fails  *)
(* the job, from the other categories, which release it.                   *)
(***************************************************************************)
EXTENDS Naturals, Sequences

---------------------------------------------------------------------------
(* Errors *)

\* The exceptions of boto3 that are told apart; what is none of them, nor a
\* ClientError, is no BotoCoreError.
TimeoutExceptions == {"ConnectTimeoutError", "ReadTimeoutError"}

ConfigurationExceptions ==
    {"NoCredentialsError", "PartialCredentialsError", "CredentialRetrievalError",
     "ParamValidationError"}

UnavailableExceptions ==
    {"EndpointConnectionError", "ConnectionClosedError", "BotoCoreError"}

\* The codes of a ClientError; "" stands for all others, or none.
TimeoutCodes == {"ModelTimeoutException", "RequestTimeout", "RequestTimeoutException"}

ThrottlingCodes ==
    {"ServiceQuotaExceededException", "ThrottlingException", "TooManyRequestsException"}

UnavailableCodes ==
    {"InternalServerException", "ModelErrorException", "ModelNotReadyException",
     "ServiceUnavailableException", ""}

ConfigurationCodes ==
    {"AccessDeniedException", "ExpiredTokenException", "InvalidSignatureException",
     "ResourceNotFoundException", "UnauthorizedException",
     "UnrecognizedClientException", "ValidationException"}

Codes == TimeoutCodes \union ThrottlingCodes \union UnavailableCodes \union ConfigurationCodes

Errors ==
    TimeoutExceptions \union ConfigurationExceptions \union UnavailableExceptions
        \union Codes \union {"Exception"}

\* Mutant: what the service refuses as invalid is taken for the document's fault.
CategoryOfDocument(error) ==
    IF error \in TimeoutExceptions \union TimeoutCodes THEN "timeout"
    ELSE IF error \in ThrottlingCodes THEN "throttled"
    ELSE IF error = "ValidationException" THEN "invalid_response"
    ELSE IF error \in ConfigurationExceptions \union ConfigurationCodes THEN "configuration"
    ELSE IF error \in UnavailableExceptions \union UnavailableCodes THEN "unavailable"
    ELSE "raised"

\* BedrockAIProvider.extract and _normalize_client_error
Category(error) ==
    IF error \in TimeoutExceptions \union TimeoutCodes THEN "timeout"
    ELSE IF error \in ThrottlingCodes THEN "throttled"
    ELSE IF error \in ConfigurationExceptions \union ConfigurationCodes THEN "configuration"
    ELSE IF error \in UnavailableExceptions \union UnavailableCodes THEN "unavailable"
    ELSE "raised"

---------------------------------------------------------------------------
(* Responses *)

\* A field that is missing or of another type is one of the other values.  The
\* text is blank, no JSON, an object with a key twice or a NaN, a JSON value
\* that is no object, or an object.
Responses ==
    [stopReason : {"end_turn", "max_tokens"}, role : {"assistant", "user"},
     content : {<<>>, <<"text">>, <<"other">>, <<"text", "text">>},
     text : {"blank", "malformed", "ambiguous", "scalar", "object"}]

\* _extract_response_text
HasText(response) ==
    /\ response.stopReason = "end_turn"
    /\ response.role = "assistant"
    /\ response.content = <<"text">>
    /\ response.text # "blank"

\* _parse_extraction_result, up to the validation of the object.
IsObject(response) == HasText(response) /\ response.text = "object"

---------------------------------------------------------------------------
(* The workflow *)

\* The status of the job after the call failed: failed, left as it is for an
\* exception that is no AIProviderError, or released.
StatusAfter(category) ==
    IF category = "invalid_response" THEN "FAILED"
    ELSE IF category = "raised" THEN "PROCESSING"
    ELSE "PENDING_UPLOAD"
============================================================================
