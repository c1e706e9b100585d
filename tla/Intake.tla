------------------------------- MODULE Intake -------------------------------
(***************************************************************************)
(* One upload on its way in: the length check (core/uploads.py), who sends *)
(* it and how often, the form read part by part, the serializer            *)
(* (documents/serializers.py), create_document as Ledger models it, and    *)
(* the status of the answer (core/errors.py).  What is admitted is the     *)
(* document from which Extraction starts.                                  *)
(*                                                                         *)
(* A request is what the service can tell of it; sizes are in bytes.       *)
(***************************************************************************)
EXTENDS Extraction

CONSTANTS
  Slack,      \* what a request may have beyond MaxBytes
  FieldLimit, \* DATA_UPLOAD_MAX_MEMORY_SIZE
  Overhead,   \* bytes of a form besides its fields and its file
  FieldSizes  \* bound: sizes the fields may have

ASSUME FormAssumption ==
  Slack \in Nat /\ FieldLimit \in Nat /\ Overhead \in Nat \ {0} /\ FieldSizes \subseteq Nat

VARIABLES
  request,  \* the request
  gate,     \* how far it has come
  unread,   \* the parts of the form not yet read
  buffered, \* bytes of the file taken in, in memory or in a temporary file
  trouble,  \* the service failed: a dependency, its disk, its memory
  reply     \* HTTP status of the answer, 0 before

ivars == <<request, gate, unread, buffered, trouble, reply>>

-----------------------------------------------------------------------------
(* header: Content-Length; sender: with a valid token and within the rates *)
(* or not; form: a form or a JSON object, or a broken one, or another JSON *)
(* value, or of a media type without a parser; size: of the file, 0 also   *)
(* if there is none; name: the kind its extension stands for; parts: up to *)
(* 16 fields and one file, or more; body: "unprocessable" has a lone       *)
(* surrogate or deep nesting in its tags or metadata, "unknown" an unknown *)
(* field, both are legal apart from that; key: Idempotency-Key, or none.   *)
Requests ==
  [header : {"given", "absent", "malformed"}, sender : {"welcome", "unknown", "hasty"},
   form : {"sound", "broken", "value", "foreign"}, size : Sizes, signature : Kinds \cup {"other"},
   name : Kinds \cup {"other"}, fields : FieldSizes, parts : {"few", "many"},
   body : {"legal", "unknown", "illegal", "unprocessable"}, key : {"legal", "illegal"}]

Over == [over |-> TRUE]

Length(r) == r.size + r.fields + Overhead

ITypeOK ==
  /\ TypeOK
  /\ request \in Requests \cup {Over}
  /\ gate \in {"arrived", "checked", "parsing", "answered", "stored"}
  /\ unread \subseteq {"fields", "file"}
  /\ buffered \in Nat
  /\ trouble \in BOOLEAN
  /\ reply \in {0, 201, 400, 401, 409, 413, 415, 429, 500, 503}
  /\ reply = 0 <=> gate \in {"arrived", "checked", "parsing"}

(* Until a document is stored, file stands for no document. *)
IInit ==
  /\ Init
  /\ file = CHOOSE f \in Starts : TRUE
  /\ request \in Requests
  /\ gate = "arrived"
  /\ unread = {"fields", "file"}
  /\ buffered = 0
  /\ trouble = FALSE
  /\ reply = 0

-----------------------------------------------------------------------------
(* The answer. *)

(* What DRF and core/errors.py have a status for. *)
OwnStatus(e) ==
  CASE e \in {"ParseError", "ValidationError"} -> 400
    [] e = "NotAuthenticated"                  -> 401
    [] e = "Conflict"                          -> 409
    [] e = "PayloadTooLarge"                   -> 413
    [] e = "UnsupportedMediaType"              -> 415
    [] e = "Throttled"                         -> 429
    [] e = "ServiceUnavailable"                -> 503
    [] OTHER                                   -> 0

Dependency == {"OperationalError", "InterfaceError", "RedisError"}

Translated(e) ==
  CASE e \in Dependency         -> "ServiceUnavailable"
    [] e = "RequestDataTooBig"  -> "PayloadTooLarge"
    [] OTHER                    -> e

(* Slip: what Django raises is passed on untranslated. *)
StatusOfUntranslated(e) == IF OwnStatus(e) = 0 THEN 500 ELSE OwnStatus(e)

(* Slip: an exception that DRF does not know gets no response. *)
StatusOfKnown(e) == OwnStatus(Translated(e))

(* exception_handler; whatever it does not know is an internal error. *)
StatusOf(e) == IF OwnStatus(Translated(e)) = 0 THEN 500 ELSE OwnStatus(Translated(e))

Answer(status) ==
  /\ reply' = status
  /\ gate' = "answered"
  /\ UNCHANGED <<vars, request, unread, buffered>>

Raise(e) == Answer(StatusOf(e)) /\ UNCHANGED trouble

(* The request fails with e for no reason of its own. *)
Break(e) == Answer(StatusOf(e)) /\ trouble' = TRUE

(* RequestSizeMiddleware.  Without a length nothing of the body is read. *)
CheckLength ==
  /\ gate = "arrived"
  /\ CASE request.header = "malformed" -> Answer(400) /\ UNCHANGED trouble
       [] request.header = "given" /\ Length(request) > MaxBytes + Slack ->
            Answer(413) /\ UNCHANGED trouble
       [] OTHER -> /\ gate' = "checked"
                   /\ unread' = IF request.header = "given" THEN unread ELSE {}
                   /\ UNCHANGED <<vars, request, buffered, trouble, reply>>

-----------------------------------------------------------------------------
(* Before the view: JWTAuthentication and IsAuthenticated, which read the  *)
(* user, then UserRateThrottle and ScopedRateThrottle, which count in      *)
(* Redis.  Nothing of the body is read yet.                                *)

TurnAway ==
  /\ gate = "checked"
  /\ \/ request.sender = "unknown" /\ Raise("NotAuthenticated")
     \/ request.sender = "hasty" /\ Raise("Throttled")

LetIn ==
  /\ gate = "checked" /\ request.sender = "welcome"
  /\ gate' = "parsing"
  /\ UNCHANGED <<vars, request, unread, buffered, trouble, reply>>

(* The database, or Redis, is out of reach: throttling "fails closed". *)
Outage == gate = "checked" /\ \E e \in Dependency : Break(e)

(* The service itself fails: no room for the temporary file, no memory.    *)
Breakdown == gate \in {"checked", "parsing"} /\ Break("Exception")

-----------------------------------------------------------------------------
(* request.data: the form is read, the fields in front of the file or      *)
(* behind it.  No body, no form to read.                                   *)

Whole == gate = "parsing" /\ unread = {"fields", "file"} /\ buffered = 0

WrongType == Whole /\ request.form = "foreign" /\ Raise("UnsupportedMediaType")

(* StrictInputMixin takes the set of what it is given: of a number there   *)
(* is none, that of a string or a list holds unknown fields.               *)
NoObject ==
  /\ Whole /\ request.form = "value"
  /\ \E e \in {"TypeError", "ValidationError"} : Raise(e)

(* No boundary, a part cut short, a wrong header: found anywhere. *)
Malformed ==
  /\ gate = "parsing" /\ unread # {} /\ request.form = "broken"
  /\ Raise("ParseError")

Readable == gate = "parsing" /\ request.form \in {"sound", "broken"}

Accepts(n) == buffered + n <= MaxBytes

(* BoundedUploadHandler is asked before the handlers that keep the file. *)
ReceiveChunk ==
  /\ Readable /\ "file" \in unread /\ buffered < request.size
  /\ \E n \in 1..Chunk :
        /\ n <= request.size - buffered
        /\ IF Accepts(n)
             THEN /\ buffered' = buffered + n
                  /\ UNCHANGED <<vars, request, gate, unread, trouble, reply>>
             ELSE Raise("PayloadTooLarge")

(* A form that is broken, or has too many parts, is never read to its end. *)
Read(part) ==
  /\ (request.parts = "few" /\ request.form = "sound") \/ unread # {part}
  /\ unread' = unread \ {part}
  /\ UNCHANGED <<vars, request, gate, buffered, trouble, reply>>

FileComplete == Readable /\ "file" \in unread /\ buffered = request.size /\ Read("file")

ReadFields ==
  /\ Readable /\ "fields" \in unread
  /\ buffered = 0 \/ "file" \notin unread
  /\ IF request.fields > FieldLimit THEN Raise("RequestDataTooBig") ELSE Read("fields")

(* More fields or files than allowed are a SuspiciousOperation for Django. *)
TooManyParts ==
  /\ Readable /\ unread # {} /\ request.parts = "many"
  /\ Raise("SuspiciousOperation")

-----------------------------------------------------------------------------
(* UploadSerializer, the key, and create_document, as Ledger models it.    *)

Parsed == gate = "parsing" /\ unread = {}

Present == request.header = "given"

(* validate_file: at least one byte, a name and a matching signature.  It  *)
(* counts the bytes twice more, against the limit that was applied         *)
(* already, and what it raises then is not a ValidationError.              *)

(* Slip: an empty file is let in. *)
FileValidEmpty == request.signature # "other" /\ request.name = request.signature

FileValid == buffered > 0 /\ request.signature # "other" /\ request.name = request.signature

(* StrictInputMixin looks at all the fields before any is validated. *)
FieldsKnown == Present => request.body # "unknown"

(* The validation of tags and metadata, or the fingerprint of both,        *)
(* encodes what it was given, and the depth is found by recursion.         *)
Unprocessable ==
  /\ Parsed /\ Present /\ request.body = "unprocessable"
  /\ \E e \in {"UnicodeEncodeError", "RecursionError"} : Raise(e)

Valid ==
  /\ Present /\ FieldsKnown /\ request.body # "illegal" /\ request.key = "legal"
  /\ FileValid /\ buffered <= MaxBytes

Refusal == IF FieldsKnown /\ buffered > MaxBytes THEN "PayloadTooLarge" ELSE "ValidationError"

Reject == Parsed /\ ~Valid /\ Raise(Refusal)

(* Created, or a replay of what was; or a conflict with it; or the first   *)
(* queries fail for want of the database, or anything after the cleanup    *)
(* intent does, which create_document makes a ServiceUnavailable.          *)
Create ==
  /\ Parsed /\ Valid /\ request.body = "legal"
  /\ \/ Answer(201) /\ UNCHANGED trouble
     \/ Raise("Conflict")
     \/ \E e \in {"OperationalError", "InterfaceError", "ServiceUnavailable"} : Break(e)

(* Time passes, and the worker takes the document up. *)
Store ==
  /\ gate = "answered" /\ reply = 201
  /\ file' \in [kind : {request.signature}, stored : Sizes, recorded : {buffered},
                genuine : BOOLEAN, pages : Leaves \cup {1}]
  /\ SoundFile(file')
  /\ gate' = "stored"
  /\ request' = Over /\ buffered' = 0
  /\ UNCHANGED <<pc, written, page, layer, space, joined, total, outcome, unread, trouble, reply>>

Extract == gate = "stored" /\ Next /\ UNCHANGED ivars

INext ==
  \/ CheckLength \/ TurnAway \/ LetIn \/ Outage \/ Breakdown
  \/ WrongType \/ NoObject \/ Malformed
  \/ ReceiveChunk \/ FileComplete \/ ReadFields \/ TooManyParts
  \/ Unprocessable \/ Reject \/ Create \/ Store
  \/ Extract

ISpec == IInit /\ [][INext]_<<vars, ivars>>

-----------------------------------------------------------------------------
(* Extraction starts only from documents that it is written for. *)
StartsAsAssumed == gate = "stored" => file \in Starts

(* What the API documents as a good upload. *)
Good(r) ==
  /\ r.header = "given" /\ r.form = "sound" /\ r.parts = "few" /\ r.key = "legal"
  /\ r.body = "legal" /\ r.size \in 1..MaxBytes /\ r.fields <= FieldLimit
  /\ r.signature # "other" /\ r.name = r.signature

Oversized(r) == r.size > MaxBytes \/ r.fields > FieldLimit \/ Length(r) > MaxBytes + Slack

(* "400 / 413 / 415: Invalid input / oversized request / unsupported       *)
(* request encoding", "500 / 503: Unexpected fault / unavailable           *)
(* dependency".  The checks are spread over five layers that fail each in  *)
(* their own way, yet together they admit only good uploads of welcome     *)
(* senders; 413 is true; 400 and 415 are the client's fault; and without   *)
(* trouble in the service only three kinds of uploads, none of them good,  *)
(* look like a fault of the service: a JSON value that is no object, a     *)
(* form of too many parts, tags or metadata that cannot be processed.      *)
Baffling(r) == r.form = "value" \/ r.parts = "many" \/ r.body = "unprocessable"

AnswerTrue ==
  gate = "answered" =>
    /\ reply \in {201, 409} => Good(request) /\ request.sender = "welcome"
    /\ reply = 413 => Oversized(request)
    /\ reply \in {400, 415} => ~Good(request)
    /\ reply \in {500, 503} => trouble \/ (reply = 500 /\ Baffling(request))
=============================================================================
