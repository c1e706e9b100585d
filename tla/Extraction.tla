----------------------------- MODULE Extraction -----------------------------
(***************************************************************************)
(* One attempt to extract the text of one document: run_job copies the     *)
(* object into its workspace (documents/jobs.py) and extract reads it page *)
(* by page (documents/ocr.py).                                             *)
(*                                                                         *)
(* Text is represented by its length.  joined is the length of the texts   *)
(* of the pages read so far, joined by blank lines as in the result; total *)
(* is the running count the code compares with the limit.  A failure is an *)
(* exception on its way out through the except clauses of ocr.py and       *)
(* jobs.py, which decide on the error code and whether to retry.           *)
(***************************************************************************)
EXTENDS Integers

CONSTANTS
  Kinds,     \* the documents considered: "pdf", "image"
  MaxBytes,  \* MAX_UPLOAD_BYTES
  MaxPages,  \* MAX_OCR_PAGES
  MaxChars,  \* MAX_OCR_CHARS
  Chunk,     \* bytes read from the object store at a time
  Sizes,     \* bound: sizes an object may have
  Leaves,    \* bound: numbers of pages a PDF may have
  Lengths,   \* bound: lengths a page's text may have
  Padding    \* bound: characters of a page that strip() takes off again

ASSUME KindsAssumption == Kinds \subseteq {"pdf", "image"}
ASSUME LimitsAssumption ==
  MaxBytes \in Nat \ {0} /\ MaxPages \in Nat /\ MaxChars \in Nat /\ Chunk \in Nat \ {0}
ASSUME BoundsAssumption ==
  /\ Sizes \subseteq Nat /\ Leaves \subseteq Nat
  /\ Lengths \subseteq Nat /\ 0 \in Lengths /\ Padding \subseteq Nat

VARIABLES
  pc,       \* the next thing to do
  file,     \* the document: kind, size in the store, size recorded, digest matches, pages
  written,  \* bytes copied into the workspace
  page,     \* pages done
  layer,    \* length of the text being handled
  space,    \* characters counted for a refused page that are not in its text
  joined,   \* length of the text so far
  total,    \* the length as the code counts it
  fault,    \* what really went wrong with the attempt, if anything did
  answer,   \* how the attempt ended: a result, or the code of its failure
  retry     \* the failure may be retried

data == <<file, written, page, layer, space, joined, total>>
outcome == <<fault, answer, retry>>
vars == <<pc, data, outcome>>

-----------------------------------------------------------------------------
(* What validate_file lets in: a PDF or an image by its signature, of       *)
(* 1..MaxBytes bytes, whose size and digest are recorded.  What the store  *)
(* holds by the time of the attempt may be something else.                 *)
Files == [kind : Kinds, stored : Sizes, recorded : Sizes \cap 1..MaxBytes,
          genuine : BOOLEAN, pages : Leaves \cup {1}]

(* What can go wrong: the stored bytes are not those uploaded, the         *)
(* document passes a limit, the engine is missing or ends badly, the       *)
(* decoder reports a damaged document, the store fails, time runs out, or  *)
(* the machine fails: memory, the disk of the workspace, a new process.    *)
Faults == {"mismatch", "limit", "engine", "damaged", "store", "time", "machine"}

Codes == {"invalid_document", "page_limit", "pixel_limit", "text_limit", "ocr_engine_unavailable",
          "integrity_error", "ocr_timeout", "storage_unavailable", "unexpected_error"}

TypeOK ==
  /\ pc \in {"fetch", "open", "page", "render", "engine", "append", "over"}
  /\ file \in Files
  /\ written \in Nat /\ page \in Nat /\ layer \in Nat /\ space \in Nat
  /\ joined \in Nat /\ total \in Nat
  /\ fault \in {"none"} \cup Faults
  /\ answer \in {"none", "result"} \cup Codes
  /\ retry \in BOOLEAN

(* Bytes that match the digest have the recorded size; an image is one     *)
(* page.                                                                   *)
SoundFile(f) ==
  /\ f.genuine => f.stored = f.recorded
  /\ f.kind = "image" => f.pages = 1

Starts == {f \in Files : SoundFile(f)}

Init ==
  /\ pc = "fetch"
  /\ file \in Starts
  /\ written = 0 /\ page = 0 /\ layer = 0 /\ space = 0 /\ joined = 0 /\ total = 0
  /\ fault = "none"
  /\ answer = "none"
  /\ retry = FALSE

IsPdf == file.kind = "pdf"

-----------------------------------------------------------------------------
(* Exceptions, and the except clauses they pass.  Only OCRFailure carries  *)
(* a code.                                                                 *)

Raised(class) == [class |-> class, code |-> "unexpected_error", retryable |-> FALSE]

OCRFailure(code, retryable) == [class |-> "OCRFailure", code |-> code, retryable |-> retryable]

OSErrors == {"OSError", "FileNotFoundError", "UnidentifiedImageError"}

(* Around the copy: what is not an OCRFailure counts as the store's. *)
Copying(e) == IF e.class = "OCRFailure" THEN e ELSE OCRFailure("storage_unavailable", TRUE)

(* Around the engine. *)
EngineCall(e) ==
  CASE e.class = "TimeoutExpired" -> OCRFailure("ocr_timeout", TRUE)
    [] e.class \in {"FileNotFoundError", "CalledProcessError"}
                                  -> OCRFailure("ocr_engine_unavailable", FALSE)
    [] OTHER                      -> e

(* Around all that is done with a PDF. *)
InPdf(e) == IF e.class = "PdfiumError" THEN OCRFailure("invalid_document", FALSE) ELSE e

(* Slip: the last clause of the image branch catches every exception. *)
InImageAny(e) ==
  CASE e.class = "DecompressionBomb" -> OCRFailure("pixel_limit", FALSE)
    [] OTHER                         -> OCRFailure("invalid_document", FALSE)

(* Around all that is done with an image, the engine included. *)
InImage(e) ==
  CASE e.class = "DecompressionBomb"            -> OCRFailure("pixel_limit", FALSE)
    [] e.class \in OSErrors \cup {"ValueError"} -> OCRFailure("invalid_document", FALSE)
    [] OTHER                                    -> e

Decoding(e) == IF IsPdf THEN InPdf(e) ELSE InImage(e)

(* Around the attempt.  There are no others. *)
RunJob(e) ==
  CASE e.class = "OCRFailure"            -> e
    [] e.class = "SoftTimeLimitExceeded" -> OCRFailure("ocr_timeout", TRUE)
    [] OTHER                             -> OCRFailure("unexpected_error", TRUE)

(* Exception e ends the attempt; why is what really went wrong. *)
Ends(e, why) ==
  /\ answer' = RunJob(e).code
  /\ retry' = RunJob(e).retryable
  /\ fault' = why
  /\ pc' = "over"

Fail(e, why) == Ends(e, why) /\ UNCHANGED data

-----------------------------------------------------------------------------
(* The copy: size is checked before a chunk is written, the whole after.   *)

(* Slip: the chunk that passes the limit is written first. *)
FitsBefore(n) == written < MaxBytes

Fits(n) == written + n <= MaxBytes

ReadChunk ==
  /\ pc = "fetch" /\ written < file.stored
  /\ \E n \in 1..Chunk :
        /\ n <= file.stored - written
        /\ IF Fits(n)
             THEN /\ written' = written + n
                  /\ UNCHANGED <<pc, file, page, layer, space, joined, total, outcome>>
             ELSE Fail(Copying(OCRFailure("integrity_error", FALSE)), "mismatch")

(* Slip: the digest is not compared. *)
VerifiedSize == written = file.recorded

Verified == written = file.recorded /\ file.genuine

EndOfObject ==
  /\ pc = "fetch" /\ written = file.stored
  /\ IF Verified
       THEN pc' = "open" /\ UNCHANGED <<data, outcome>>
       ELSE Fail(OCRFailure("integrity_error", FALSE), "mismatch")

(* The store fails, with whatever exception its client library has. *)
FetchFails ==
  /\ pc = "fetch"
  /\ \E class \in {"OSError", "Exception"} : Fail(Copying(Raised(class)), "store")

-----------------------------------------------------------------------------
(* Opening: a PDF by its pages, an image by its pixels and format.         *)

Openable == file.pages > 0 /\ file.pages <= MaxPages

OpenPdf ==
  /\ pc = "open" /\ IsPdf
  /\ IF Openable
       THEN pc' = "page" /\ UNCHANGED <<data, outcome>>
       ELSE Fail(Decoding(OCRFailure("page_limit", FALSE)), "limit")

OpenImage ==
  /\ pc = "open" /\ ~IsPdf
  /\ pc' = "render" /\ UNCHANGED <<data, outcome>>

(* PDFium or Pillow cannot make sense of the file, or an image is of a     *)
(* format other than the two.                                              *)
DecoderErrors ==
  IF IsPdf
    THEN {Raised("PdfiumError"), Raised("Exception")}
    ELSE {Raised(class) : class \in {"UnidentifiedImageError", "OSError", "ValueError", "Exception"}}
         \cup {OCRFailure("invalid_document", FALSE)}

Undecodable ==
  /\ pc \in {"open", "render"} \/ (pc = "page" /\ page < file.pages)
  /\ \E e \in DecoderErrors : Fail(Decoding(e), "damaged")

(* The pixels of a page without text, or of the image, are checked before  *)
(* anything is rendered or decoded; Pillow has a limit of its own.         *)
TooLarge ==
  /\ pc = "render"
  /\ \/ Fail(Decoding(OCRFailure("pixel_limit", FALSE)), "limit")
     \/ ~IsPdf /\ Fail(Decoding(Raised("DecompressionBomb")), "limit")

Render == pc = "render" /\ pc' = "engine" /\ UNCHANGED <<data, outcome>>

-----------------------------------------------------------------------------
(* The pages of a PDF.                                                     *)

(* Text of the next page goes behind what there is: a blank line, then n   *)
(* characters.                                                             *)
Taken(n) ==
  /\ page' = page + 1
  /\ joined' = IF page = 0 THEN n ELSE joined + 2 + n

Room(n) == n <= MaxChars - total

TooLong == Ends(Decoding(OCRFailure("text_limit", FALSE)), "limit")

(* A page with a text layer: its characters are counted, then read, then   *)
(* stripped, so white space around the text counts against the limit for   *)
(* the page itself and is forgotten when it is accepted.                   *)
ReadLayer ==
  /\ pc = "page" /\ page < file.pages
  /\ \E n \in Lengths, pad \in Padding :
        \/ /\ ~Room(n + pad)
           /\ Taken(n) /\ space' = pad /\ TooLong
           /\ UNCHANGED <<file, written, layer, total>>
        \/ /\ Room(n + pad)
           /\ layer' = n
           /\ pc' = IF n > 0 THEN "append" ELSE "render"
           /\ UNCHANGED <<file, written, page, space, joined, total, outcome>>

(* Slip: a blank line is counted on both sides of a page. *)
CountedBothSides(n) == total + n + 4

Counted(n) == total + n + 2

Append ==
  /\ pc = "append"
  /\ Taken(layer)
  /\ total' = Counted(layer)
  /\ \/ Counted(layer) > MaxChars /\ TooLong
     \/ Counted(layer) <= MaxChars /\ pc' = "page" /\ UNCHANGED outcome
  /\ UNCHANGED <<file, written, layer, space>>

(* The check of the whole text, the same for PDFs and images. *)
Exceeds(n) == n > MaxChars

Conclude ==
  /\ pc = "page" /\ page = file.pages
  /\ IF Exceeds(joined)
       THEN Fail(OCRFailure("text_limit", FALSE), "limit")
       ELSE answer' = "result" /\ pc' = "over" /\ UNCHANGED <<data, fault, retry>>

-----------------------------------------------------------------------------
(* Tesseract, for an image or a page without text.                         *)

EngineReads ==
  /\ pc = "engine"
  /\ layer' \in Lengths
  /\ \/ IsPdf /\ pc' = "append" /\ UNCHANGED <<page, joined, outcome>>
     \/ /\ ~IsPdf /\ Taken(layer')
        /\ IF Exceeds(layer')
             THEN Ends(OCRFailure("text_limit", FALSE), "limit")
             ELSE answer' = "result" /\ pc' = "over" /\ UNCHANGED <<fault, retry>>
  /\ UNCHANGED <<file, written, space, total>>

(* It takes longer than OCR_PAGE_TIMEOUT. *)
EngineSlow == pc = "engine" /\ Fail(Decoding(EngineCall(Raised("TimeoutExpired"))), "time")

(* There is none, it lacks a language, or it is killed. *)
EngineBroken ==
  /\ pc = "engine"
  /\ \E class \in {"FileNotFoundError", "CalledProcessError"} :
        Fail(Decoding(EngineCall(Raised(class))), "engine")

(* No workspace can be made, or there is no room in it for the object; no  *)
(* memory to render, no room for the rendered page, no process to be had   *)
(* for the engine: an OSError, or an exception like MemoryError.           *)
MachineFails ==
  \E class \in {"OSError", "Exception"} :
     LET e == Raised(class)
     IN  \/ pc = "fetch" /\ (Fail(e, "machine") \/ Fail(Copying(e), "machine"))
         \/ pc = "render" /\ Fail(Decoding(e), "machine")
         \/ pc = "engine" /\ Fail(Decoding(EngineCall(e)), "machine")

(* The soft time limit of the task strikes anywhere. *)
OutOfTime ==
  LET e == Raised("SoftTimeLimitExceeded")
  IN  \/ pc = "fetch" /\ (Fail(e, "time") \/ Fail(Copying(e), "time"))
      \/ pc \in {"open", "page", "render", "append"} /\ Fail(Decoding(e), "time")
      \/ pc = "engine" /\ Fail(Decoding(EngineCall(e)), "time")

-----------------------------------------------------------------------------
Next ==
  \/ ReadChunk \/ EndOfObject \/ FetchFails
  \/ OpenPdf \/ OpenImage \/ Undecodable \/ TooLarge \/ Render
  \/ ReadLayer \/ Append \/ Conclude
  \/ EngineReads \/ EngineSlow \/ EngineBroken \/ MachineFails \/ OutOfTime

Spec == Init /\ [][Next]_vars

-----------------------------------------------------------------------------
(* A result is text of the bytes that were uploaded, complete to the last  *)
(* page, and within the page and character limits.                         *)
ResultComplete ==
  answer = "result" =>
    /\ file.genuine /\ written = file.recorded
    /\ page = file.pages /\ (IsPdf => page \in 1..MaxPages)
    /\ joined <= MaxChars

(* "Output text is capped" and the workspace is small: neither ever grows  *)
(* beyond its limit, whatever the store and the document contain.          *)
Capped == written <= MaxBytes /\ (pc = "page" => joined <= MaxChars)

(* "Damaged/encrypted file, page/pixel/text limit, missing OCR engine:     *)
(* permanent failure; S3/network access failure, OCR timeout, unexpected   *)
(* processing error: at most 3 attempts."  Whichever clauses an exception  *)
(* passes, wrong bytes, limits and the engine end the job and the store    *)
(* and time do not; nor does the machine, except for images, where the     *)
(* clause for damaged files takes an OSError of any origin.  Damage itself *)
(* is left out: what a decoder raises need not be what its clause expects. *)
RetriedAsDue ==
  pc = "over" =>
    /\ fault \in {"store", "time"} => retry
    /\ fault = "machine" /\ IsPdf => retry
    /\ fault \in {"mismatch", "limit", "engine"} => ~retry

(* Length that the joined text would have at least: what was read, and a   *)
(* blank line when more pages follow.                                      *)
AtLeast == IF page < file.pages THEN joined + 2 ELSE joined

(* The slack of the character limit: a text that is refused is too long,   *)
(* but for the white space around the page at which it is refused, and the *)
(* two characters of the blank line that is counted behind the last page   *)
(* as well.                                                                *)
RefusedNearLimit == answer = "text_limit" => AtLeast + space > MaxChars - 2

(* The reason given to the client is true: "the extracted text exceeds the *)
(* configured character limit".                                            *)
TextLimitTrue == answer = "text_limit" => AtLeast > MaxChars
=============================================================================
