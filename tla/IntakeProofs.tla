---------------------------- MODULE IntakeProofs ----------------------------
(***************************************************************************)
(* Proofs about an upload and its extraction, for all limits and sizes:    *)
(* what is admitted is what extraction assumes, and what extraction does   *)
(* with it stays within its limits.                                        *)
(***************************************************************************)
EXTENDS Intake, TLAPS

(* An attempt is over exactly when it has an answer. *)
Ended == (pc = "over" <=> answer # "none") /\ (pc # "over" => fault = "none" /\ ~retry)

(* The copy is small at any time, and the uploaded bytes once it is read. *)
Copied ==
  /\ written <= MaxBytes
  /\ pc \notin {"fetch", "over"} \/ answer = "result" => Verified

(* Where an attempt may be, given how many pages it has done. *)
Paged ==
  /\ pc \in {"fetch", "open"} => page = 0
  /\ pc \in {"page", "append"} => IsPdf
  /\ pc \in {"page", "append", "render", "engine"} =>
       IF IsPdf
         THEN file.pages \in 1..MaxPages /\ page <= file.pages /\ (pc # "page" => page < file.pages)
         ELSE page = 0

(* The running count is two ahead of the text, once there is any; pages    *)
(* are only begun while it is within the limit.                            *)
Counting ==
  /\ pc # "over" => space = 0 /\ total = IF page = 0 THEN 0 ELSE joined + 2
  /\ pc # "over" /\ page = 0 => joined = 0
  /\ pc = "page" => total <= MaxChars
  /\ pc = "append" => layer \in Lengths

Extracted ==
  /\ TypeOK /\ SoundFile(file) /\ Ended /\ Copied /\ Paged /\ Counting
  /\ ResultComplete /\ RetriedAsDue /\ RefusedNearLimit

-----------------------------------------------------------------------------
(* Extraction. *)

LEMMA ExtractedInit == Init => Extracted
<1> SUFFICES ASSUME Init PROVE Extracted
  OBVIOUS
<1>1. /\ pc = "fetch" /\ file \in Files /\ SoundFile(file) /\ fault = "none" /\ answer = "none"
      /\ written = 0 /\ page = 0 /\ layer = 0 /\ space = 0 /\ joined = 0 /\ total = 0
      /\ retry = FALSE
  BY DEF Init, Starts
<1>2. TypeOK
  BY <1>1 DEF TypeOK
<1> QED
  BY <1>1, <1>2, LimitsAssumption
  DEF Extracted, Ended, Copied, Paged, Counting, ResultComplete, RetriedAsDue, RefusedNearLimit

(* What the failure policy has to say of exception e for reason why. *)
Due(e, why) ==
  /\ RunJob(e).code \in Codes /\ RunJob(e).retryable \in BOOLEAN
  /\ why \in {"store", "time"} => RunJob(e).retryable
  /\ why = "machine" /\ IsPdf => RunJob(e).retryable
  /\ why \in {"mismatch", "limit", "engine"} => ~RunJob(e).retryable

(* An OCRFailure keeps its code and verdict through every clause. *)
LEMMA FailureKept ==
  ASSUME NEW code, NEW again \in BOOLEAN
  PROVE  /\ Copying(OCRFailure(code, again)) = OCRFailure(code, again)
         /\ EngineCall(OCRFailure(code, again)) = OCRFailure(code, again)
         /\ Decoding(OCRFailure(code, again)) = OCRFailure(code, again)
         /\ RunJob(OCRFailure(code, again)) = OCRFailure(code, again)
         /\ OCRFailure(code, again).code = code
         /\ OCRFailure(code, again).retryable = again
BY DEF OCRFailure, Copying, Decoding, InPdf, InImage, OSErrors, EngineCall, RunJob

LEMMA Verdicts ==
  \A code : /\ OCRFailure(code, TRUE).code = code /\ OCRFailure(code, FALSE).code = code
            /\ OCRFailure(code, TRUE).retryable
            /\ OCRFailure(code, TRUE).retryable \in BOOLEAN
            /\ ~OCRFailure(code, FALSE).retryable
            /\ OCRFailure(code, FALSE).retryable \in BOOLEAN
BY DEF OCRFailure

(* What the clauses make of the other exceptions. *)
LEMMA ClassesJudged ==
  /\ \A class \in {"OSError", "Exception", "SoftTimeLimitExceeded"} :
       /\ Copying(Raised(class)) = OCRFailure("storage_unavailable", TRUE)
       /\ EngineCall(Raised(class)) = Raised(class)
       /\ IsPdf => Decoding(Raised(class)) = Raised(class)
  /\ Decoding(Raised("SoftTimeLimitExceeded")) = Raised("SoftTimeLimitExceeded")
  /\ RunJob(Raised("SoftTimeLimitExceeded")) = OCRFailure("ocr_timeout", TRUE)
  /\ \A class \in {"OSError", "Exception"} :
       RunJob(Raised(class)) = OCRFailure("unexpected_error", TRUE)
  /\ EngineCall(Raised("TimeoutExpired")) = OCRFailure("ocr_timeout", TRUE)
  /\ \A class \in {"FileNotFoundError", "CalledProcessError"} :
       EngineCall(Raised(class)) = OCRFailure("ocr_engine_unavailable", FALSE)
  /\ ~IsPdf => Decoding(Raised("DecompressionBomb")) = OCRFailure("pixel_limit", FALSE)
BY DEF Raised, Copying, EngineCall, Decoding, InPdf, InImage, OSErrors, RunJob

(* Whatever a decoder or the machine raises ends as a failure with one of  *)
(* two codes.                                                              *)
LEMMA DecoderJudged ==
  ASSUME NEW class \in {"PdfiumError", "Exception", "UnidentifiedImageError", "OSError", "ValueError"}
  PROVE  RunJob(Decoding(Raised(class))) \in
           {OCRFailure("invalid_document", FALSE), OCRFailure("unexpected_error", TRUE)}
<1>1. Decoding(Raised(class)) \in {Raised(class), OCRFailure("invalid_document", FALSE)}
  BY DEF Raised, Decoding, InPdf, InImage, OSErrors
<1>2. RunJob(Raised(class)) = OCRFailure("unexpected_error", TRUE)
  BY DEF Raised, RunJob
<1>3. RunJob(OCRFailure("invalid_document", FALSE)) = OCRFailure("invalid_document", FALSE)
  BY FailureKept
<1> QED BY <1>1, <1>2, <1>3

(* A failure that the policy agrees with keeps the invariant, whatever was *)
(* under way, unless it is about the length of the text.                   *)
LEMMA FailStep ==
  ASSUME Extracted, NEW e, NEW why \in Faults, Fail(e, why), pc # "over",
         Due(e, why), RunJob(e).code # "text_limit"
  PROVE  Extracted'
<1>1. /\ answer' \in Codes /\ retry' \in BOOLEAN /\ fault' = why /\ pc' = "over"
      /\ answer' # "text_limit" /\ answer' # "result" /\ answer' # "none"
      /\ UNCHANGED <<file, written, page, layer, space, joined, total>>
  BY DEF Fail, Ends, Due, Codes, data
<1>2. TypeOK' /\ Ended' /\ SoundFile(file)'
  BY <1>1 DEF Extracted, TypeOK, Ended, SoundFile
<1>3. Copied' /\ Paged' /\ Counting' /\ ResultComplete' /\ RefusedNearLimit'
  BY <1>1 DEF Extracted, Copied, Paged, Counting, ResultComplete, RefusedNearLimit
<1>4. RetriedAsDue'
  BY <1>1 DEF Fail, Ends, Due, RetriedAsDue, IsPdf
<1> QED BY <1>2, <1>3, <1>4 DEF Extracted

(* The same for an OCRFailure of the code that raises it. *)
LEMMA RaiseStep ==
  ASSUME Extracted, pc # "over", NEW code \in Codes \ {"text_limit"}, NEW again \in BOOLEAN,
         NEW why \in Faults,
         \/ Fail(OCRFailure(code, again), why) \/ Fail(Copying(OCRFailure(code, again)), why)
         \/ Fail(Decoding(OCRFailure(code, again)), why),
         why \in {"store", "time"} => again,
         why = "machine" /\ IsPdf => again,
         why \in {"mismatch", "limit", "engine"} => ~again
  PROVE  Extracted'
<1>1. Fail(OCRFailure(code, again), why)
  BY FailureKept
<1>2. Due(OCRFailure(code, again), why) /\ RunJob(OCRFailure(code, again)).code = code
  BY FailureKept DEF Due
<1> QED BY <1>1, <1>2, FailStep

(* A step after which the attempt goes on need not care for how attempts end. *)
LEMMA GoesOn ==
  ASSUME Extracted, TypeOK', file' = file, UNCHANGED outcome, pc # "over", pc' # "over"
  PROVE  /\ SoundFile(file)' /\ Ended'
         /\ ResultComplete' /\ RetriedAsDue' /\ RefusedNearLimit'
         /\ answer' # "result"
BY DEF Extracted, outcome, SoundFile, Ended, ResultComplete, RetriedAsDue, RefusedNearLimit

(* What is known of the data. *)
LEMMA Numbers ==
  ASSUME TypeOK
  PROVE  /\ written \in Nat /\ page \in Nat /\ layer \in Nat /\ space \in Nat
         /\ joined \in Nat /\ total \in Nat
         /\ file.stored \in Nat /\ file.recorded \in 1..MaxBytes /\ file.pages \in Nat
         /\ MaxBytes \in Nat \ {0} /\ MaxPages \in Nat /\ MaxChars \in Nat
         /\ \A n \in Lengths : n \in Nat
         /\ \A n \in Padding : n \in Nat
         /\ 1..Chunk \subseteq Nat
<1>1. file \in Files
  BY DEF TypeOK
<1>2. /\ file.stored \in Sizes /\ file.recorded \in 1..MaxBytes
      /\ file.pages \in Leaves \cup {1}
  BY <1>1 DEF Files
<1>3. file.stored \in Nat /\ file.pages \in Nat
  <2>1. Sizes \subseteq Nat /\ Leaves \subseteq Nat /\ 1 \in Nat
    BY BoundsAssumption
  <2> QED BY <1>2, <2>1
<1>4. MaxBytes \in Nat \ {0} /\ MaxPages \in Nat /\ MaxChars \in Nat /\ Chunk \in Nat
  BY LimitsAssumption
<1>5. (\A n \in Lengths : n \in Nat) /\ (\A n \in Padding : n \in Nat)
  BY BoundsAssumption
<1> QED BY <1>2, <1>3, <1>4, <1>5 DEF TypeOK

LEMMA CopyStep ==
  ASSUME Extracted, ReadChunk \/ EndOfObject
  PROVE  Extracted'
<1>1. TypeOK /\ pc = "fetch" /\ answer = "none" /\ page = 0
  BY DEF Extracted, ReadChunk, EndOfObject, Ended, Paged
<1>2. CASE \/ Fail(Copying(OCRFailure("integrity_error", FALSE)), "mismatch")
           \/ Fail(OCRFailure("integrity_error", FALSE), "mismatch")
  BY <1>1, <1>2, RaiseStep DEF Codes, Faults
<1>3. ASSUME NEW n \in 1..Chunk, written' = written + n, written + n <= MaxBytes,
             UNCHANGED <<pc, file, page, layer, space, joined, total, outcome>>
      PROVE  Extracted'
  <2>1. TypeOK'
    BY <1>1, <1>3, Numbers DEF TypeOK, outcome
  <2>2. Copied' /\ Paged' /\ Counting'
    BY <1>1, <1>3 DEF Extracted, Copied, Paged, Counting, outcome
  <2> QED BY <1>1, <1>3, <2>1, <2>2, GoesOn DEF Extracted
<1>4. CASE Verified /\ pc' = "open" /\ UNCHANGED <<data, outcome>>
  <2>1. TypeOK'
    BY <1>1, <1>4 DEF TypeOK, data, outcome
  <2>2. Copied' /\ Paged' /\ Counting'
    BY <1>1, <1>4 DEF Extracted, Copied, Paged, Counting, Verified, data, outcome
  <2> QED BY <1>1, <1>4, <2>1, <2>2, GoesOn DEF Extracted, data
<1> QED BY <1>2, <1>3, <1>4 DEF ReadChunk, EndOfObject, Fits

LEMMA OpenStep ==
  ASSUME Extracted, OpenPdf \/ OpenImage \/ Render
  PROVE  Extracted'
<1>1. TypeOK /\ pc \in {"open", "render"} /\ answer = "none"
  BY DEF Extracted, OpenPdf, OpenImage, Render, Ended
<1>2. CASE Fail(Decoding(OCRFailure("page_limit", FALSE)), "limit")
  BY <1>1, <1>2, RaiseStep DEF Codes, Faults
<1>3. CASE /\ UNCHANGED <<data, outcome>>
           /\ \/ pc = "open" /\ IsPdf /\ Openable /\ pc' = "page"
              \/ pc = "open" /\ ~IsPdf /\ pc' = "render"
              \/ pc = "render" /\ pc' = "engine"
  <2>1. TypeOK'
    BY <1>1, <1>3 DEF TypeOK, data, outcome
  <2>2. Copied' /\ Counting'
    BY <1>1, <1>3, Numbers DEF Extracted, Copied, Paged, Counting, Verified, data, outcome
  <2>3. Paged'
    BY <1>1, <1>3, Numbers DEF Extracted, Paged, Openable, IsPdf, data
  <2> QED BY <1>1, <1>3, <2>1, <2>2, <2>3, GoesOn DEF Extracted, data
<1> QED BY <1>2, <1>3 DEF OpenPdf, OpenImage, Render

(* The attempt ends in text that is too long, as far as it was read. *)
LEMMA LimitStep ==
  ASSUME Extracted, NEW n \in Lengths, Taken(n), pc # "over",
         \/ TooLong \/ Ends(OCRFailure("text_limit", FALSE), "limit"),
         UNCHANGED <<file, written>>, layer' \in Nat, space' \in Nat, total' \in Nat,
         joined' + space' > MaxChars - 2
  PROVE  Extracted'
<1>1. TypeOK /\ page' \in Nat /\ joined' \in Nat /\ file' = file
  BY Numbers DEF Extracted, Taken
<1>2. answer' = "text_limit" /\ ~retry' /\ retry' \in BOOLEAN /\ fault' = "limit" /\ pc' = "over"
  <2>1. Ends(OCRFailure("text_limit", FALSE), "limit")
    BY FailureKept DEF TooLong
  <2>2. RunJob(OCRFailure("text_limit", FALSE)) = OCRFailure("text_limit", FALSE)
    BY FailureKept
  <2> QED BY <2>1, <2>2, Verdicts DEF Ends
<1>3. TypeOK' /\ Ended' /\ SoundFile(file)'
  BY <1>1, <1>2 DEF Extracted, TypeOK, Ended, SoundFile, Codes, Faults
<1>4. Copied' /\ Paged' /\ Counting' /\ ResultComplete' /\ RetriedAsDue'
  BY <1>2 DEF Extracted, Copied, Paged, Counting, ResultComplete, RetriedAsDue
<1>5. RefusedNearLimit'
  BY <1>1, Numbers DEF RefusedNearLimit, AtLeast
<1> QED BY <1>3, <1>4, <1>5 DEF Extracted

(* The length of the joined text after one page more. *)
LEMMA Joining ==
  ASSUME Extracted, NEW n \in Lengths, Taken(n), pc # "over"
  PROVE  page' = page + 1 /\ joined' = total + n /\ joined' \in Nat
BY Numbers DEF Extracted, Taken, Counting

LEMMA LayerStep == ASSUME Extracted, ReadLayer PROVE Extracted'
<1>1. TypeOK /\ pc = "page" /\ answer = "none" /\ IsPdf /\ page < file.pages
  BY DEF Extracted, ReadLayer, Ended, Paged
<1>2. ASSUME NEW n \in Lengths, NEW pad \in Padding, ~Room(n + pad), Taken(n), space' = pad,
             TooLong, UNCHANGED <<file, written, layer, total>>
      PROVE  Extracted'
  <2>1. joined' + space' > MaxChars
    BY <1>1, <1>2, Joining, Numbers DEF Room
  <2> QED BY <1>1, <1>2, <2>1, LimitStep, Numbers, Joining
<1>3. ASSUME layer' \in Lengths, pc' \in {"append", "render"},
             UNCHANGED <<file, written, page, space, joined, total, outcome>>
      PROVE  Extracted'
  <2>1. TypeOK'
    BY <1>1, <1>3, Numbers DEF TypeOK, outcome
  <2>2. Copied' /\ Paged' /\ Counting'
    BY <1>1, <1>3 DEF Extracted, Copied, Verified, Paged, Counting, IsPdf, outcome
  <2> QED BY <1>1, <1>3, <2>1, <2>2, GoesOn DEF Extracted
<1> QED BY <1>2, <1>3 DEF ReadLayer

LEMMA AppendStep == ASSUME Extracted, Append PROVE Extracted'
<1>1. /\ TypeOK /\ pc = "append" /\ answer = "none" /\ IsPdf /\ page < file.pages
      /\ file.pages \in 1..MaxPages /\ page \in Nat /\ layer \in Lengths
  BY Numbers DEF Extracted, Append, Ended, Paged, Counting
<1>2. /\ page' = page + 1 /\ joined' = total + layer /\ joined' \in Nat
      /\ total' = total + layer + 2 /\ total' \in Nat /\ layer' = layer
      /\ UNCHANGED <<file, written, space>> /\ space = 0
  BY <1>1, Joining, Numbers DEF Append, Counted, Extracted, Counting
<1>3. CASE Counted(layer) > MaxChars /\ TooLong
  <2>1. joined' + space' > MaxChars - 2
    BY <1>1, <1>2, <1>3, Numbers DEF Counted
  <2> QED BY <1>1, <1>2, <1>3, <2>1, LimitStep, Numbers DEF Append
<1>4. CASE Counted(layer) <= MaxChars /\ pc' = "page" /\ UNCHANGED outcome
  <2>1. TypeOK'
    BY <1>1, <1>2, <1>4 DEF TypeOK, outcome
  <2>2. Copied' /\ Paged'
    BY <1>1, <1>2, <1>4 DEF Extracted, Copied, Verified, Paged, IsPdf, outcome
  <2>3. Counting'
    BY <1>1, <1>2, <1>4, Numbers DEF Counting, Counted
  <2> QED BY <1>1, <1>2, <1>4, <2>1, <2>2, <2>3, GoesOn DEF Extracted
<1> QED BY <1>3, <1>4 DEF Append

LEMMA ConcludeStep == ASSUME Extracted, Conclude PROVE Extracted'
<1>1. /\ TypeOK /\ pc = "page" /\ answer = "none" /\ fault = "none" /\ IsPdf /\ Verified
      /\ page = file.pages /\ file.pages \in 1..MaxPages /\ page > 0 /\ joined <= MaxChars
  BY Numbers DEF Extracted, Conclude, Ended, Paged, Copied, Counting
<1>2. /\ answer' = "result" /\ pc' = "over"
      /\ UNCHANGED <<file, written, page, layer, space, joined, total, fault, retry>>
  <2>1. ~Exceeds(joined)
    BY <1>1, Numbers DEF Exceeds
  <2>2. answer' = "result" /\ pc' = "over" /\ UNCHANGED <<data, fault, retry>>
    BY <2>1 DEF Conclude
  <2> QED BY <2>2 DEF data
<1>3. TypeOK' /\ SoundFile(file)' /\ Ended' /\ Paged' /\ Counting'
  BY <1>1, <1>2 DEF Extracted, TypeOK, SoundFile, Ended, Paged, Counting
<1>4. Copied' /\ ResultComplete'
  BY <1>1, <1>2 DEF Extracted, Copied, Verified, ResultComplete, IsPdf
<1>5. RetriedAsDue' /\ RefusedNearLimit'
  BY <1>1, <1>2 DEF RetriedAsDue, RefusedNearLimit
<1> QED BY <1>3, <1>4, <1>5 DEF Extracted

LEMMA EngineStep == ASSUME Extracted, EngineReads PROVE Extracted'
<1>1. /\ TypeOK /\ pc = "engine" /\ answer = "none" /\ fault = "none" /\ Verified
      /\ space = 0
      /\ layer' \in Lengths /\ UNCHANGED <<file, written, space, total>>
  BY DEF Extracted, EngineReads, Ended, Copied, Counting
<1>2. CASE IsPdf /\ pc' = "append" /\ UNCHANGED <<page, joined, outcome>>
  <2>1. TypeOK'
    BY <1>1, <1>2, Numbers DEF TypeOK, outcome
  <2>2. Copied' /\ Paged' /\ Counting'
    BY <1>1, <1>2 DEF Extracted, Copied, Verified, Paged, Counting, IsPdf, outcome
  <2> QED BY <1>1, <1>2, <2>1, <2>2, GoesOn DEF Extracted
<1>3. CASE ~IsPdf /\ Taken(layer')
  <2>0. file.kind = "image"
    <3>1. file.kind \in Kinds
      BY <1>1 DEF TypeOK, Files
    <3> QED BY <1>3, <3>1, KindsAssumption DEF IsPdf
  <2>1. page = 0 /\ file.pages = 1 /\ page' = 1 /\ joined' = layer' /\ layer' \in Nat
    BY <1>1, <1>3, <2>0, Numbers DEF Extracted, Paged, SoundFile, Taken
  <2>2. CASE Exceeds(layer') /\ Ends(OCRFailure("text_limit", FALSE), "limit")
    <3>1. /\ space' = 0 /\ total' = total /\ joined' + space' > MaxChars - 2
          /\ pc # "over" /\ total \in Nat
      BY <1>1, <2>1, <2>2, Numbers DEF Exceeds, EngineReads
    <3>2. PICK n \in Lengths : n = layer'
      BY <1>1
    <3>3. Taken(n)
      BY <1>3, <3>2 DEF Taken
    <3>4. UNCHANGED <<file, written>> /\ layer' \in Nat /\ space' \in Nat /\ total' \in Nat
      BY <1>1, <2>1, <3>1
    <3> QED BY <2>2, <3>1, <3>3, <3>4, LimitStep
  <2>3. CASE ~Exceeds(layer') /\ answer' = "result" /\ pc' = "over" /\ UNCHANGED <<fault, retry>>
    <3>1. TypeOK'
      BY <1>1, <2>1, <2>3 DEF TypeOK
    <3>2. SoundFile(file)' /\ Ended' /\ Paged' /\ Counting'
      BY <1>1, <2>3 DEF Extracted, SoundFile, Ended, Paged, Counting
    <3>3. Copied' /\ ResultComplete'
      BY <1>1, <1>3, <2>1, <2>3, Numbers
      DEF Extracted, Copied, Verified, ResultComplete, IsPdf, Exceeds
    <3>4. RetriedAsDue' /\ RefusedNearLimit'
      BY <1>1, <2>3 DEF RetriedAsDue, RefusedNearLimit
    <3> QED BY <3>1, <3>2, <3>3, <3>4 DEF Extracted
  <2> QED BY <1>3, <2>2, <2>3, <1>1 DEF EngineReads
<1> QED BY <1>2, <1>3 DEF EngineReads

LEMMA FaultStep ==
  ASSUME Extracted,
         \/ FetchFails \/ Undecodable \/ TooLarge \/ EngineSlow
         \/ EngineBroken \/ MachineFails \/ OutOfTime
  PROVE  Extracted'
<1>1. pc # "over"
  BY DEF FetchFails, Undecodable, TooLarge, EngineSlow, EngineBroken, MachineFails, OutOfTime
<1>2. CASE FetchFails
  <2>1. Fail(OCRFailure("storage_unavailable", TRUE), "store")
    BY <1>2, ClassesJudged DEF FetchFails
  <2> QED BY <1>1, <2>1, RaiseStep DEF Codes, Faults
<1>3. ASSUME NEW why \in {"damaged", "machine"}, why = "machine" => ~IsPdf,
             \/ Fail(OCRFailure("invalid_document", FALSE), why)
             \/ Fail(OCRFailure("unexpected_error", TRUE), why)
      PROVE  Extracted'
  BY <1>1, <1>3, RaiseStep DEF Codes, Faults
<1>4. CASE Undecodable
  <2>1. PICK e \in DecoderErrors : Fail(Decoding(e), "damaged")
    BY <1>4 DEF Undecodable
  <2>2. RunJob(Decoding(e)) \in {OCRFailure("invalid_document", FALSE),
                                 OCRFailure("unexpected_error", TRUE)}
    <3>1. \/ e = OCRFailure("invalid_document", FALSE)
          \/ \E class \in {"PdfiumError", "Exception", "UnidentifiedImageError", "OSError",
                           "ValueError"} : e = Raised(class)
      BY DEF DecoderErrors
    <3>2. CASE e = OCRFailure("invalid_document", FALSE)
      <4>1. RunJob(Decoding(e)) = OCRFailure("invalid_document", FALSE)
        BY <3>2, FailureKept
      <4> QED BY <4>1
    <3>3. ASSUME NEW class \in {"PdfiumError", "Exception", "UnidentifiedImageError", "OSError",
                               "ValueError"}, e = Raised(class)
          PROVE  RunJob(Decoding(e)) \in {OCRFailure("invalid_document", FALSE),
                                          OCRFailure("unexpected_error", TRUE)}
      BY <3>3, DecoderJudged
    <3> QED BY <3>1, <3>2, <3>3
  <2>3. \/ Fail(OCRFailure("invalid_document", FALSE), "damaged")
        \/ Fail(OCRFailure("unexpected_error", TRUE), "damaged")
    BY <2>1, <2>2, FailureKept DEF Fail, Ends
  <2> QED BY <1>3, <2>3
<1>5. CASE TooLarge
  <2>1. Fail(Decoding(OCRFailure("pixel_limit", FALSE)), "limit")
        \/ Fail(OCRFailure("pixel_limit", FALSE), "limit")
    BY <1>5, ClassesJudged DEF TooLarge
  <2> QED BY <1>1, <2>1, RaiseStep DEF Codes, Faults
<1>6. CASE EngineSlow
  <2>1. Fail(Decoding(OCRFailure("ocr_timeout", TRUE)), "time")
    BY <1>6, ClassesJudged DEF EngineSlow
  <2> QED BY <1>1, <2>1, RaiseStep DEF Codes, Faults
<1>7. CASE EngineBroken
  <2>1. Fail(Decoding(OCRFailure("ocr_engine_unavailable", FALSE)), "engine")
    BY <1>7, ClassesJudged DEF EngineBroken
  <2> QED BY <1>1, <2>1, RaiseStep DEF Codes, Faults
<1>8. CASE MachineFails
  <2>1. PICK class \in {"OSError", "Exception"} :
          \/ Fail(Raised(class), "machine") \/ Fail(Copying(Raised(class)), "machine")
          \/ Fail(Decoding(Raised(class)), "machine")
    BY <1>8, ClassesJudged DEF MachineFails
  <2>2. CASE Fail(Copying(Raised(class)), "machine")
    <3>1. Fail(OCRFailure("storage_unavailable", TRUE), "machine")
      BY <2>2, ClassesJudged
    <3> QED BY <1>1, <3>1, RaiseStep DEF Codes, Faults
  <2>3. CASE Fail(Raised(class), "machine") \/ (IsPdf /\ Fail(Decoding(Raised(class)), "machine"))
    <3>1. Fail(Raised(class), "machine") /\ RunJob(Raised(class)) = OCRFailure("unexpected_error", TRUE)
      BY <2>3, ClassesJudged
    <3>2. Due(Raised(class), "machine") /\ RunJob(Raised(class)).code # "text_limit"
      BY <3>1, Verdicts DEF Due, Codes
    <3> QED BY <1>1, <3>1, <3>2, FailStep DEF Faults
  <2>4. CASE ~IsPdf /\ Fail(Decoding(Raised(class)), "machine")
    <3>1. RunJob(Decoding(Raised(class))) \in {OCRFailure("invalid_document", FALSE),
                                               OCRFailure("unexpected_error", TRUE)}
      BY DecoderJudged
    <3>2. \/ Fail(OCRFailure("invalid_document", FALSE), "machine")
          \/ Fail(OCRFailure("unexpected_error", TRUE), "machine")
      BY <2>4, <3>1, FailureKept DEF Fail, Ends
    <3> QED BY <1>3, <2>4, <3>2
  <2> QED BY <2>1, <2>2, <2>3, <2>4
<1>9. CASE OutOfTime
  <2>1. \/ Fail(Raised("SoftTimeLimitExceeded"), "time")
        \/ Fail(OCRFailure("storage_unavailable", TRUE), "time")
    BY <1>9, ClassesJudged DEF OutOfTime
  <2>2. CASE Fail(Raised("SoftTimeLimitExceeded"), "time")
    <3>1. /\ Due(Raised("SoftTimeLimitExceeded"), "time")
          /\ RunJob(Raised("SoftTimeLimitExceeded")).code # "text_limit"
      BY ClassesJudged, Verdicts DEF Due, Codes
    <3> QED BY <1>1, <2>2, <3>1, FailStep DEF Faults
  <2>3. CASE Fail(OCRFailure("storage_unavailable", TRUE), "time")
    BY <1>1, <2>3, RaiseStep DEF Codes, Faults
  <2> QED BY <2>1, <2>2, <2>3
<1> QED BY <1>2, <1>4, <1>5, <1>6, <1>7, <1>8, <1>9

LEMMA ExtractedStep == Extracted /\ Next => Extracted'
BY CopyStep, OpenStep, LayerStep, AppendStep, ConcludeStep, EngineStep, FaultStep DEF Next

LEMMA ExtractedStutter == Extracted /\ UNCHANGED vars => Extracted'
BY DEF vars, data, outcome, Extracted, TypeOK, SoundFile, Ended, Copied, Verified, Paged, Counting, IsPdf,
   ResultComplete, RetriedAsDue, RefusedNearLimit, AtLeast

LEMMA ExtractedCapped == Extracted => Capped
BY Numbers DEF Extracted, Copied, Counting, Capped

-----------------------------------------------------------------------------
(* Intake. *)

(* Nothing is extracted before a document is stored. *)
Waiting ==
  gate # "stored" =>
    /\ request \in Requests
    /\ pc = "fetch" /\ written = 0 /\ page = 0 /\ layer = 0 /\ space = 0 /\ joined = 0
    /\ total = 0 /\ fault = "none" /\ answer = "none" /\ ~retry

Buffered == buffered <= MaxBytes

(* What the layers that were passed have made sure of. *)
Passed ==
  /\ gate \in {"checked", "parsing"} => request.header \in {"given", "absent"}
  /\ gate = "checked" => buffered = 0 /\ (request.header = "given" => unread = {"fields", "file"})
  /\ gate = "parsing" => request.sender = "welcome"
  /\ gate = "parsing" /\ request.header = "given" =>
       /\ IF "file" \in unread THEN buffered <= request.size ELSE buffered = request.size
       /\ "fields" \notin unread => request.fields <= FieldLimit
       /\ unread = {} => request.parts = "few" /\ request.form = "sound"

Admitted ==
  /\ gate = "arrived" => unread = {"fields", "file"} /\ buffered = 0
  /\ gate = "answered" /\ reply = 201 => Good(request) /\ buffered = request.size

IInv ==
  /\ Extracted /\ ITypeOK /\ AnswerTrue
  /\ Waiting /\ Buffered /\ Passed /\ Admitted

LEMMA RequestType ==
  ASSUME NEW r \in Requests
  PROVE  /\ r.size \in Nat /\ r.size \in Sizes /\ r.fields \in Nat
         /\ r.signature \in Kinds \cup {"other"} /\ r.header \in {"given", "absent", "malformed"}
         /\ Length(r) \in Int
<1>1. /\ r.size \in Sizes /\ r.fields \in FieldSizes /\ r.signature \in Kinds \cup {"other"}
      /\ r.header \in {"given", "absent", "malformed"}
  BY DEF Requests
<1>2. Sizes \subseteq Nat /\ FieldSizes \subseteq Nat /\ Overhead \in Nat
  BY BoundsAssumption, FormAssumption
<1>3. r.size \in Nat /\ r.fields \in Nat
  BY <1>1, <1>2
<1> QED BY <1>1, <1>2, <1>3 DEF Length

LEMMA IntakeInit == IInit => IInv
<1> SUFFICES ASSUME IInit PROVE IInv
  OBVIOUS
<1>1. /\ Init /\ request \in Requests /\ gate = "arrived" /\ unread = {"fields", "file"}
      /\ buffered = 0 /\ reply = 0 /\ trouble = FALSE
  BY DEF IInit
<1>2. Buffered /\ AnswerTrue /\ Passed /\ Admitted
  BY <1>1, LimitsAssumption DEF Buffered, AnswerTrue, Passed, Admitted
<1>4. ITypeOK
  BY <1>1, ExtractedInit DEF Extracted, ITypeOK
<1>3. Waiting
  BY <1>1 DEF Waiting, Init
<1> QED BY <1>1, <1>2, <1>3, <1>4, ExtractedInit DEF IInv

(* The statuses of the exceptions that are raised. *)
LEMMA Statuses ==
  /\ StatusOf("ParseError") = 400 /\ StatusOf("ValidationError") = 400
  /\ StatusOf("NotAuthenticated") = 401 /\ StatusOf("Conflict") = 409
  /\ StatusOf("PayloadTooLarge") = 413 /\ StatusOf("RequestDataTooBig") = 413
  /\ StatusOf("UnsupportedMediaType") = 415 /\ StatusOf("Throttled") = 429
  /\ \A e \in {"SuspiciousOperation", "TypeError", "UnicodeEncodeError", "RecursionError", "Exception"} :
       StatusOf(e) = 500
  /\ \A e \in Dependency \cup {"ServiceUnavailable"} : StatusOf(e) = 503
BY DEF StatusOf, OwnStatus, Translated, Dependency

Under == {"arrived", "checked", "parsing"}

(* An answer ends the intake; it has to be true. *)
LEMMA AnswerStep ==
  ASSUME IInv, gate \in Under,
         NEW status \in {201, 400, 401, 409, 413, 415, 429, 500, 503},
         Answer(status), trouble' \in BOOLEAN,
         status \in {201, 409} => Good(request) /\ request.sender = "welcome",
         status = 201 => buffered = request.size,
         status = 413 => Oversized(request),
         status \in {400, 415} => ~Good(request),
         status \in {500, 503} => trouble' \/ (status = 500 /\ Baffling(request))
  PROVE  IInv'
<1>1. /\ reply' = status /\ gate' = "answered" /\ request \in Requests
      /\ UNCHANGED <<vars, request, unread, buffered>>
  BY DEF Answer, IInv, Waiting, Under
<1>2. Extracted'
  BY <1>1, ExtractedStutter DEF IInv
<1>3. ITypeOK' /\ Buffered' /\ Passed'
  BY <1>1, <1>2 DEF IInv, Extracted, ITypeOK, Buffered, Passed
<1>4. AnswerTrue' /\ Admitted'
  BY <1>1 DEF AnswerTrue, Admitted, Good, Oversized, Baffling, Length
<1>5. Waiting'
  BY <1>1 DEF IInv, Waiting, Under, vars, data, outcome
<1> QED BY <1>2, <1>3, <1>4, <1>5 DEF IInv

(* Failures of the service may strike at any time. *)
LEMMA BreakStep ==
  ASSUME IInv, gate \in Under, NEW e \in Dependency \cup {"ServiceUnavailable", "Exception"}, Break(e)
  PROVE  IInv'
<1>1. StatusOf(e) \in {500, 503} /\ Answer(StatusOf(e)) /\ trouble'
  BY Statuses DEF Break
<1> QED BY <1>1, AnswerStep

(* So may refusals that say nothing of the request. *)
LEMMA RaiseAnswers ==
  ASSUME IInv, NEW e, Raise(e)
  PROVE  Answer(StatusOf(e)) /\ trouble' \in BOOLEAN
BY DEF IInv, Raise, ITypeOK

(* The request goes on. *)
LEMMA ParseStep ==
  ASSUME IInv, gate \in Under, gate' \in {"checked", "parsing"},
         UNCHANGED <<vars, request, trouble, reply>>,
         unread' \subseteq {"fields", "file"}, buffered' \in Nat, buffered' <= MaxBytes, Passed'
  PROVE  IInv'
<1>1. Extracted' /\ Waiting'
  BY ExtractedStutter DEF IInv, Waiting, vars, data, outcome, Under
<1>2. ITypeOK' /\ Buffered' /\ AnswerTrue' /\ Admitted'
  BY <1>1 DEF IInv, Extracted, ITypeOK, Buffered, AnswerTrue, Admitted, Under
<1> QED BY <1>1, <1>2 DEF IInv

LEMMA CheckLengthStep == ASSUME IInv, CheckLength PROVE IInv'
<1>1. /\ gate = "arrived" /\ gate \in Under /\ request \in Requests /\ unread = {"fields", "file"}
      /\ buffered = 0 /\ MaxBytes \in Nat /\ trouble \in BOOLEAN
  BY LimitsAssumption DEF CheckLength, IInv, Waiting, Admitted, ITypeOK, Under
<1>2. CASE request.header = "malformed"
  <2>1. Answer(400) /\ ~Good(request) /\ trouble' \in BOOLEAN
    BY <1>1, <1>2 DEF CheckLength, Good
  <2> QED BY <1>1, <2>1, AnswerStep
<1>3. CASE request.header = "given" /\ Length(request) > MaxBytes + Slack
  <2>1. Answer(413) /\ Oversized(request) /\ trouble' \in BOOLEAN
    BY <1>1, <1>3 DEF CheckLength, Oversized
  <2> QED BY <1>1, <2>1, AnswerStep
<1>4. CASE /\ request.header # "malformed"
           /\ ~(request.header = "given" /\ Length(request) > MaxBytes + Slack)
  <2>1. /\ gate' = "checked" /\ UNCHANGED <<vars, request, buffered, trouble, reply>>
        /\ unread' = IF request.header = "given" THEN unread ELSE {}
    BY <1>4 DEF CheckLength
  <2>2. Passed'
    BY <1>1, <1>4, <2>1, RequestType DEF Passed
  <2> QED BY <1>1, <2>1, <2>2, ParseStep
<1> QED BY <1>2, <1>3, <1>4

LEMMA DoorStep ==
  ASSUME IInv, TurnAway \/ LetIn \/ Outage \/ Breakdown
  PROVE  IInv'
<1>1. gate \in {"checked", "parsing"} /\ gate \in Under
  BY DEF TurnAway, LetIn, Outage, Breakdown, Under
<1>2. CASE TurnAway
  <2>1. PICK e \in {"NotAuthenticated", "Throttled"} : Raise(e)
    BY <1>2 DEF TurnAway
  <2>2. StatusOf(e) \in {401, 429}
    BY Statuses
  <2> QED BY <1>1, <2>1, <2>2, RaiseAnswers, AnswerStep
<1>3. CASE LetIn
  <2>1. /\ gate = "checked" /\ request.sender = "welcome" /\ gate' = "parsing"
        /\ UNCHANGED <<vars, request, unread, buffered, trouble, reply>>
    BY <1>3 DEF LetIn
  <2>2. /\ request \in Requests /\ request.size \in Nat /\ buffered \in Nat /\ buffered <= MaxBytes
        /\ unread \subseteq {"fields", "file"} /\ Passed
    BY <2>1, RequestType DEF IInv, Waiting, ITypeOK, Buffered
  <2>3. Passed'
    BY <2>1, <2>2 DEF Passed
  <2> QED BY <1>1, <2>1, <2>2, <2>3, ParseStep
<1>4. CASE Outage
  BY <1>1, <1>4, BreakStep DEF Outage
<1>5. CASE Breakdown
  BY <1>1, <1>5, BreakStep DEF Breakdown
<1> QED BY <1>2, <1>3, <1>4, <1>5

(* The state in which the form is read, or has been. *)
LEMMA Parsing ==
  ASSUME IInv, gate = "parsing"
  PROVE  /\ request \in Requests /\ unread \subseteq {"fields", "file"}
         /\ buffered \in Nat /\ buffered <= MaxBytes /\ MaxBytes \in Nat
         /\ request.size \in Nat /\ request.header \in {"given", "absent"}
         /\ request.sender = "welcome" /\ Passed /\ gate \in Under
BY RequestType, LimitsAssumption DEF IInv, ITypeOK, Buffered, Waiting, Passed, Under

(* What makes the form unreadable. *)
LEMMA FormFails ==
  ASSUME IInv, WrongType \/ NoObject \/ Malformed \/ TooManyParts
  PROVE  IInv'
<1>1. gate = "parsing"
  BY DEF WrongType, NoObject, Malformed, TooManyParts, Whole, Readable
<1>2. CASE WrongType
  <2>1. Raise("UnsupportedMediaType") /\ ~Good(request)
    BY <1>2 DEF WrongType, Good
  <2> QED BY <1>1, <2>1, Statuses, RaiseAnswers, AnswerStep, Parsing
<1>3. CASE NoObject
  <2>1. PICK e \in {"TypeError", "ValidationError"} : Raise(e)
    BY <1>3 DEF NoObject
  <2>2. StatusOf(e) \in {400, 500} /\ ~Good(request) /\ Baffling(request)
    BY <1>3, Statuses DEF NoObject, Good, Baffling
  <2> QED BY <1>1, <2>1, <2>2, RaiseAnswers, AnswerStep, Parsing
<1>4. CASE Malformed
  <2>1. Raise("ParseError") /\ ~Good(request)
    BY <1>4 DEF Malformed, Good
  <2> QED BY <1>1, <2>1, Statuses, RaiseAnswers, AnswerStep, Parsing
<1>5. CASE TooManyParts
  <2>1. Raise("SuspiciousOperation") /\ Baffling(request)
    BY <1>5 DEF TooManyParts, Baffling
  <2> QED BY <1>1, <2>1, Statuses, RaiseAnswers, AnswerStep, Parsing
<1> QED BY <1>2, <1>3, <1>4, <1>5

LEMMA FormStep ==
  ASSUME IInv, ReceiveChunk \/ FileComplete \/ ReadFields
  PROVE  IInv'
<1>1. gate = "parsing" /\ unread # {}
  BY DEF ReceiveChunk, FileComplete, ReadFields, Readable
<1>2. ASSUME NEW part \in {"fields", "file"}, Read(part),
             part = "file" => "file" \in unread /\ buffered = request.size,
             part = "fields" => request.fields <= FieldLimit
      PROVE  IInv'
  <2>1. /\ unread' = unread \ {part}
        /\ (request.parts = "few" /\ request.form = "sound") \/ unread # {part}
        /\ UNCHANGED <<vars, request, gate, buffered, trouble, reply>>
    BY <1>2 DEF Read
  <2>2. /\ unread' = {} => request.parts = "few" /\ request.form = "sound"
        /\ "file" \in unread' => "file" \in unread
        /\ "file" \notin unread' => "file" \notin unread \/ part = "file"
        /\ "fields" \notin unread' => "fields" \notin unread \/ part = "fields"
    BY <1>1, <2>1
  <2>3. Passed'
    BY <1>1, <1>2, <2>1, <2>2, Parsing DEF Passed
  <2> QED BY <1>1, <2>1, <2>3, Parsing, ParseStep
<1>3. CASE ReceiveChunk
  <2>1. PICK n \in 1..Chunk :
          /\ n <= request.size - buffered /\ "file" \in unread
          /\ IF Accepts(n)
               THEN /\ buffered' = buffered + n
                    /\ UNCHANGED <<vars, request, gate, unread, trouble, reply>>
               ELSE Raise("PayloadTooLarge")
    BY <1>3 DEF ReceiveChunk
  <2>2. n \in Nat
    BY LimitsAssumption
  <2>3. CASE Accepts(n)
    <3>1. buffered' \in Nat /\ buffered' <= MaxBytes /\ buffered' <= request.size
      BY <1>1, <2>1, <2>2, <2>3, Parsing DEF Accepts
    <3>2. Passed'
      BY <1>1, <2>1, <2>3, <3>1, Parsing DEF Passed
    <3> QED BY <1>1, <2>1, <2>3, <3>1, <3>2, Parsing, ParseStep
  <2>4. CASE ~Accepts(n)
    <3>1. Raise("PayloadTooLarge")
      BY <2>1, <2>4
    <3>2. Oversized(request)
      BY <1>1, <2>1, <2>2, <2>4, Parsing DEF Accepts, Oversized
    <3> QED BY <1>1, <3>1, <3>2, Statuses, RaiseAnswers, AnswerStep, Parsing
  <2> QED BY <2>3, <2>4
<1>4. CASE FileComplete
  BY <1>2, <1>4 DEF FileComplete
<1>5. CASE ReadFields
  <2>1. CASE request.fields > FieldLimit
    <3>1. Raise("RequestDataTooBig") /\ Oversized(request)
      BY <1>5, <2>1 DEF ReadFields, Oversized
    <3> QED BY <1>1, <3>1, Statuses, RaiseAnswers, AnswerStep, Parsing
  <2>2. CASE ~(request.fields > FieldLimit)
    <3>1. Read("fields")
      BY <1>5, <2>2 DEF ReadFields
    <3>2. request.fields <= FieldLimit
      BY <1>1, <2>2, Parsing, RequestType, FormAssumption
    <3> QED BY <1>2, <3>1, <3>2
  <2> QED BY <2>1, <2>2
<1> QED BY <1>3, <1>4, <1>5

LEMMA JudgeStep ==
  ASSUME IInv, Unprocessable \/ Reject \/ Create
  PROVE  IInv'
<1>1. gate = "parsing" /\ unread = {}
  BY DEF Unprocessable, Reject, Create, Parsed
<1>2. CASE Unprocessable
  <2>1. PICK e \in {"UnicodeEncodeError", "RecursionError"} : Raise(e)
    BY <1>2 DEF Unprocessable
  <2>2. StatusOf(e) = 500 /\ Baffling(request)
    BY <1>2, Statuses DEF Unprocessable, Baffling
  <2> QED BY <1>1, <2>1, <2>2, RaiseAnswers, AnswerStep, Parsing
<1>3. request.header = "given" =>
        /\ buffered = request.size /\ request.fields <= FieldLimit
        /\ request.parts = "few" /\ request.form = "sound"
  BY <1>1, Parsing DEF Passed
<1>4. CASE Reject
  <2>1. Raise("ValidationError")
    BY <1>1, <1>4, Parsing DEF Reject, Refusal
  <2>2. ~Good(request)
    BY <1>1, <1>3, <1>4, Parsing DEF Reject, Valid, Present, FieldsKnown, FileValid, Good
  <2> QED BY <1>1, <2>1, <2>2, Statuses, RaiseAnswers, AnswerStep, Parsing
<1>5. CASE Create
  <2>1. Good(request) /\ buffered = request.size
    BY <1>1, <1>3, <1>5, Parsing DEF Create, Valid, Present, FileValid, Good
  <2>2. CASE Answer(201) /\ UNCHANGED trouble
    BY <1>1, <2>1, <2>2, AnswerStep, Parsing DEF IInv, ITypeOK
  <2>3. CASE Raise("Conflict")
    BY <1>1, <2>1, <2>3, Statuses, RaiseAnswers, AnswerStep, Parsing
  <2>4. CASE \E e \in {"OperationalError", "InterfaceError", "ServiceUnavailable"} : Break(e)
    BY <1>1, <2>4, BreakStep, Parsing DEF Dependency
  <2> QED BY <1>5, <2>2, <2>3, <2>4 DEF Create
<1> QED BY <1>2, <1>4, <1>5

LEMMA StoreStep == ASSUME IInv, Store PROVE IInv'
<1>1. /\ gate = "answered" /\ Good(request) /\ request \in Requests /\ buffered = request.size
  BY DEF IInv, Store, Admitted, Waiting
<1>2. request.signature \in Kinds /\ buffered \in Sizes \cap 1..MaxBytes
  BY <1>1, RequestType DEF Good
<1>3. file' \in Files /\ SoundFile(file')
  BY <1>2 DEF Store, Files
<1>4. /\ pc' = "fetch" /\ written' = 0 /\ page' = 0 /\ layer' = 0 /\ space' = 0 /\ joined' = 0
      /\ total' = 0 /\ fault' = "none" /\ answer' = "none" /\ ~retry' /\ retry' \in BOOLEAN
  BY <1>1 DEF IInv, Extracted, TypeOK, Waiting, Store, outcome
<1>5. TypeOK' /\ Ended' /\ SoundFile(file)'
  BY <1>3, <1>4 DEF TypeOK, Ended, SoundFile
<1>6. Copied' /\ Paged' /\ Counting' /\ ResultComplete' /\ RetriedAsDue' /\ RefusedNearLimit'
  BY <1>4, LimitsAssumption
  DEF Copied, Paged, Counting, ResultComplete, RetriedAsDue, RefusedNearLimit
<1>7. /\ gate' = "stored" /\ request' = Over /\ buffered' = 0 /\ UNCHANGED <<unread, trouble, reply>>
  BY DEF Store
<1>8. ITypeOK' /\ Buffered' /\ AnswerTrue' /\ Waiting' /\ Passed' /\ Admitted'
  BY <1>1, <1>5, <1>7, LimitsAssumption
  DEF IInv, ITypeOK, Buffered, AnswerTrue, Waiting, Passed, Admitted
<1> QED BY <1>5, <1>6, <1>8 DEF IInv, Extracted

LEMMA IntakeStutter == IInv /\ UNCHANGED <<vars, ivars>> => IInv'
<1> SUFFICES ASSUME IInv, UNCHANGED <<vars, ivars>> PROVE IInv'
  OBVIOUS
<1>1. Extracted' /\ TypeOK'
  BY ExtractedStutter DEF IInv, Extracted
<1> QED
  BY <1>1 DEF IInv, ivars, vars, data, outcome, ITypeOK, Buffered, AnswerTrue, Waiting, Passed,
     Admitted, Good, Oversized, Baffling, Length

LEMMA ExtractStep == ASSUME IInv, Extract PROVE IInv'
<1>1. gate = "stored" /\ gate' = "stored" /\ UNCHANGED ivars /\ Next
  BY DEF Extract, ivars
<1>2. Extracted' /\ TypeOK'
  BY <1>1, ExtractedStep DEF IInv, Extracted
<1> QED
  BY <1>1, <1>2 DEF IInv, ivars, ITypeOK, Buffered, AnswerTrue, Waiting, Passed, Admitted

LEMMA Inductive == ISpec => []IInv
<1>1. IInv /\ [INext]_<<vars, ivars>> => IInv'
  BY CheckLengthStep, DoorStep, FormFails, FormStep, JudgeStep, StoreStep, ExtractStep, IntakeStutter DEF INext
<1> QED BY <1>1, IntakeInit, PTL DEF ISpec

-----------------------------------------------------------------------------
(* The theorems.                                                           *)

(* Type correctness: request, gate, counters, status and the variables of  *)
(* the attempt keep their types, every exception that is raised has one of *)
(* the documented statuses, and a request has a status exactly when it is  *)
(* no longer under way.                                                    *)
THEOREM IntakeTypes == ISpec => []ITypeOK
<1>1. IInv => ITypeOK
  BY DEF IInv
<1> QED BY <1>1, Inductive, PTL

(* The layers together admit only good uploads of welcome senders; 413,    *)
(* 400 and 415 are true of the request; and a 500 or 503 is due to trouble *)
(* in the service, but for a 500 that answers a JSON value which is no     *)
(* object, too many parts, or tags or metadata that cannot be processed.   *)
THEOREM AnswersTrue == ISpec => []AnswerTrue
<1>1. IInv => AnswerTrue
  BY DEF IInv
<1> QED BY <1>1, Inductive, PTL

(* What intake stores is what extraction assumes of a document. *)
THEOREM AdmittedAsAssumed == ISpec => []StartsAsAssumed
<1>1. IInv => StartsAsAssumed
  BY DEF IInv, Extracted, TypeOK, StartsAsAssumed, Starts
<1> QED BY <1>1, Inductive, PTL

(* A result is the whole text of the uploaded bytes, within the limits. *)
THEOREM ResultsComplete == ISpec => []ResultComplete
<1>1. IInv => ResultComplete
  BY DEF IInv, Extracted
<1> QED BY <1>1, Inductive, PTL

(* Workspace and text stay within their limits at every step. *)
THEOREM StaysCapped == ISpec => []Capped
<1>1. IInv => Capped
  BY ExtractedCapped DEF IInv
<1> QED BY <1>1, Inductive, PTL

(* Through all except clauses: what is due to the store or to time may be  *)
(* retried, and so may what is due to the machine while a PDF is read;     *)
(* wrong bytes, limits and a missing or failing engine are final.          *)
THEOREM RetriesDue == ISpec => []RetriedAsDue
<1>1. IInv => RetriedAsDue
  BY DEF IInv, Extracted
<1> QED BY <1>1, Inductive, PTL

(* The running count is never more than two characters ahead of the text,  *)
(* so no text is refused that is further below the limit, unless white     *)
(* space around the page at which it is refused makes up for it.           *)
THEOREM RefusalsNearLimit == ISpec => []RefusedNearLimit
<1>1. IInv => RefusedNearLimit
  BY DEF IInv, Extracted
<1> QED BY <1>1, Inductive, PTL
=============================================================================
