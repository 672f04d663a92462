------------------------------ MODULE Extraction ------------------------------
(***************************************************************************)
(* Ingestion of approved documents: inspect the file, authorize it against *)
(* the frozen manifest, parse it in a reused child process with a          *)
(* fallback parser, ingest what comes back. Each of the three steps opens  *)
(* the file anew, and its author may replace it between two of them; the   *)
(* child dies, stalls or outgrows its memory, and answers late.            *)
(***************************************************************************)
EXTENDS Naturals, Sequences, RecentlyUsed

CONSTANTS
    Sources,     \* approved files
    FormatOf,    \* FormatOf[s]: "pdf", "html" or "ooxml"
    OcrReceipts, \* human approvals of OCR in the manifest: source, version, language
    Rewrites,    \* bound: replacements of files
    MaxExtractions \* bound: jobs

ASSUME ExtractionConstants ==
    /\ {Rewrites, MaxExtractions} \subseteq Nat
    /\ \A s \in Sources : FormatOf[s] \in {"pdf", "html", "ooxml"}

VARIABLES
    files,    \* files[s]: what the file holds now
    bundle,   \* the offline model bundle: "approved" or "drifted"
    job,      \* the worker's job
    child,    \* the parser process: alive, its request, its answers, its converters
    ingested, \* what was handed to the canonical ingestion
    done      \* jobs ended

extractionVars == <<files, bundle, job, child, ingested, done>>

-----------------------------------------------------------------------------
(* Inspection: what a file shows, as the set of refusals it would lead to. *)

Plain == [trait |-> "plain", injection |-> FALSE, version |-> 0]

PdfTraits == {"encrypted", "no_pages", "unreadable"}
HtmlTraits == {"undecodable"}
OoxmlTraits == {"not_a_zip", "unsafe_members", "no_package", "other_package", "broken", "text_encrypted",
                "media_encrypted", "executable", "external_relationship", "no_page_count"}
CommonTraits == {"plain", "secret", "other_media", "large", "long", "heavy"}

Traits(format) == CommonTraits \cup
    [pdf |-> PdfTraits, html |-> HtmlTraits, ooxml |-> OoxmlTraits][format]

\* The two scans of the text: a secret is a finding, an injection only a mark.
Scanned(content) == IF content.trait = "secret" THEN {"secret"} ELSE {}

\* Without text the scans are incomplete.
FailedInspection(extra) == {"malformed", "incomplete"} \cup extra

InspectPdf(content) ==
    CASE content.trait = "encrypted" -> {"encrypted", "incomplete"}
      [] content.trait \in {"no_pages", "unreadable"} -> FailedInspection({})
      [] OTHER -> Scanned(content)

InspectHtml(content) ==
    IF content.trait = "undecodable" THEN FailedInspection({}) ELSE Scanned(content)

\* A member that cannot be decrypted raises where its text is read; encryption
\* that only concerns other members is reported as such.
InspectOoxml(content) ==
    CASE content.trait \in {"not_a_zip", "text_encrypted"} -> FailedInspection({})
      [] content.trait \in {"unsafe_members", "no_package", "other_package", "broken"} -> FailedInspection({"archive"})
      [] content.trait = "media_encrypted" -> {"encrypted", "incomplete"}
      [] content.trait = "executable" -> {"executable"} \cup Scanned(content)
      [] content.trait \in {"external_relationship", "no_page_count"} -> {"malformed"} \cup Scanned(content)
      [] OTHER -> Scanned(content)

\* The estimate of time and memory, and the detected media type.
Estimated(content) ==
    (IF content.trait = "heavy" THEN {"budget"} ELSE {}) \cup
    (IF content.trait = "long" THEN {"pages"} ELSE {}) \cup
    (IF content.trait = "other_media" THEN {"media"} ELSE {})

Inspected(s) ==
    LET content == files[s] IN
    Estimated(content) \cup (CASE FormatOf[s] = "pdf" -> InspectPdf(content)
                               [] FormatOf[s] = "html" -> InspectHtml(content)
                               [] OTHER -> InspectOoxml(content))

-----------------------------------------------------------------------------
(* Preflight.                                                              *)

PathFlaws == {"url", "outside", "symlink", "not_a_file", "extension"}

NoOcr == "none"

\* Mutant: text that could not be scanned is no reason to refuse.
RefusalsOfScanned == PathFlaws \cup {"archive", "encrypted", "executable", "media", "secret",
                                     "bytes", "pages", "budget"}

Refusals == PathFlaws \cup {"archive", "encrypted", "executable", "media", "incomplete", "secret",
                            "malformed", "bytes", "pages", "budget"}

\* A receipt of the manifest names this content, these languages.
OcrApproved(s, checksum, language) ==
    language = NoOcr \/ [source |-> s, version |-> checksum, language |-> language] \in OcrReceipts

Refused(findings) == findings \cap Refusals # {}

\* Size and checksum are of the file as it is now, the other findings of the
\* file as it was inspected.
Authorized ==
    /\ ~ job.refused
    /\ ~ Refused(IF files[job.source].trait = "large" THEN {"bytes"} ELSE {})
    /\ OcrApproved(job.source, files[job.source].version, job.ocr)

-----------------------------------------------------------------------------
(* The worker.                                                             *)

NoRequest == [number |-> 0]
NoJob0 == [at |-> "idle", number |-> 0]
DeadChild == [alive |-> FALSE, request |-> NoRequest, answers |-> <<>>, converters |-> <<>>]

ExtractionInit ==
    /\ files = [s \in Sources |-> Plain]
    /\ bundle = "approved"
    /\ job = NoJob0
    /\ child = DeadChild
    /\ ingested = {} /\ done = 0

Ended == job' = NoJob0 /\ done' = done + 1

\* The approved file is replaced; a job under way may have seen the old one.
Rewrite(s) ==
    /\ \A t \in Sources : files[t].version < Rewrites
    /\ \E trait \in Traits(FormatOf[s]), injection \in BOOLEAN :
         files' = [files EXCEPT ![s] = [trait |-> trait, injection |-> injection, version |-> @.version + 1]]
    /\ job' = IF job.at # "idle" /\ job.source = s THEN [job EXCEPT !.disturbed = TRUE] ELSE job
    /\ UNCHANGED <<bundle, child, ingested, done>>

BundleDrifts ==
    /\ bundle = "approved" /\ bundle' = "drifted"
    /\ UNCHANGED <<files, job, child, ingested, done>>

\* rag.extract_document: the file is inspected first.
Inspect ==
    /\ job.at = "idle" /\ done < MaxExtractions
    /\ \E s \in Sources, ocr \in {NoOcr, "pl", "en"} :
         \E flaws \in {{}} \cup {{f} : f \in PathFlaws} :
            job' = [at |-> "inspected", number |-> done + 1, source |-> s, ocr |-> ocr,
                    refused |-> Refused(flaws \cup Inspected(s)), injection |-> files[s].injection,
                    checksum |-> 0, disturbed |-> FALSE]
    /\ UNCHANGED <<files, bundle, child, ingested, done>>

\* authorize; then _ensure_child and the request on the pipe.
Authorize ==
    /\ job.at = "inspected"
    /\ IF Authorized
       THEN LET approved == [job EXCEPT !.at = "sent", !.checksum = files[job.source].version] IN
            /\ job' = approved
            /\ child' = [(IF child.alive THEN child ELSE [DeadChild EXCEPT !.alive = TRUE])
                         EXCEPT !.request = [number |-> job.number, source |-> job.source, ocr |-> job.ocr]]
            /\ UNCHANGED done
       ELSE Ended /\ UNCHANGED child
    /\ UNCHANGED <<files, bundle, ingested>>

\* _stop_child: the pipe goes with the process.
StoppedChild == DeadChild

\* The deadline passes, the memory limit is exceeded, or the child is gone.
\* Mutant: the child is left to finish.
GiveUpWaiting ==
    /\ job.at = "sent"
    /\ Ended
    /\ UNCHANGED <<files, bundle, child, ingested>>

GiveUp ==
    /\ job.at = "sent"
    /\ child' = StoppedChild
    /\ Ended
    /\ UNCHANGED <<files, bundle, ingested>>

\* What the parser's answer says of itself.
Document(answer) ==
    [for |-> job.number, of |-> answer.number, source |-> job.source, checksum |-> job.checksum,
     parsed |-> answer.source, text |-> answer.text, injection |-> job.injection,
     asked |-> job.ocr, ocr |-> answer.ocr, claims |-> answer.claims, disturbed |-> job.disturbed,
     trait |-> files[job.source].trait, found |-> files[job.source].injection]

\* A rejection for resources, or a peak of memory, also ends the child.
Receive ==
    /\ job.at = "sent" /\ child.answers # <<>>
    /\ LET answer == Head(child.answers)
           next == [child EXCEPT !.answers = Tail(@)] IN
       /\ child' = IF answer.status \in {"memory", "budget"} THEN StoppedChild ELSE next
       /\ ingested' = IF answer.status = "ok" THEN ingested \cup {Document(answer)} ELSE ingested
    /\ Ended
    /\ UNCHANGED <<files, bundle>>

\* close, when the worker ends: between two jobs.
CloseChild ==
    /\ job.at = "idle" /\ child.alive
    /\ child' = StoppedChild
    /\ UNCHANGED <<files, bundle, job, ingested, done>>

-----------------------------------------------------------------------------
(* The child process.                                                      *)

\* Mutant: one converter for all.
SharedKey(request) == NoOcr

\* The wall time is one for all requests; what a converter does beside layout
\* is the OCR it was built for.
ConverterKey(request) == request.ocr

\* The last four converters are kept, the last used last. A new one needs the
\* verified bundle.
Cached(request) == {i \in DOMAIN child.converters : child.converters[i].key = ConverterKey(request)}
Converter(request) ==
    IF Cached(request) # {} THEN child.converters[CHOOSE i \in Cached(request) : TRUE]
    ELSE [key |-> ConverterKey(request), ocr |-> request.ocr]
Remembered(request) ==
    Limited(Append(Dropped(child.converters, Cached(request)), Converter(request)), 4)

\* The primary parser; unsupported layout and too little text go on to the
\* fallback, which reads text only and never performs OCR.
PrimaryOutcomes == {"ok", "unsupported", "short", "budget", "memory", "failed"}
FallbackOutcomes == {"ok", "short", "budget", "memory", "failed"}

Answer(status, extractor) ==
    LET r == child.request IN
    [number |-> r.number, status |-> status, source |-> r.source, text |-> files[r.source].version,
     ocr |-> IF extractor = "docling" THEN Converter(r).ocr ELSE NoOcr,
     claims |-> IF extractor = "docling" THEN r.ocr ELSE NoOcr]

Answers(primary, fallback) ==
    IF bundle = "drifted" /\ Cached(child.request) = {} THEN Answer("failed", "docling")
    ELSE IF primary \in {"unsupported", "short"} THEN Answer(fallback, "unstructured")
    ELSE Answer(primary, "docling")

PossibleAnswers ==
    {Answers(primary, fallback) : primary \in PrimaryOutcomes, fallback \in FallbackOutcomes}

Parse ==
    /\ child.alive /\ child.request # NoRequest
    /\ \E answer \in PossibleAnswers :
         child' = [child EXCEPT !.request = NoRequest,
                     !.answers = Append(@, answer),
                     !.converters = IF bundle = "drifted" /\ Cached(child.request) = {}
                                    THEN @ ELSE Remembered(child.request)]
    /\ UNCHANGED <<files, bundle, job, ingested, done>>

ChildDies ==
    /\ child.alive
    /\ child' = [child EXCEPT !.alive = FALSE, !.request = NoRequest, !.converters = <<>>]
    /\ UNCHANGED <<files, bundle, job, ingested, done>>

ExtractionNext ==
    \/ \E s \in Sources : Rewrite(s)
    \/ BundleDrifts
    \/ Inspect \/ Authorize \/ GiveUp \/ Receive \/ CloseChild
    \/ Parse \/ ChildDies

ExtractionSpec == ExtractionInit /\ [][ExtractionNext]_extractionVars

-----------------------------------------------------------------------------
ExtractionTypeOK ==
    /\ \A s \in Sources : files[s].trait \in Traits(FormatOf[s]) /\ files[s].version \in 0 .. Rewrites
    /\ bundle \in {"approved", "drifted"}
    /\ job.at \in {"idle", "inspected", "sent"} /\ done \in 0 .. MaxExtractions
    /\ Len(child.converters) <= 4

\* What is ingested is what was asked for: the parser's answer to this request
\* and not a late one to another; OCR that was performed is the OCR a human
\* approved for this content, and is owned up to; and a file that was not
\* replaced during its job was searched before it was parsed, and carries the
\* mark and the checksum of the text that is stored.
IngestsWhatWasApproved ==
    \A d \in ingested :
        /\ d.of = d.for /\ d.parsed = d.source
        /\ d.ocr \in {NoOcr, d.asked} /\ d.claims = d.ocr
        /\ OcrApproved(d.source, d.checksum, d.ocr)
        /\ ~ d.disturbed => d.text = d.checksum /\ d.trait = "plain" /\ d.injection = d.found
=============================================================================
