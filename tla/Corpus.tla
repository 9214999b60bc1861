----------------------------------- MODULE Corpus -----------------------------------
(***************************************************************************)
(* One slot of the real-document corpus: the scripts that download its PDF *)
(* (C1), derive its golden file from several runs of the pipeline (C2) and *)
(* judge a run against it (C4).  They share the PDF on disk, the manifest  *)
(* and the golden file; each reads the manifest when it starts, and may    *)
(* die at any moment.                                                      *)
(*                                                                         *)
(* The PDF behind the URL is replaced by newer ones; a version stands for  *)
(* its bytes and its checksum, 0 for none.  C1 may overlap the others; C2  *)
(* and C4, which pay for API calls, are run one at a time, and so is each  *)
(* script.                                                                 *)
(***************************************************************************)
EXTENDS Golden

CONSTANTS
    MaxVersion, \* bound on the versions of the PDF
    MaxSchema,  \* bound on the versions of the golden file's format
    Junk,       \* the versions that are no PDF
    Results     \* what a run of the pipeline may come to

ASSUME MaxVersionAssumption == MaxVersion \in Nat \ {0}
ASSUME MaxSchemaAssumption == MaxSchema \in Nat \ {0}
ASSUME JunkAssumption == Junk \subseteq 1 .. MaxVersion
ASSUME ResultsAssumption ==
    \A r \in Results: r.count \in Nat /\ r.rows \in Nat /\ r.title \in DOMAIN Norm \cup {None}

VARIABLES
    docType,   \* the type of the slot
    schema,    \* CURRENT_SCHEMA_VERSION of the format of golden files
    served,    \* the version behind the URL
    file,      \* the version on disk
    manifest,  \* pdf_sha256 of the slot's entry
    golden,    \* the golden file; of is history: the versions its runs read
    download,  \* C1: its copy of the entry's checksum
    generate,  \* C2: its copy of the checksum, the runs it has made; of is history
    evaluate   \* C4: the checksum it has compared, the run it judges; read is history:
               \* the version that run has read

vars == <<docType, schema, served, file, manifest, golden, download, generate, evaluate>>

Versions == 1 .. MaxVersion
NoDerived ==
    [schema_version |-> 0, min_blocks |-> 0, required |-> None, deferred |-> None,
     headings |-> {}, min_rows |-> 0]
NoGolden == [exists |-> FALSE, pdf_sha256 |-> 0, of |-> {}, derived |-> NoDerived]
NoDownload == [pc |-> "idle", entry |-> 0, force |-> FALSE, failed |-> FALSE]
NoGenerate ==
    [pc |-> "idle", entry |-> 0, force |-> FALSE, tried |-> 0, of |-> {}, passed |-> 0, runs |-> <<>>]
NoEvaluate == [pc |-> "idle", sha |-> 0, read |-> 0, run |-> <<>>]

Downloads ==
    [pc: {"idle", "entry", "write"}, entry: 0 .. MaxVersion, force: BOOLEAN, failed: BOOLEAN]
Generates ==
    [pc: {"idle", "slot", "runs", "written"}, entry: 0 .. MaxVersion, force: BOOLEAN,
     tried: 0 .. NRuns, of: SUBSET (Versions \ Junk), passed: 0 .. NRuns, runs: Seq(Results)]
Evaluates ==
    [pc: {"idle", "checked", "judged"}, sha: 0 .. MaxVersion, read: 0 .. MaxVersion,
     run: Results \cup {<<>>}]

GoldenOK ==
    /\ golden.pdf_sha256 \in 0 .. MaxVersion
    /\ golden.of \subseteq Versions \ Junk
    /\ golden.exists <=> golden.of # {}
GenerateOK ==
    /\ generate \in Generates
    /\ generate.passed <= generate.tried
    /\ generate.of = {} <=> generate.passed = 0

\* A golden file is stamped with a version or none; C2 makes at most n_runs runs, and
\* those that passed have read some version of the PDF.
TypeOK ==
    /\ schema \in 1 .. MaxSchema
    /\ served \in Versions /\ file \in 0 .. MaxVersion /\ manifest \in 0 .. MaxVersion
    /\ GoldenOK /\ download \in Downloads /\ GenerateOK /\ evaluate \in Evaluates

Init ==
    /\ docType \in {"scientific_paper", "invoice"}
    /\ schema = 1 /\ served = 1 /\ file = 0 /\ manifest = 0
    /\ golden = NoGolden
    /\ download = NoDownload /\ generate = NoGenerate /\ evaluate = NoEvaluate

---------------------------------------------------------------------------
(* The world *)

Publish ==
    /\ served < MaxVersion
    /\ served' = served + 1
    /\ UNCHANGED <<docType, schema, file, manifest, golden, download, generate, evaluate>>

\* The format of golden files has changed; C2 imports its version when it starts.
BumpSchema ==
    /\ schema < MaxSchema /\ generate = NoGenerate
    /\ schema' = schema + 1
    /\ UNCHANGED <<docType, served, file, manifest, golden, download, generate, evaluate>>

\* A new clone: the PDFs are not committed, the manifest and the golden files are.
Clone ==
    /\ download = NoDownload /\ generate = NoGenerate /\ evaluate = NoEvaluate
    /\ file' = 0
    /\ UNCHANGED <<docType, schema, served, manifest, golden, download, generate, evaluate>>

\* A script is killed; what it had renamed into place stays.
Crash ==
    /\ \/ download' = NoDownload /\ UNCHANGED <<generate, evaluate>>
       \/ generate' = NoGenerate /\ UNCHANGED <<download, evaluate>>
       \/ evaluate' = NoEvaluate /\ UNCHANGED <<download, generate>>
    /\ UNCHANGED <<docType, schema, served, file, manifest, golden>>

---------------------------------------------------------------------------
(* C1 *)

DownloadStart(force) ==
    /\ download.pc = "idle"
    /\ download' = [pc |-> "entry", entry |-> manifest, force |-> force, failed |-> FALSE]
    /\ UNCHANGED <<docType, schema, served, file, manifest, golden, generate, evaluate>>

Fetched(entry, failed) ==
    download' = [download EXCEPT !.pc = "write", !.entry = entry, !.failed = failed]

\* Mutant: a file that is there is not compared with the recorded checksum.
KeptUnread == file # 0 /\ ~download.force
\* The file that is there is good enough, or its checksum is recorded for the first time.
Kept == file # 0 /\ ~download.force /\ download.entry \in {0, file}

DownloadKeep ==
    /\ download.pc = "entry" /\ Kept
    /\ Fetched(IF download.entry = 0 THEN file ELSE download.entry, FALSE)
    /\ UNCHANGED <<docType, schema, served, file, manifest, golden, generate, evaluate>>

\* _download renames a complete file into place.
DownloadFetch ==
    /\ download.pc = "entry" /\ ~Kept
    /\ file' = served
    /\ Fetched(served, FALSE)
    /\ UNCHANGED <<docType, schema, served, manifest, golden, generate, evaluate>>

\* Neither URL answers: the entry stays as it is.
DownloadFail ==
    /\ download.pc = "entry" /\ ~Kept
    /\ Fetched(download.entry, TRUE)
    /\ UNCHANGED <<docType, schema, served, file, manifest, golden, generate, evaluate>>

\* The manifest is written once, after the last slot.
DownloadWrite ==
    /\ download.pc = "write"
    /\ manifest' = download.entry
    /\ download' = NoDownload
    /\ UNCHANGED <<docType, schema, served, file, golden, generate, evaluate>>

---------------------------------------------------------------------------
(* C2 *)

GenerateStart(force) ==
    /\ generate.pc = "idle" /\ evaluate.pc = "idle"
    /\ generate' = [NoGenerate EXCEPT !.pc = "slot", !.entry = manifest, !.force = force]
    /\ UNCHANGED <<docType, schema, served, file, manifest, golden, download, evaluate>>

Readable == file # 0 /\ file \notin Junk
UpToDate ==
    golden.exists /\ ~generate.force /\ generate.entry # 0 /\ golden.pdf_sha256 = generate.entry

\* No PDF, or no reason to pay for a new golden file.
GenerateSkip ==
    /\ generate.pc = "slot" /\ (~Readable \/ UpToDate)
    /\ generate' = NoGenerate
    /\ UNCHANGED <<docType, schema, served, file, manifest, golden, download, evaluate>>

GenerateBegin ==
    /\ generate.pc = "slot" /\ Readable /\ ~UpToDate
    /\ generate' = [generate EXCEPT !.pc = "runs"]
    /\ UNCHANGED <<docType, schema, served, file, manifest, golden, download, evaluate>>

\* Mutant: one run too many.
RunsLeftInclusive == generate.tried <= NRuns
RunsLeft == generate.tried < NRuns

\* A run of the pipeline; what it comes to is chosen when it is looked at.
GenerateRun ==
    /\ generate.pc = "runs" /\ RunsLeft /\ Readable
    /\ generate' = [generate EXCEPT !.tried = @ + 1, !.passed = @ + 1, !.of = @ \cup {file}]
    /\ UNCHANGED <<docType, schema, served, file, manifest, golden, download, evaluate>>

\* A run that raises is logged, and the next one starts.
GenerateRunRaises ==
    /\ generate.pc = "runs" /\ RunsLeft
    /\ generate' = [generate EXCEPT !.tried = @ + 1]
    /\ UNCHANGED <<docType, schema, served, file, manifest, golden, download, evaluate>>

GenerateTooFew ==
    /\ generate.pc = "runs" /\ ~RunsLeft /\ generate.passed < MinSuccesses
    /\ generate' = NoGenerate
    /\ UNCHANGED <<docType, schema, served, file, manifest, golden, download, evaluate>>

\* Mutant: the checksum is read when the golden file is written.
StampLate == manifest
Stamp == generate.entry

GenerateWrite ==
    /\ generate.pc = "runs" /\ ~RunsLeft /\ generate.passed >= MinSuccesses
    /\ \E runs \in [1 .. generate.passed -> Results]:
          /\ golden' = [exists |-> TRUE, pdf_sha256 |-> Stamp, of |-> generate.of,
                        derived |-> Derive(docType, schema, runs)]
          /\ generate' = [NoGenerate EXCEPT !.pc = "written", !.runs = runs]
    /\ UNCHANGED <<docType, schema, served, file, manifest, download, evaluate>>

GenerateEnd ==
    /\ generate.pc = "written"
    /\ generate' = NoGenerate
    /\ UNCHANGED <<docType, schema, served, file, manifest, golden, download, evaluate>>

---------------------------------------------------------------------------
(* C4: without a golden file or a PDF the slot is skipped *)

EvaluateCheck ==
    /\ evaluate.pc = "idle" /\ generate.pc = "idle"
    /\ golden.exists /\ file # 0
    /\ evaluate' = [NoEvaluate EXCEPT !.pc = "checked", !.sha = file]
    /\ UNCHANGED <<docType, schema, served, file, manifest, golden, download, generate>>

\* The pipeline opens the PDF again, which C1 may have replaced since.
EvaluateRun ==
    /\ evaluate.pc = "checked" /\ Readable
    /\ \E run \in Results:
          evaluate' = [evaluate EXCEPT !.pc = "judged", !.read = file, !.run = run]
    /\ UNCHANGED <<docType, schema, served, file, manifest, golden, download, generate>>

\* The run raises, which ends the script without a report; or the report is written.
EvaluateEnd ==
    /\ evaluate.pc \in {"checked", "judged"}
    /\ evaluate' = NoEvaluate
    /\ UNCHANGED <<docType, schema, served, file, manifest, golden, download, generate>>

\* Mutant: a golden file without a checksum of this PDF is used all the same.
NeverMismatched == FALSE
Mismatched == golden.pdf_sha256 # 0 /\ evaluate.sha # golden.pdf_sha256

SlotVerdict == IF Mismatched THEN "FAIL" ELSE Verdict(golden.derived, evaluate.run)

---------------------------------------------------------------------------
Next ==
    \/ Publish \/ BumpSchema \/ Clone \/ Crash
    \/ \E force \in BOOLEAN: DownloadStart(force) \/ GenerateStart(force)
    \/ DownloadKeep \/ DownloadFetch \/ DownloadFail \/ DownloadWrite
    \/ GenerateSkip \/ GenerateBegin \/ GenerateRun \/ GenerateRunRaises
    \/ GenerateTooFew \/ GenerateWrite \/ GenerateEnd
    \/ EvaluateCheck \/ EvaluateRun \/ EvaluateEnd

Spec == Init /\ [][Next]_vars

---------------------------------------------------------------------------
(* Properties *)

\* A golden file whose checksum is that of the PDF on disk was derived from it and from
\* nothing else, wherever C1 and C2 were killed or overlapped: C2 may skip it
\* (_process_slot "golden up-to-date").
GoldenIsOfItsPdf ==
    golden.exists /\ file # 0 /\ golden.pdf_sha256 = file => golden.of = {file}

\* A run that C4 accepts by a golden file with a checksum has read the version that file
\* was derived from, and no other, if the PDF whose checksum C4 compared is still on disk
\* after the run (_evaluate_slot sha256).
VerdictIsOfItsPdf ==
    evaluate.pc = "judged" /\ SlotVerdict # "FAIL" /\ golden.pdf_sha256 # 0 =>
        (file = evaluate.sha => golden.of = {evaluate.read})

\* The golden file accepts the runs it was derived from, if every fact it requires was
\* seen in all of them (--runs 3 and 4): its floor never exceeds a run's own block count
\* (_derive_golden "Clamp to 95% of the minimum").
GoldenAcceptsItsRuns ==
    generate.pc = "written" /\ RequiredThreshold = NRuns =>
        \A run \in ToSet(generate.runs):
            run.sound /\ run.count > 0 /\ run.rows # 1 => TestPasses(schema, golden.derived, run)

\* A download that does not fail leaves the checksum of the PDF on disk in the manifest,
\* also after one that died between the two (_fetch_entry "checksum mismatch").
ManifestCatchesUp ==
    [][DownloadWrite /\ ~download.failed => manifest' = file]_vars
=================================================================================
