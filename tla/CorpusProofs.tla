------------------------------- MODULE CorpusProofs -------------------------------
(***************************************************************************)
(* Theorems about Corpus for any number of versions and of runs.  The PDF  *)
(* behind the URL is only ever replaced by a newer one, and every checksum *)
(* the scripts hold is that of a PDF that was on disk before: what C2      *)
(* stamps a golden file with is at most as new as what its runs read.      *)
(***************************************************************************)
EXTENDS Corpus, RankingProofs

\* Nothing is newer than what the URL serves.
NoneNewer ==
    /\ file <= served /\ manifest <= served
    /\ download.entry <= served /\ generate.entry <= served /\ golden.pdf_sha256 <= served
    /\ \A v \in generate.of \cup golden.of: v <= served

\* Nothing is newer than the PDF on disk, if there is one.
DiskNewest ==
    file # 0 =>
        /\ manifest <= file
        /\ download.entry <= file /\ generate.entry <= file /\ golden.pdf_sha256 <= file
        /\ \A v \in generate.of \cup golden.of: v <= file

\* A golden file, also one in the making, is stamped before its runs read the PDF.
StampedBefore ==
    /\ \A v \in generate.of: generate.entry <= v
    /\ \A v \in golden.of: golden.pdf_sha256 <= v

\* C4 has compared the checksum of a PDF no older than the runs of the golden file,
\* which C2 leaves alone meanwhile, and its run has read that PDF or a newer one.
EvaluatorInv ==
    evaluate.pc # "idle" =>
        /\ generate.pc = "idle"
        /\ golden.exists
        /\ \A v \in golden.of: v <= evaluate.sha
        /\ evaluate.sha <= file
        /\ evaluate.pc = "judged" => evaluate.sha <= evaluate.read /\ evaluate.read <= file

\* C1 is about to write the checksum of the PDF on disk.
DownloadInv ==
    download.pc = "write" /\ ~download.failed => download.entry = file

IInv ==
    TypeOK /\ NoneNewer /\ DiskNewest /\ StampedBefore /\ EvaluatorInv /\ DownloadInv

USE MaxVersionAssumption, MaxSchemaAssumption, JunkAssumption, NRunsAssumption

\* What the versions are, without the records they stand in.
Numbers ==
    /\ served \in Nat /\ file \in Nat /\ manifest \in Nat
    /\ download.entry \in Nat /\ generate.entry \in Nat /\ golden.pdf_sha256 \in Nat
    /\ evaluate.sha \in Nat /\ evaluate.read \in Nat
    /\ generate.of \subseteq Nat /\ golden.of \subseteq Nat

LEMMA TypeNumbers == TypeOK => Numbers
<1> SUFFICES ASSUME TypeOK PROVE Numbers
  OBVIOUS
<1>1. served \in Nat /\ file \in Nat /\ manifest \in Nat
  BY DEF TypeOK, Versions
<1>2. golden.pdf_sha256 \in Nat /\ golden.of \subseteq Nat
  BY DEF TypeOK, GoldenOK, Versions
<1>3. download.entry \in Nat
  BY DEF TypeOK, Downloads
<1>4. generate.entry \in Nat /\ generate.of \subseteq Nat
  BY DEF TypeOK, GenerateOK, Generates, Versions
<1>5. evaluate.sha \in Nat /\ evaluate.read \in Nat
  BY DEF TypeOK, Evaluates
<1> QED BY <1>1, <1>2, <1>3, <1>4, <1>5 DEF Numbers

LEMMA Nothing ==
    /\ NoDownload \in Downloads
    /\ NoGenerate \in Generates
    /\ NoEvaluate \in Evaluates
<1>1. NoDownload \in Downloads
  BY DEF NoDownload, Downloads
<1>2. NoGenerate \in Generates
  BY DEF NoGenerate, Generates
<1>3. NoEvaluate \in Evaluates
  BY DEF NoEvaluate, Evaluates
<1> QED BY <1>1, <1>2, <1>3

LEMMA InitIInv == Init => IInv
<1> SUFFICES ASSUME Init PROVE IInv
  OBVIOUS
<1>1. TypeOK
  BY Nothing DEF Init, TypeOK, GoldenOK, GenerateOK, NoGolden, NoGenerate, Versions
<1>2. NoneNewer /\ DiskNewest /\ StampedBefore
  BY DEF Init, NoneNewer, DiskNewest, StampedBefore, NoGolden, NoDownload, NoGenerate
<1>3. EvaluatorInv /\ DownloadInv
  BY DEF Init, EvaluatorInv, DownloadInv, NoDownload, NoEvaluate
<1> QED BY <1>1, <1>2, <1>3 DEF IInv

\* Publishing, bumping, cloning and dying leave every checksum where it was, or forget it.
LEMMA WorldIInv ==
    ASSUME IInv, Publish \/ BumpSchema \/ Clone \/ Crash
    PROVE  IInv'
<1>n. Numbers /\ TypeOK /\ NoneNewer /\ DiskNewest /\ StampedBefore /\ EvaluatorInv /\ DownloadInv
  BY TypeNumbers DEF IInv
<1>1. TypeOK'
  <2>1. CASE Publish
    BY <2>1, <1>n DEF Publish, TypeOK, GoldenOK, GenerateOK, Versions
  <2>2. CASE Clone
    BY <2>2, <1>n DEF Clone, TypeOK, GoldenOK, GenerateOK
  <2>4. CASE BumpSchema
    BY <2>4, <1>n DEF BumpSchema, TypeOK, GoldenOK, GenerateOK
  <2>3. CASE Crash
    <3>1. NoGenerate.passed <= NoGenerate.tried /\ (NoGenerate.of = {} <=> NoGenerate.passed = 0)
      BY DEF NoGenerate
    <3>2. download' \in Downloads /\ evaluate' \in Evaluates
      BY <2>3, <1>n, Nothing DEF Crash, TypeOK
    <3>3. GenerateOK'
      BY <2>3, <1>n, <3>1, Nothing DEF Crash, TypeOK, GenerateOK
    <3> QED BY <2>3, <1>n, <3>2, <3>3 DEF Crash, TypeOK, GoldenOK
  <2> QED BY <2>1, <2>2, <2>3, <2>4
<1>2. NoneNewer' /\ DiskNewest' /\ StampedBefore'
  BY <1>n DEF Publish, BumpSchema, Clone, Crash, Numbers, NoneNewer, DiskNewest, StampedBefore,
       NoDownload, NoGenerate
<1>3. EvaluatorInv' /\ DownloadInv'
  BY <1>n DEF Publish, BumpSchema, Clone, Crash, EvaluatorInv, DownloadInv, NoDownload, NoGenerate, NoEvaluate
<1> QED BY <1>1, <1>2, <1>3 DEF IInv

\* C1 changes its record, the PDF and the manifest.
LEMMA DownloadIInv ==
    ASSUME IInv,
           \/ \E force \in BOOLEAN: DownloadStart(force)
           \/ DownloadKeep \/ DownloadFetch \/ DownloadFail \/ DownloadWrite
    PROVE  IInv'
<1>n. Numbers /\ TypeOK /\ NoneNewer /\ DiskNewest /\ StampedBefore /\ EvaluatorInv /\ DownloadInv
  BY TypeNumbers DEF IInv
<1>1. ASSUME NEW force \in BOOLEAN, DownloadStart(force) PROVE IInv'
  <2>1. TypeOK' /\ DownloadInv'
    BY <1>1, <1>n DEF DownloadStart, TypeOK, GoldenOK, GenerateOK, Downloads, DownloadInv
  <2>2. NoneNewer' /\ DiskNewest' /\ StampedBefore' /\ EvaluatorInv'
    BY <1>1, <1>n DEF DownloadStart, Numbers, NoneNewer, DiskNewest, StampedBefore, EvaluatorInv
  <2> QED BY <2>1, <2>2 DEF IInv
<1>2. CASE DownloadKeep
  <2>1. PICK entry \in {file, download.entry}:
          /\ download' = [download EXCEPT !.pc = "write", !.entry = entry, !.failed = FALSE]
          /\ entry = file
    BY <1>2 DEF DownloadKeep, Kept, Fetched
  <2>2. TypeOK' /\ DownloadInv'
    BY <1>2, <1>n, <2>1 DEF DownloadKeep, TypeOK, GoldenOK, GenerateOK, Downloads, DownloadInv
  <2>3. download'.entry = file
    BY <2>1, <1>n DEF TypeOK, Downloads
  <2>4. NoneNewer' /\ DiskNewest' /\ StampedBefore' /\ EvaluatorInv'
    BY <1>2, <1>n, <2>3 DEF DownloadKeep, Numbers, NoneNewer, DiskNewest, StampedBefore,
         EvaluatorInv
  <2> QED BY <2>2, <2>4 DEF IInv
<1>3. CASE DownloadFetch
  <2>0. served \in 0 .. MaxVersion /\ file' = served
        /\ download' = [download EXCEPT !.pc = "write", !.entry = served, !.failed = FALSE]
    BY <1>3, <1>n DEF DownloadFetch, Fetched, TypeOK, Versions
  <2>2. download'.entry = served /\ download' \in Downloads /\ file' = served
    BY <1>n, <2>0 DEF TypeOK, Downloads
  <2>1. TypeOK' /\ DownloadInv'
    BY <1>3, <1>n, <2>0, <2>2 DEF DownloadFetch, TypeOK, GoldenOK, GenerateOK, DownloadInv
  <2>3. NoneNewer' /\ DiskNewest' /\ StampedBefore' /\ EvaluatorInv'
    BY <1>3, <1>n, <2>2 DEF DownloadFetch, Numbers, NoneNewer, DiskNewest, StampedBefore,
         EvaluatorInv
  <2> QED BY <2>1, <2>3 DEF IInv
<1>4. CASE DownloadFail
  <2>1. TypeOK' /\ DownloadInv'
    BY <1>4, <1>n DEF DownloadFail, Fetched, TypeOK, GoldenOK, GenerateOK, Downloads, DownloadInv
  <2>2. download'.entry = download.entry
    BY <1>4, <1>n DEF DownloadFail, Fetched, TypeOK, Downloads
  <2>3. NoneNewer' /\ DiskNewest' /\ StampedBefore' /\ EvaluatorInv'
    BY <1>4, <1>n, <2>2 DEF DownloadFail, Numbers, NoneNewer, DiskNewest, StampedBefore,
         EvaluatorInv
  <2> QED BY <2>1, <2>3 DEF IInv
<1>5. CASE DownloadWrite
  <2>1. TypeOK' /\ DownloadInv'
    BY <1>5, <1>n, Nothing DEF DownloadWrite, NoDownload, TypeOK, GoldenOK, GenerateOK,
         Downloads, DownloadInv
  <2>2. NoneNewer' /\ DiskNewest' /\ StampedBefore' /\ EvaluatorInv'
    BY <1>5, <1>n DEF DownloadWrite, NoDownload, Numbers, NoneNewer, DiskNewest,
         StampedBefore, EvaluatorInv
  <2> QED BY <2>1, <2>2 DEF IInv
<1> QED BY <1>1, <1>2, <1>3, <1>4, <1>5

LEMMA AtLeastThree == MinSuccesses \in Int /\ MinSuccesses >= 3
<1>1. DeferredThreshold \in Int
  BY DEF DeferredThreshold
<1>2. \E x \in {3, DeferredThreshold}: \A y \in {3, DeferredThreshold}: x >= y
  BY <1>1
<1> QED BY <1>1, <1>2 DEF MinSuccesses, Max

\* The runs a golden file is made of have read the PDF at or after the stamp.
LEMMA GenerateIInv ==
    ASSUME IInv,
           \/ \E force \in BOOLEAN: GenerateStart(force)
           \/ GenerateSkip \/ GenerateBegin \/ GenerateRun \/ GenerateRunRaises
           \/ GenerateTooFew \/ GenerateWrite \/ GenerateEnd
    PROVE  IInv'
<1>n. Numbers /\ TypeOK /\ NoneNewer /\ DiskNewest /\ StampedBefore /\ EvaluatorInv /\ DownloadInv
  BY TypeNumbers DEF IInv
\* All but the writing of the golden file change the record of C2 only.
<1>g. ASSUME NEW g \in Generates, generate' = g,
             g.passed <= g.tried, g.of = {} <=> g.passed = 0,
             g.entry <= served, file # 0 => g.entry <= file,
             \A v \in g.of: g.entry <= v /\ v <= served /\ (file # 0 => v <= file),
             evaluate.pc = "idle" \/ g.pc = "idle",
             UNCHANGED <<docType, schema, served, file, manifest, golden, download, evaluate>>
      PROVE  IInv'
  <2>1. TypeOK'
    BY <1>g, <1>n DEF TypeOK, GoldenOK, GenerateOK
  <2>2. NoneNewer' /\ DiskNewest' /\ StampedBefore'
    BY <1>g, <1>n DEF NoneNewer, DiskNewest, StampedBefore
  <2>3. EvaluatorInv' /\ DownloadInv'
    BY <1>g, <1>n DEF EvaluatorInv, DownloadInv
  <2> QED BY <2>1, <2>2, <2>3 DEF IInv
<1>b. /\ generate \in Generates /\ generate.passed <= generate.tried
      /\ generate.of = {} <=> generate.passed = 0
      /\ generate.entry <= served /\ (file # 0 => generate.entry <= file)
      /\ \A v \in generate.of: generate.entry <= v /\ v <= served /\ (file # 0 => v <= file)
      /\ generate.pc # "idle" => evaluate.pc = "idle"
  BY <1>n DEF TypeOK, GenerateOK, NoneNewer, DiskNewest, StampedBefore, EvaluatorInv
<1>1. ASSUME NEW force \in BOOLEAN, GenerateStart(force) PROVE IInv'
  <2> DEFINE g == [NoGenerate EXCEPT !.pc = "slot", !.entry = manifest, !.force = force]
  <2>1. /\ g \in Generates /\ g.passed = 0 /\ g.tried = 0 /\ g.of = {}
        /\ g.entry = manifest /\ g.pc = "slot"
    BY <1>n, Nothing DEF NoGenerate, Generates, TypeOK
  <2>2. generate' = g /\ evaluate.pc = "idle"
    BY <1>1 DEF GenerateStart
  <2>3. manifest <= served /\ (file # 0 => manifest <= file)
    BY <1>n DEF NoneNewer, DiskNewest
  <2>4. UNCHANGED <<docType, schema, served, file, manifest, golden, download, evaluate>>
    BY <1>1 DEF GenerateStart
  <2> HIDE DEF g
  <2> QED BY <1>g, <2>1, <2>2, <2>3, <2>4
<1>2. CASE GenerateSkip \/ GenerateTooFew \/ GenerateEnd
  <2>1. /\ NoGenerate.passed = 0 /\ NoGenerate.tried = 0 /\ NoGenerate.of = {}
        /\ NoGenerate.entry = 0 /\ NoGenerate.pc = "idle"
    BY DEF NoGenerate
  <2>2. /\ generate' = NoGenerate
        /\ UNCHANGED <<docType, schema, served, file, manifest, golden, download, evaluate>>
    BY <1>2 DEF GenerateSkip, GenerateTooFew, GenerateEnd
  <2> QED BY <1>g, <1>n, <2>1, <2>2, Nothing DEF Numbers
<1>3. CASE GenerateBegin
  <2> DEFINE g == [generate EXCEPT !.pc = "runs"]
  <2>1. /\ g \in Generates /\ g.passed = generate.passed /\ g.tried = generate.tried
        /\ g.of = generate.of /\ g.entry = generate.entry
    BY <1>b DEF Generates
  <2>2. /\ generate' = g /\ evaluate.pc = "idle"
        /\ UNCHANGED <<docType, schema, served, file, manifest, golden, download, evaluate>>
    BY <1>3, <1>b DEF GenerateBegin
  <2> HIDE DEF g
  <2> QED BY <1>g, <1>b, <2>1, <2>2
<1>4. CASE GenerateRun
  <2> DEFINE g == [generate EXCEPT !.tried = @ + 1, !.passed = @ + 1, !.of = @ \cup {file}]
  <2>1. file \in Versions \ Junk /\ file # 0 /\ generate.tried < NRuns
    BY <1>4, <1>n DEF GenerateRun, RunsLeft, Readable, TypeOK, Versions
  <2>2. generate.tried \in Nat /\ generate.passed \in Nat
    BY <1>b DEF Generates
  <2>3. /\ g.passed = generate.passed + 1 /\ g.tried = generate.tried + 1
        /\ g.of = generate.of \cup {file} /\ g.entry = generate.entry
    BY <1>b DEF Generates
  <2>4. g \in Generates
    <3>1. generate.tried + 1 \in 0 .. NRuns /\ generate.passed + 1 \in 0 .. NRuns
      BY <1>b, <2>1, <2>2
    <3>2. generate.of \cup {file} \in SUBSET (Versions \ Junk)
      BY <1>b, <2>1 DEF Generates
    <3> QED BY <1>b, <3>1, <3>2 DEF Generates
  <2>5. /\ generate' = g /\ evaluate.pc = "idle"
        /\ UNCHANGED <<docType, schema, served, file, manifest, golden, download, evaluate>>
    BY <1>4, <1>b DEF GenerateRun
  <2>6. file <= served /\ file \in Nat
    BY <1>n DEF NoneNewer, Numbers
  <2> HIDE DEF g
  <2> QED BY <1>g, <1>b, <2>1, <2>2, <2>3, <2>4, <2>5, <2>6
<1>5. CASE GenerateRunRaises
  <2> DEFINE g == [generate EXCEPT !.tried = @ + 1]
  <2>1. generate.tried < NRuns /\ generate.tried \in Nat /\ generate.passed \in Nat
    BY <1>5, <1>b DEF GenerateRunRaises, RunsLeft, Generates
  <2>2. /\ g \in Generates /\ g.passed = generate.passed /\ g.tried = generate.tried + 1
        /\ g.of = generate.of /\ g.entry = generate.entry
    BY <1>b, <2>1 DEF Generates
  <2>3. /\ generate' = g /\ evaluate.pc = "idle"
        /\ UNCHANGED <<docType, schema, served, file, manifest, golden, download, evaluate>>
    BY <1>5, <1>b DEF GenerateRunRaises
  <2> HIDE DEF g
  <2> QED BY <1>g, <1>b, <2>1, <2>2, <2>3
<1>6. CASE GenerateWrite
  <2>1. PICK runs \in [1 .. generate.passed -> Results]:
          /\ golden' = [exists |-> TRUE, pdf_sha256 |-> generate.entry, of |-> generate.of,
                        derived |-> Derive(docType, schema, runs)]
          /\ generate' = [NoGenerate EXCEPT !.pc = "written", !.runs = runs]
    BY <1>6 DEF GenerateWrite, Stamp
  <2>2. generate.passed \in Nat /\ runs \in Seq(Results)
    BY <1>b, <2>1 DEF Generates
  <2>3. generate.of # {} /\ evaluate.pc = "idle"
    <3>1. generate.passed >= MinSuccesses /\ generate.pc = "runs"
      BY <1>6 DEF GenerateWrite
    <3> QED BY <1>b, <2>2, <3>1, AtLeastThree
  <2>4. /\ golden'.exists = TRUE /\ golden'.pdf_sha256 = generate.entry
        /\ golden'.of = generate.of
    BY <2>1
  <2>5. /\ generate' \in Generates /\ generate'.entry = 0 /\ generate'.of = {}
        /\ generate'.passed = 0 /\ generate'.tried = 0
    BY <2>1, <2>2, Nothing DEF NoGenerate, Generates
  <2>6. UNCHANGED <<docType, schema, served, file, manifest, download, evaluate>>
    BY <1>6 DEF GenerateWrite
  <2>7. GoldenOK'
    BY <1>b, <2>3, <2>4 DEF GoldenOK, Generates
  <2>8. TypeOK'
    BY <1>n, <2>5, <2>6, <2>7 DEF TypeOK, GenerateOK
  <2>9. NoneNewer' /\ DiskNewest' /\ StampedBefore'
    BY <1>n, <1>b, <2>4, <2>5, <2>6 DEF Numbers, NoneNewer, DiskNewest, StampedBefore
  <2>10. EvaluatorInv' /\ DownloadInv'
    BY <1>n, <2>3, <2>6 DEF EvaluatorInv, DownloadInv
  <2> QED BY <2>8, <2>9, <2>10 DEF IInv
<1> QED BY <1>1, <1>2, <1>3, <1>4, <1>5, <1>6

LEMMA EvaluateIInv ==
    ASSUME IInv, EvaluateCheck \/ EvaluateRun \/ EvaluateEnd
    PROVE  IInv'
<1>n. Numbers /\ TypeOK /\ NoneNewer /\ DiskNewest /\ StampedBefore /\ EvaluatorInv /\ DownloadInv
  BY TypeNumbers DEF IInv
<1>1. TypeOK'
  BY <1>n, Nothing DEF EvaluateCheck, EvaluateRun, EvaluateEnd, NoEvaluate, TypeOK, GoldenOK,
       GenerateOK, Evaluates
<1>2. NoneNewer' /\ DiskNewest' /\ StampedBefore' /\ DownloadInv'
  BY <1>n DEF EvaluateCheck, EvaluateRun, EvaluateEnd, NoneNewer, DiskNewest, StampedBefore,
       DownloadInv
<1>3. EvaluatorInv'
  <2>1. CASE EvaluateCheck
    <3>1. evaluate'.pc = "checked" /\ evaluate'.sha = file
      BY <2>1 DEF EvaluateCheck, NoEvaluate
    <3>2. generate'.pc = "idle" /\ golden'.exists /\ golden' = golden /\ file' = file /\ file # 0
      BY <2>1 DEF EvaluateCheck
    <3> QED BY <3>1, <3>2, <1>n DEF DiskNewest, EvaluatorInv, Numbers
  <2>2. CASE EvaluateRun
    <3>1. evaluate'.pc = "judged" /\ evaluate'.sha = evaluate.sha /\ evaluate'.read = file
      BY <2>2, <1>n DEF EvaluateRun, TypeOK, Evaluates
    <3>2. evaluate.pc = "checked" /\ UNCHANGED <<file, golden, generate>>
      BY <2>2 DEF EvaluateRun
    <3> QED BY <3>1, <3>2, <1>n DEF EvaluatorInv, Numbers
  <2>3. CASE EvaluateEnd
    BY <2>3 DEF EvaluateEnd, NoEvaluate, EvaluatorInv
  <2> QED BY <2>1, <2>2, <2>3
<1> QED BY <1>1, <1>2, <1>3 DEF IInv

LEMMA NextIInv == IInv /\ [Next]_vars => IInv'
<1> SUFFICES ASSUME IInv, [Next]_vars PROVE IInv'
  OBVIOUS
<1>1. CASE Next
  BY <1>1, WorldIInv, DownloadIInv, GenerateIInv, EvaluateIInv DEF Next
<1>2. CASE UNCHANGED vars
  BY <1>2 DEF vars, IInv, TypeOK, GoldenOK, GenerateOK, NoneNewer, DiskNewest, StampedBefore,
       EvaluatorInv, DownloadInv
<1> QED BY <1>1, <1>2

LEMMA SpecIInv == Spec => []IInv
  BY InitIInv, NextIInv, PTL DEF Spec

---------------------------------------------------------------------------

\* The files and the scripts' copies have their types (the slot's manifest entry, golden
\* file and PDF, the locals of the three scripts).
THEOREM TypeCorrect == Spec => []TypeOK
<1>1. IInv => TypeOK
  BY DEF IInv
<1> QED BY <1>1, SpecIInv, PTL

\* A golden file with the checksum of the PDF on disk was derived from that PDF only, for
\* any number of versions (_process_slot, _fetch_entry).
THEOREM StampsAreTrue == Spec => []GoldenIsOfItsPdf
<1>1. IInv => GoldenIsOfItsPdf
  <2> SUFFICES ASSUME IInv, golden.exists, file # 0, golden.pdf_sha256 = file
               PROVE  golden.of = {file}
    BY DEF GoldenIsOfItsPdf
  <2>1. Numbers /\ golden.of # {}
    BY TypeNumbers DEF IInv, TypeOK, GoldenOK
  <2>2. \A v \in golden.of: v <= file /\ file <= v
    BY DEF IInv, DiskNewest, StampedBefore
  <2> QED BY <2>1, <2>2 DEF Numbers
<1> QED BY <1>1, SpecIInv, PTL

\* What C4 accepts by a golden file with a checksum has read the version that file was
\* derived from, unless C1 replaced the PDF between the checksum and the run: for any
\* number of versions (_evaluate_slot).
THEOREM VerdictsAreTrue == Spec => []VerdictIsOfItsPdf
<1>1. IInv => VerdictIsOfItsPdf
  <2> SUFFICES ASSUME IInv, evaluate.pc = "judged", SlotVerdict # "FAIL",
                      golden.pdf_sha256 # 0, file = evaluate.sha
               PROVE  golden.of = {evaluate.read}
    BY DEF VerdictIsOfItsPdf
  <2>1. Numbers /\ golden.of # {}
    BY TypeNumbers DEF IInv, TypeOK, GoldenOK, EvaluatorInv
  <2>2. golden.pdf_sha256 = evaluate.sha
    BY DEF SlotVerdict, Mismatched
  <2>3. evaluate.read = evaluate.sha
    BY <2>1 DEF IInv, EvaluatorInv, Numbers
  <2>4. \A v \in golden.of: v <= evaluate.sha /\ evaluate.sha <= v
    BY <2>2 DEF IInv, StampedBefore, EvaluatorInv
  <2> QED BY <2>1, <2>3, <2>4 DEF Numbers
<1> QED BY <1>1, SpecIInv, PTL

\* C1 leaves the checksum of the PDF on disk in the manifest (main, _write_manifest).
THEOREM DownloadsAreRecorded == Spec => ManifestCatchesUp
<1>1. IInv /\ [Next]_vars => [DownloadWrite /\ ~download.failed => manifest' = file]_vars
  BY DEF IInv, DownloadInv, DownloadWrite
<1> QED BY <1>1, SpecIInv, PTL DEF Spec, ManifestCatchesUp

---------------------------------------------------------------------------
(* What the facts of a golden file say of its runs, if all of them must agree *)

LEMMA AgreedByAll ==
    ASSUME NEW n \in 1 .. NRuns, NEW I \in SUBSET (1 .. n), Cardinality(I) >= NRuns
    PROVE  I = 1 .. n
<1>1. n \in Nat /\ NRuns \in Nat /\ n <= NRuns
  OBVIOUS
<1>2. IsFiniteSet(1 .. n) /\ Cardinality(1 .. n) = n
  BY <1>1, UpTo
<1>3. IsFiniteSet(I) /\ Cardinality(I) <= n /\ (Cardinality(I) = n => I = 1 .. n)
  BY <1>2, FS_Subset
<1>4. Cardinality(I) \in Nat
  BY <1>3, FS_CardinalityType
<1> QED BY <1>1, <1>3, <1>4

\* The percentile is the count of one of the runs.
LEMMA PercentileIsACount ==
    ASSUME NEW n \in Nat \ {0}, NEW counts \in [1 .. n -> Nat]
    PROVE  Percentile80(counts) \in Nat
<1> DEFINE D == 1 .. n
           R == Sorted(counts)
           k == ((n - 1) * 8 + 5) \div 10 + 1
<1>1. DOMAIN counts = D /\ Len(counts) = n
  BY ListIsASeq
<1>2. IsFiniteSet(D) /\ Cardinality(D) = n
  BY UpTo
<1>3. Orders(R, D)
  <2>1. \A x, y \in D: <<x, y>> \in R <=>
           counts[x] < counts[y] \/ (counts[x] = counts[y] /\ x < y)
    BY <1>1 DEF Sorted
  <2>2. \A x, y: <<x, y>> \in R => x \in D /\ y \in D
    BY <1>1 DEF Sorted
  <2> HIDE DEF R
  <2>3. \A x \in D: counts[x] \in Nat /\ x \in Nat
    OBVIOUS
  <2>4. \A x \in D: <<x, x>> \notin R
    BY <2>1, <2>3
  <2>5. \A x, y, z \in D: <<x, y>> \in R /\ <<y, z>> \in R => <<x, z>> \in R
    BY <2>1, <2>3
  <2>6. ASSUME NEW x \in D, NEW y \in D PROVE x = y \/ <<x, y>> \in R \/ <<y, x>> \in R
    <3>1. \/ counts[x] < counts[y] \/ (counts[x] = counts[y] /\ x < y)
          \/ counts[y] < counts[x] \/ (counts[y] = counts[x] /\ y < x) \/ x = y
      BY <2>3
    <3> QED BY <2>1, <3>1
  <2> HIDE DEF D
  <2> QED BY <2>4, <2>5, <2>6 DEF Orders
<1>4. k \in 1 .. n
  OBVIOUS
<1>5. Ranked(D, R)[k] \in D
  <2> HIDE DEF D, R, k
  <2>1. Ranked(D, R) \in [1 .. Cardinality(D) -> D]
    BY <1>2, <1>3, RankedList
  <2> QED BY <1>2, <1>4, <2>1
<1>6. Percentile80(counts) = counts[Ranked(D, R)[k]]
  BY <1>1 DEF Percentile80
<1> HIDE DEF R, k
<1> QED BY <1>5, <1>6

LEMMA FloorIsLow ==
    ASSUME NEW n \in Nat \ {0}, NEW runs \in [1 .. n -> Results],
           NEW run \in ToSet(runs), run.count > 0
    PROVE  Floor(runs) <= run.count
<1> DEFINE C == {r.count: r \in ToSet(runs)}
           a == (85 * Percentile80(Counts(runs))) \div 100
           b == (95 * Min(C)) \div 100
<1>1. \A r \in ToSet(runs): r.count \in Nat
  BY ResultsAssumption DEF ToSet
<1>2. Percentile80(Counts(runs)) \in Nat
  <2>1. Counts(runs) \in [1 .. n -> Nat]
    BY ResultsAssumption DEF Counts
  <2> QED BY <2>1, PercentileIsACount
<1>3. Min(C) \in Nat /\ Min(C) <= run.count
  <2>1. C \in SUBSET Int /\ run.count \in C /\ C \subseteq Nat
    BY <1>1
  <2>2. IsFiniteSet(C)
    <3>1. runs \in Seq(Results)
      BY ListIsASeq
    <3>2. IsFiniteSet(ToSet(runs))
      BY <3>1, ToSetOfSeq
    <3> DEFINE T == ToSet(runs)
               f == [r \in T |-> r.count]
    <3>3. f \in [T -> C] /\ \A c \in C: \E r \in T: f[r] = c
      OBVIOUS
    <3>4. IsFiniteSet(T)
      BY <3>2
    <3> HIDE DEF T, f, C
    <3> QED BY <3>3, <3>4, FiniteImage
  <2> HIDE DEF C
  <2>3. Min(C) \in C /\ \A y \in C: Min(C) <= y
    BY <2>1, <2>2, MinMax
  <2> QED BY <2>1, <2>3
<1> DEFINE m == Min({a, b})
<1>4. a \in Int /\ b \in Int /\ b <= Min(C)
  <2> HIDE DEF C
  <2> QED BY <1>2, <1>3
<1>5. m \in Int /\ m <= b
  <2> HIDE DEF a, b
  <2> QED BY <1>4, LeastAndGreatest
<1>6. Floor(runs) = Max({1, m})
  BY DEF Floor
<1>7. Floor(runs) \in {1, m}
  <2> HIDE DEF m
  <2>1. 1 \in Int
    OBVIOUS
  <2>2. Max({1, m}) \in {1, m}
    BY <1>5, <2>1, LeastAndGreatest
  <2> QED BY <1>6, <2>2
<1>8. run.count \in Nat
  BY <1>1
<1> HIDE DEF m, b, C
<1> QED BY <1>3, <1>4, <1>5, <1>7, <1>8

LEMMA HeadingsAreInAll ==
    ASSUME NEW n \in 1 .. NRuns, NEW runs \in [1 .. n -> Results], NEW run \in ToSet(runs),
           RequiredThreshold = NRuns, NEW h,
           Votes(runs, LAMBDA r: h \in r.headings) >= RequiredThreshold
    PROVE  h \in run.headings
<1> DEFINE I == {i \in DOMAIN runs: h \in runs[i].headings}
<1>1. I \in SUBSET (1 .. n) /\ Cardinality(I) >= NRuns
  BY DEF Votes, Positions
<1>2. I = 1 .. n
  <2> HIDE DEF I
  <2> QED BY <1>1, AgreedByAll
<1> QED BY <1>2 DEF ToSet

LEMMA RowsAreReached ==
    ASSUME NEW n \in 1 .. NRuns, NEW runs \in [1 .. n -> Results], NEW run \in ToSet(runs),
           RequiredThreshold = NRuns, run.rows # 1
    PROVE  MinRows(runs) <= run.rows
<1> DEFINE agreed == {r.rows: r \in {s \in ToSet(runs): s.rows > 0 /\
                         Votes(runs, LAMBDA o: o.rows = s.rows) >= RequiredThreshold}}
<1>1. \A r \in ToSet(runs): r.rows \in Nat
  BY ResultsAssumption DEF ToSet
<1>2. ASSUME NEW x \in agreed PROVE x = run.rows /\ x > 0
  <2>1. PICK s \in ToSet(runs): /\ x = s.rows /\ s.rows > 0
                                /\ Votes(runs, LAMBDA o: o.rows = s.rows) >= RequiredThreshold
    OBVIOUS
  <2> DEFINE I == {i \in DOMAIN runs: runs[i].rows = s.rows}
  <2>2. I \in SUBSET (1 .. n) /\ Cardinality(I) >= NRuns
    BY <2>1 DEF Votes, Positions
  <2>3. I = 1 .. n
    <3> HIDE DEF I
    <3> QED BY <2>2, AgreedByAll
  <2>4. run.rows = s.rows
    BY <2>3 DEF ToSet
  <2> QED BY <2>1, <2>4
<1>3. MinRows(runs) = IF agreed = {} THEN 0 ELSE Max({2, (6 * Max(agreed)) \div 10})
  BY DEF MinRows
<1> HIDE DEF agreed
<1>4. run.rows \in Nat
  BY <1>1
<1>5. CASE agreed = {}
  BY <1>3, <1>4, <1>5
<1>6. CASE agreed # {}
  <2>1. agreed = {run.rows} /\ run.rows >= 2
    BY <1>2, <1>4, <1>6
  <2>2. Max(agreed) = run.rows
    <3>1. \E x \in {run.rows}: \A y \in {run.rows}: x >= y
      BY <1>4
    <3> QED BY <2>1, <3>1 DEF Max
  <2> DEFINE most == (6 * run.rows) \div 10
  <2>3. most \in Int /\ most <= run.rows
    BY <1>4
  <2>4. MinRows(runs) = Max({2, most})
    BY <1>3, <1>6, <2>2
  <2> HIDE DEF most
  <2>5. 2 \in Int
    OBVIOUS
  <2>6. Max({2, most}) \in {2, most}
    BY <2>3, <2>5, LeastAndGreatest
  <2> QED BY <2>1, <2>3, <2>4, <2>6
<1> QED BY <1>5, <1>6

LEMMA TitleIsOfAll ==
    ASSUME NEW n \in 1 .. NRuns, NEW runs \in [1 .. n -> Results], NEW run \in ToSet(runs),
           Consensus(runs, NRuns, NRuns) # None
    PROVE  NormEq(run.title, Consensus(runs, NRuns, NRuns))
<1> DEFINE agreed == {g \in Groups: GroupVotes(runs, g) \in NRuns .. NRuns}
           group == CHOOSE g \in agreed: TRUE
<1>1. agreed # {} /\ Consensus(runs, NRuns, NRuns) = Representative(runs, group)
  BY DEF Consensus
<1>2. group \in agreed
  <2> HIDE DEF agreed
  <2> QED BY <1>1
<1>3. GroupVotes(runs, group) \in NRuns .. NRuns
  BY <1>2
<1> HIDE DEF group, agreed
<1> DEFINE I == {i \in DOMAIN runs: InGroup(group, runs[i])}
<1>4. I = 1 .. n
  <2>1. I \in SUBSET (1 .. n) /\ Cardinality(I) >= NRuns
    BY <1>3 DEF GroupVotes, Votes, Positions
  <2> HIDE DEF I
  <2> QED BY <2>1, AgreedByAll
<1>5. \A i \in 1 .. n: runs[i].title # None /\ Norm[runs[i].title] = group
  BY <1>4 DEF InGroup
<1>6. n \in Nat /\ IsFiniteSet(1 .. n) /\ 1 \in 1 .. n
  BY UpTo
<1>7. \A i \in 1 .. n: FormVotes(runs, runs[i].title) \in Nat
  <2> SUFFICES ASSUME NEW i \in 1 .. n PROVE FormVotes(runs, runs[i].title) \in Nat
    OBVIOUS
  <2> DEFINE P == {j \in DOMAIN runs: runs[j].title = runs[i].title}
  <2>1. P \in SUBSET (1 .. n) /\ FormVotes(runs, runs[i].title) = Cardinality(P)
    BY DEF FormVotes, Votes, Positions
  <2> HIDE DEF P
  <2>2. IsFiniteSet(P)
    BY <1>6, <2>1, FS_Subset
  <2> QED BY <2>1, <2>2, FS_CardinalityType
<1> DEFINE V == {FormVotes(runs, runs[i].title): i \in I}
           J == {i \in I: FormVotes(runs, runs[i].title) = Max(V)}
<1>8. Representative(runs, group) = runs[Min(J)].title
  BY DEF Representative, Positions
<1>9. Max(V) \in V
  <2> DEFINE f == [i \in 1 .. n |-> FormVotes(runs, runs[i].title)]
  <2>1. f \in [1 .. n -> V] /\ \A v \in V: \E i \in 1 .. n: f[i] = v
    BY <1>4
  <2>2. V \in SUBSET Int /\ V # {}
    BY <1>4, <1>6, <1>7
  <2> HIDE DEF V, f
  <2>3. IsFiniteSet(V)
    BY <1>6, <2>1, FiniteImage
  <2> QED BY <2>2, <2>3, MinMax
<1>10. Min(J) \in 1 .. n
  <2>1. J \in SUBSET (1 .. n) /\ J # {}
    BY <1>4, <1>9
  <2> HIDE DEF J
  <2>2. J \in SUBSET Int
    BY <2>1
  <2>3. IsFiniteSet(J)
    BY <1>6, <2>1, FS_Subset
  <2>4. Min(J) \in J
    BY <2>1, <2>2, <2>3, MinMax
  <2> QED BY <2>1, <2>4
<1>11. Norm[Consensus(runs, NRuns, NRuns)] = group
  <2> HIDE DEF J
  <2> QED BY <1>1, <1>5, <1>8, <1>10
<1>12. run.title # None /\ Norm[run.title] = group
  BY <1>5 DEF ToSet
<1> QED BY <1>11, <1>12 DEF NormEq

\* C3 passes every run a golden file was made of that is sound and not empty.
LEMMA OwnRunsPass ==
    ASSUME NEW n \in 1 .. NRuns, NEW runs \in [1 .. n -> Results], NEW run \in ToSet(runs),
           NEW type, NEW version, RequiredThreshold = NRuns, run.sound, run.count > 0, run.rows # 1
    PROVE  TestPasses(version, Derive(type, version, runs), run)
<1> DEFINE g == Derive(type, version, runs)
<1>1. /\ g.schema_version = version /\ g.min_blocks = Floor(runs)
      /\ g.required = IF type = "scientific_paper" THEN Consensus(runs, NRuns, NRuns) ELSE None
      /\ g.min_rows = IF type = "invoice" THEN MinRows(runs) ELSE 0
      /\ \A h \in g.headings: Votes(runs, LAMBDA r: h \in r.headings) >= RequiredThreshold
  BY DEF Derive, SchemaVersion
<1>2. n \in Nat \ {0}
  BY NRunsAssumption
<1>3. run.count \in Nat /\ run.rows \in Nat
  BY ResultsAssumption DEF ToSet
<1> HIDE DEF g
<1>4. g.headings \subseteq run.headings
  <2>1. ASSUME NEW h \in g.headings PROVE h \in run.headings
    BY <1>1, HeadingsAreInAll
  <2> QED BY <2>1
<1>5. run.count >= g.min_blocks
  <2>1. Floor(runs) <= run.count
    BY <1>2, FloorIsLow
  <2> QED BY <1>1, <2>1
<1>6. run.rows >= g.min_rows
  BY <1>1, <1>3, RowsAreReached
<1>7. g.required # None => NormEq(run.title, g.required)
  BY <1>1, TitleIsOfAll
<1>8. TestPasses(version, g, run)
  BY <1>1, <1>4, <1>5, <1>6, <1>7 DEF TestPasses, Structure, TextFound
<1> QED BY <1>8 DEF g

\* When C2 has written, the golden file says what its runs came to.
WrittenInv ==
    generate.pc = "written" =>
        /\ \E n \in 1 .. NRuns: generate.runs \in [1 .. n -> Results]
        /\ golden.derived = Derive(docType, schema, generate.runs)

LEMMA NextWritten == TypeOK /\ WrittenInv /\ [Next]_vars => WrittenInv'
<1> SUFFICES ASSUME TypeOK, WrittenInv, [Next]_vars, generate'.pc = "written" PROVE WrittenInv'
  BY DEF WrittenInv
<1>1. NoGenerate.pc = "idle"
  BY DEF NoGenerate
<1>2. BumpSchema => generate'.pc = "idle"
  BY <1>1 DEF BumpSchema
<1>9. docType' = docType /\ schema' = schema
  BY <1>2 DEF Next, vars, Publish, Clone, Crash, DownloadStart, GenerateStart, DownloadKeep,
     DownloadFetch, DownloadFail, DownloadWrite, GenerateSkip, GenerateBegin, GenerateRun,
     GenerateRunRaises, GenerateTooFew, GenerateWrite, GenerateEnd, EvaluateCheck, EvaluateRun,
     EvaluateEnd
<1>3. generate \in Generates /\ generate.passed <= generate.tried
  BY DEF TypeOK, GenerateOK
<1>4. CASE GenerateWrite
  <2>1. PICK runs \in [1 .. generate.passed -> Results]:
          /\ golden' = [exists |-> TRUE, pdf_sha256 |-> Stamp, of |-> generate.of,
                        derived |-> Derive(docType, schema, runs)]
          /\ generate' = [NoGenerate EXCEPT !.pc = "written", !.runs = runs]
    BY <1>4 DEF GenerateWrite
  <2>2. generate.passed \in 1 .. NRuns
    <3>1. generate.passed >= MinSuccesses /\ generate.passed \in 0 .. NRuns
      BY <1>3, <1>4 DEF GenerateWrite, Generates
    <3> QED BY <3>1, AtLeastThree
  <2>3. generate'.runs = runs /\ golden'.derived = Derive(docType, schema, runs)
    BY <2>1 DEF NoGenerate
  <2> QED BY <1>9, <2>2, <2>3 DEF WrittenInv
<1>5. CASE UNCHANGED <<generate, golden>>
  BY <1>5, <1>9 DEF WrittenInv
<1>6. CASE generate' = NoGenerate
  BY <1>1, <1>6
<1>7. CASE \/ \E force \in BOOLEAN: GenerateStart(force)
           \/ GenerateBegin \/ GenerateRun \/ GenerateRunRaises
  <2>1. generate'.pc \in {"slot", "runs"}
    BY <1>3, <1>7 DEF GenerateStart, GenerateBegin, GenerateRun, GenerateRunRaises, NoGenerate, Generates
  <2> QED BY <2>1
<1>8. \/ GenerateWrite \/ UNCHANGED <<generate, golden>> \/ generate' = NoGenerate
      \/ \E force \in BOOLEAN: GenerateStart(force)
      \/ GenerateBegin \/ GenerateRun \/ GenerateRunRaises
  BY DEF Next, vars, Publish, BumpSchema, Clone, Crash, DownloadStart, DownloadKeep, DownloadFetch,
     DownloadFail, DownloadWrite, GenerateSkip, GenerateTooFew, GenerateEnd, EvaluateCheck,
     EvaluateRun, EvaluateEnd
<1> QED BY <1>4, <1>5, <1>6, <1>7, <1>8

\* A golden file all of whose facts were seen in every run passes each of those runs, if it is
\* sound, has a block, and no table of a single row (_derive_golden, test_real_doc).
THEOREM OwnRunsAreAccepted == Spec => []GoldenAcceptsItsRuns
<1>1. Init => WrittenInv
  BY DEF Init, NoGenerate, WrittenInv
<1>2. WrittenInv => GoldenAcceptsItsRuns
  <2> SUFFICES ASSUME WrittenInv, generate.pc = "written", RequiredThreshold = NRuns,
                      NEW run \in ToSet(generate.runs), run.sound, run.count > 0, run.rows # 1
               PROVE  TestPasses(schema, golden.derived, run)
    BY DEF GoldenAcceptsItsRuns
  <2>1. PICK n \in 1 .. NRuns: generate.runs \in [1 .. n -> Results]
    BY DEF WrittenInv
  <2>2. TestPasses(schema, Derive(docType, schema, generate.runs), run)
    BY <2>1, OwnRunsPass
  <2> QED BY <2>2 DEF WrittenInv
<1>3. IInv => TypeOK
  BY DEF IInv
<1> QED BY <1>1, <1>2, <1>3, NextWritten, SpecIInv, PTL DEF Spec
=================================================================================
