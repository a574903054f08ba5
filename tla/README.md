# citenexus in TLA+

citenexus is a library for grounded question answering. It ingests documents into
a partition of an object store and a vector store, keeps navigation (a graph, a
wiki) over them, answers questions only from Evidence Units it can cite, checks
answers that others wrote, and can revoke a document. This directory holds TLA+
modules of it, the TLC configurations that check them, and proofs that TLAPS checks.

All paths below are relative to `src/python/src/citenexus/` unless they start with
`src/`. Which definition stands for which lines of the code is in PROJECT.json
under `map`.

## 1. The system

| Component | State | Operations | What is hard | What makes it correct |
| --- | --- | --- | --- | --- |
| Etag manifest (`storage/manifest.py`) | current and retired checksums per document, one JSON object | record, clear_superseded, forget, owners_of | A, B, A again; copies saved whole | a current checksum is never retired |
| Ingest pipeline (`ingest/pipeline.py`) | raw and image blobs, structure index, rows, manifest, tokenizer stamp | ingest | seven durable writes, a crash between any two; model replies that are short or reordered | cited bytes exist; a returned `ingested` is complete; a row has its own vector |
| Facade (`client.py`) | none of its own | ingest, crawl, refresh_slow_path, delete | a revoke of ten writes, resumable; shared blobs | `deleted` means gone from every layer; others untouched |
| Graph (`graph/`) | graph artifact, dirty marker | mark_dirty, ensure_current, rebuild, retrieve | lazy rebuild racing commits and other readers | grounded in units; rebuilt once per mark; the marker falls only over a current graph |
| Wiki (`wiki/`) | page objects, index | integrate_document, remove_document, rebuild, retrieve | several objects per change | the index leads to pages that say what it says |
| Reconciliation (`reconcile/`) | an audit stream | reconcile, remediate | a report goes stale; interrupted calls look like orphans | remediation removes its orphans and nothing else |
| Durable worker (`worker/`) | one SQLite table | enqueue, lease, run, resume, redrive | kills, retries, re-runs by hash | no job lost, none finished that did not run |
| Strict ask (`answer/flow.py`), retrieval (`retrieve/`), memory (`memory/`) | reformulation cache; turns of a conversation | ask, retrieve, recall, append | order of the gates, fan-out, other writers of the conversation | cites what it retrieved or abstains, and says why |
| Deep ask (`answer/agentic.py`) | local to one call | the gather loop and the per-claim gate | calls that hang, raise or answer late; budgets met in mid-hop | bounded cost, claims supported by one unit, floor respected |
| Verification of an answer (`answer/verify_answer.py`, `verify_union.py`) | local to one call | verify_answer | markers in lists, verdicts, options, a checker that may raise | a source has standing; reasons are honest; conflicts do not pass |
| The rules (`answer/verify*.py`, `numbers.py`, `conflict.py`, ...) | none, pure | the gate, the guards, number reading, detect_conflict | many tables that interact | what inverts or renumbers is refused, a quotation is not |
| Model calls (`vision/`, `fulfiller/`, `http.py`) | requests and replies of one call | describe, fulfil, embed | replies out of order; secrets in headers | replies are paired by id; a secret stays with its endpoint |
| Extraction, chunking, tokens (`extract/`, `evidence/`, `tokenize.py`, `lang/`) | none, pure | extract, chunk, tokenize, detect | order, headings, overlaps, scripts | no text is lost, each word is read once |
| Configuration, plugins, scopes, crawls (`config/`, `plugins/`, `provenance/`, `access/`, `code/`, `schema/`, `ingest/web.py`) | settings, registry, stamps | load, register, plan, resolve_scope, crawl, ingest_from | precedence, partial layers, cycles of links | what is said last holds; a crawl ends, within its domain |

Left out: telemetry, cost and access recording; evaluation, tools, command line and
streaming; the Postgres vector store; the Go, JavaScript and Rust ports. Each is in
PROJECT.json under `components` with the reason.

How they interact. `CiteNexus.ingest` calls the pipeline, then marks the graph
dirty and writes one wiki page. URLs and crawls run a full refresh instead.
`CiteNexus.delete` undoes all of it in an order in which the manifest entry goes
last. Every call loads the manifest once, works on that copy and saves it whole.
There are no locks between processes: the backend and the vector store are the only
shared state. Reconciliation reads manifest and rows, and its remediation calls
`delete`. The worker's queue is keyed by checksum. A strict ask recalls turns, asks
all retrievers at once in threads, fuses and reranks their lists, passes the gates,
and lets a model write over one candidate after another; the gate, the guards and
conflict detection decide what may be said. Deep ask calls the retrieval tools
through threads that it abandons at its deadline. Retrievers read graph, wiki and
structure index while writers change them.

The hazards of this code, each at its line and with the properties that would catch
it, are in PROJECT.json under `hazards`.

## 2. Modules

| Module | Models |
| --- | --- |
| `EtagManifest` | `storage/manifest.py`: operators on manifest values, one per method. The retired list is a set, no reader depends on its order. |
| `Corpus` | Ingest, crawl, refresh, delete, lazy graph rebuild. `manifest` to `wiki` are what is stored, `call[c]` is the call client `c` executes with its own copy of the manifest. One action per durable write, in the code's order, grouped as `Ingest`, `Delete`, `Navigate`; `Crash` cuts any call short and stands for a kill as well as for an exception. `result` is a history variable: what the latest call on a document returned. |
| `Reconcile` | `reconcile/engine.py` over `Corpus`: `desk` is a call between its reads and its deletes, `report` what a caller holds, however old. `Remediate` starts Corpus's own `StartDelete`. |
| `DurableQueue` | `worker/`: `jobs` is the table, `order` its rowids, `proc[w]` a worker. One action per committed statement, so a lease is a read and an update. |
| `Knowledge` | Graph and wiki in detail: nodes and edges with their units, pages and index, every read and write of a stored object a step; writers and readers side by side, the rebuild lock of a process, distilling models that reply anything. |
| `Retrieval`, `Selection` | Rank fusion in exact fractions, the reranked head, recalled turns. `Within` is the code's filter of a list. |
| `Ask` | One client's strict questions: recall, languages, reformulation with its cache of failures, the retrievers in any order, fusion, the gates in their order, generation candidate by candidate, the turn saved as a read and a write. |
| `DeepAsk` | `answer/agentic.py`, `answer/authority.py`: `pc` walks hop, search, decide, finish, generate. |
| `GroundedAnswer` | The abstract promise of both: gather, compare, then decide once, cite or abstain. |
| `Claims`, `VerifyAnswer` | From a writer's answer to claims (markers, lists, lead-ins), and their check claim by claim, in singles and in unions, with scoring, topic, checker, floor, shadowing and conflicts. |
| `Lexicon`, `Gate`, `Parties`, `Conditions`, `Oppositions` | The rules over tokens: alignment and negation; roles and party swaps; hedges, exclusions, conditions; pairs of opposites, transfers, kinds, definitions. `Guards`, `GuardsAcross` and `GateGuards` of Oppositions put them together in the code's order. |
| `Numbers`, `Figures` | Reading of numbers by locale; clock times, dates, rates, counted nouns, quantities. |
| `Lines`, `Conflict` | Where a claim ends, names, headings, the glossary; detect_conflict and the collapse of near-duplicates. |
| `Tables` | The word tables of the code, from which a run draws its vocabularies. |
| `ModelCalls` | The model calls of one ingest and the host's fulfilment of one request. |
| `Extraction`, `Evidence`, `Schemas` | Blocks and headings of each format, repair of PDF text; chunks, units, the structure index and its retriever; the scanners of SQL and OpenAPI. |
| `Language` | Tokens, scripts, the heuristic detector, the language of an answer. |
| `Setup`, `Rebuild`, `Crawl` | Settings and what a client is built from, scopes and the access filter; plugins, stamps and the rebuild planner; crawls and the code and schema facades. |
| `MC*` | Values of the constants, and for the pure algorithms (`MCRules`, `MCDocuments`) the inputs, written element by element so that TLC enumerates every short one. |
| `Foundations`, `*_proofs` | Lemmas and theorems, section 6. |

Definitions whose comment calls them a variant (for example `RecordRetiresNone`
beside `Record`) are not part of any specification. They are plausible mistakes in
the definition that follows them, and each property was seen to fail with one.

What the abstractions leave out:

- `Corpus`: a checksum stands for the bytes; `Units[s]` are the positions the
  extractor fills for them. A row is a document, a position and a checksum: vectors,
  text and scores play no part in which rows exist. The wiki is the set of documents
  with a page and the graph the set of rows it was built from, each saved in one
  write; `Knowledge` has their insides. A prefix delete reaches the documents
  of `Within[d]`, whose image keys lie under `d`'s prefix, and of `IndexWithin[d]`, whose
  index keys begin with `d`'s: on S3 any key that begins so, locally a folder of that
  name. Both are constants that may relate any documents. `CiteNexus` never passes a queue.
- `DeepAsk`, `Ask`, `VerifyAnswer`: what a text says is a relation between claims
  and units, chosen where a model or a checker decides it. `Tier[u]` is one more than
  the code's rank (unknown is -1 there). A search returns no unit twice, which fusion
  by unit id ensures. In `Ask` the order of recalled texts, hooks and telemetry are
  left out; another asker's save happens before a recall or a save only, which
  commutes with every other step.
- `Knowledge`: slugs are distinct and none is a prefix of another. Legacy single-blob
  pages, markdown twins, the journal and lint are left out.
- The rules: a text is its sequence of tokens and breaks; the regular expressions
  that cut characters into tokens, the value rows of a table (`verify_parties.py`
  310-353) and accents are left out. Numbers stay below 2^31. A marker is one that
  both LIST_MARKER and _HEADING_MARKER read. Of the amounts that a hedge may
  stand before, those with a currency or a per cent sign are one class; the ranges
  "between a and b" are left out.
- `ModelCalls`: a reply misses items or has extras, never both; an index that a reply
  carries is honest; a reply without indexes keeps the order of the request; one
  transport call returns or raises, and what an error says is left out but for the
  host's scrubbing of it.
- `Crawl`: a file is its path, whether it is code, and where its ingest raises; the saved
  graph is the documents it was built from. Each of the steps between which an
  exception makes a difference is a place where one may be raised.
- `Extraction` and `Schemas` begin behind the parsers of the libraries; `Language`
  has Unicode's tables as constants, and leaves the fastText model out.

## 3. Runs

| Run | States | Instance | Question |
| --- | --- | --- | --- |
| `corpus_evidence` | 413,197 | 2 documents, one of whose index key begins with the other's, 2 checksums (1 and 2 units), signals `text` and `structure`, 1 client | Do manifest, rows, blobs and structure keep agreeing, crashes anywhere? |
| `corpus_navigation` | 570,363 | 2 documents, 2 checksums of one and the same unit, signals `text`, `graph`, `wiki`, symmetry in documents and checksums, 1 client | Does navigation, lazily rebuilt or refreshed, ever point at what is gone? |
| `reconcile_remediate` | 840,438 | 2 declared corpora (d1 at v1, or at v2 with v1 superseded; d2 in neither) and one report | Does a clean report mean agreement, does a stale one harm nobody? |
| `queue_worker` | 95,069 | 2 jobs, 2 attempts, 1 worker, 2 kills, 2 operator calls | Is each job settled, and neither lost, buried early nor finished unrun? |
| `knowledge` | 540,906 | 2 documents, 2 units, 1 writer, 2 readers, 4 operations, k = 1 | Do questions find no revoked evidence, and does navigation lead to rows? |
| `deep_ask` | 11,256 | 4 units of 3 standings, 3 claims, 1 contradiction, three budgets | Do budget, gate, floor and refusal reasons hold for any tools and any deadline? |
| `ask` | 496,452 | 2 asks in one conversation, 1 other writer, 4 units, 2 retrievers | Is each answer one a grounded answer may be, and each refusal explained? |
| `verify_answer` | 398,665 | answers of up to 2 pieces, 4 units, 4 combinations of options | Do sources have standing, markers reach claims, reasons fit verdicts? |
| `rules` | 312,226 | every text of up to 4 tokens (5 for conditions, parties and splitting, 3 for lines and the glossary), every two short spellings of numbers, every two passages of a feature set | Do the rules refuse what inverts, widens or renumbers, and pass a quotation? |
| `documents` | 171,211 | every text of up to 6 gaps, documents of 3 or 4 elements per format, sources of 5 tokens, words of 4 characters, configurations, sites and folders of 3 or 4 parts, any file and the rebuild raising anywhere | Is text kept, each source read, each word read, each setting kept, each intake whole or marked, each reply paired? |
| `corpus_stranded_bytes`, `tokens_unknown` | | as above, one property each | Statements of the documentation the code does not keep; section 5. |

Bounds. Two documents are enough for one to share, inherit or lose what the other owns;
two checksums of different length give A, B, A, shared blobs and surplus rows. The
Corpus runs have no bound on the number of calls or crashes: their state space is
finite. The queue bounds kills (`MaxCrashes`) and operator calls (`MaxCalls`); two of
each let a kill hit a resume and a re-drive hit a re-run. `MaxOps` of `knowledge` lets a
document be ingested, revoked and ingested again under a question, and two readers
contend for one rebuild. DeepAsk's bounds are the code's own budgets; one of the run's
exhausts its tool calls first, another its hops, and three slots for four units fill the
pool; the third allows no unit at all. In `ask` a second question meets the turn and the
cached rewrite of the first (`MaxAsks`), the turn limit is met (`MaxTurns`), `TopN` = 1
and `Window` = 2 leave units outside the reranked head and the conflict window, and two
attempts stand for the code's five of `_MAX_GENERATION_ATTEMPTS`. The vocabularies of
`rules` have one word of each class a rule tells apart, and its lengths are those at
which each rule's interesting case fits: a condition with its opener, a party and two
conditions; a group of digits on both sides of a mark.

`CHECK_DEADLOCK FALSE` is set where a run really ends: bounded asks and operations,
one deep ask, one answer, texts of bounded length, a queue whose jobs are settled.
The Corpus and Reconcile runs check deadlock. Symmetry is used only where a run
checks no liveness, and the signals and images of that run tell no document or
checksum from another.

Fairness. `DurableQueue` assumes `WF(Work)` of each worker: an executor that runs
goes on, a killed worker comes back and resumes; nothing makes an operator act or a
runner succeed. `DeepAsk` assumes weak fairness of the library's own steps and of the
deadline; no search, decision or generation is assumed ever to return. The code
justifies it with `thread.join(timeout)`. All other runs check safety only and assume
none.

## 4. Properties that hold

Checked by TLC; those marked * are also proved for every value of the constants.

- `CurrentNeverRetired`* - a purge can never take the bytes just committed.
- `CitedBytesKept`* - a row of a document's current version cites bytes that exist.
- `OthersUntouched`* - a call changes only its own document, but for images and indexes
  under the prefixes that a revoke deletes.
- `RevokedIsGone`*, `IngestedIsComplete`* - what `deleted` and `ingested` promise.
- `NavigationKnown`*, `CleanedWhenCurrent`* - graph, wiki and the dirty marker.
- `CleanReportMeansAgreement`*, `RemediationForgets`* - reports and remediation.
- `DoneHasRun`*, `AttemptsPerKill`*, and `EventuallySettled` under fairness.
- `RevokedNotFound`*, `OneRebuildPerMark`*, `NavigationGrounded`* - questions beside a
  writer: nothing that was revoked before the question is found; one rebuild per
  mark; an index that tells the truth and a graph that stands on units.
- `WithinBudget`*, `RefusalExplained`*, and `Terminates` under fairness.
- `ImplementsGroundedAnswer`*, of `Ask` and of `DeepAsk` - cite or abstain, once.
- `UnreadableToldNotQuoted`*, `RefusalNamesItsCause`* - what a strict refusal says.
- `SourcesHaveStanding`*, `ReasonIsHonest`*, `MarkersReachClaims`*, `ConflictsSettled`*.
- `Alignment`*, `FiguresBacked`*, `Conflicts`*, `QuotationPasses`, `LimitsKept` - of the
  rules, over every short text; what is starred holds over texts of any length.
- `TextKept`*, `SourceRead`, `WordsRead`*, `SetUpAsSaid`*, `IntakeKept`* - of extraction,
  chunking, tokens, configuration, plugins and scopes, crawls and folders of code, over
  every short input; what is starred holds over inputs of any length.
- `RowsCarryTheirOwnVectors`*, `FiguresCited`*, `HeadersGuarded`* - of model calls.

## 5. Where the code and its documentation part

Two are runs that TLC finds violated, with the text they quote in PROJECT.json under
`findings`:

- `RevokeLeavesNoBytes`: the raw blob is put before the manifest names it, so an
  interrupted ingest leaves bytes no revoke can find.
- `UnknownIsSilent`: text is normalised before it is cut into tokens, so a character
  that is reported as of an unknown script may yield a token all the same.

Met while modelling, and modelled as the code does it:

- A revoke deletes the images of documents whose id extends the revoked one by a path
  segment, and the structure index of those whose index key begins with its own
  (`client.py` 546, `storage/backend.py` 131-144): on S3 revoking "a" takes the index of
  "a.json", locally those of "a.json/...". `client.py` 526-527 says that every other
  document is untouched; `OthersFilesUntouched` of Corpus says so of these files, and
  fails. An orphan known by its rows alone is reported, "removed" as `absent`, and
  reported again. `max_attempts` bounds the executions of one worker life, not of a job.
- A stale graph without a marker: an ingest dies between its commit and `mark_dirty`
  (`client.py` 477, `ingest/pipeline.py` 244), against what `graph/store.py` 120-122
  says; a writer and a reader can lose a mark in the same way.
- A code or schema intake in which an ingest raises behind its record, in the stamp or
  the purge (`ingest/pipeline.py` 245-252), leaves that document recorded and the graph
  unmarked without it; the next call rebuilds whatever it takes in, and mends it.
- `answer/agentic.py` 267-271: the pool is compared with `max_evidence_units` after a
  unit is taken in, so a budget of none (which nothing rejects) pools one.
- `answer/agentic.py` 146-147, 378: a search that uses up the timeout leaves none for
  the generator, so a full pool is refused.
- `wiki/retrieve.py` 73: a hit of the wiki carries no passage, so what is quoted may
  be the enriched text that `retrieve/types.py` 42-43 reserves for the index. This is
  why `AskCitesOrAbstains` is proved under `Quoting`.
- The fan-out is not additive (`retrieve/engine.py` 82, `src/docs/adr/0013`): a list
  that fusion takes in can push out a unit found without it.
- A turn saved by two askers at once is lost (`memory/store.py` 44-52).
- The gate accepts a claim that starts behind, or ends before, the passage's
  negation. "5 amendments" is read as a clock time (`answer/numbers.py` 378-380);
  "half month" is no quantity; "permitted" against "prohibited" is a swap one way
  only; "No." is an abbreviation, so the sentence behind it is not split off; a claim
  may add a year to a date the passage states without one.
- `extract/html.py` 169: a heading's path holds the sibling it closed, and blocks are
  not in document order (92-93). A chunk that carries an overlap may exceed its bound
  (`evidence/chunker.py` 10, 51, 64). The repair of Tamil is not idempotent
  (`extract/pdf.py` 38). The OpenAPI scanner raises on a truncated document
  (`extract/schema_openapi.py` 17). The code extractor drops statements between
  symbols.
- `tokenize.py`: some 25 characters, U+0149 and U+1E9A among them, are reported as
  readable and normalise to one of an unknown script besides a letter, which is
  dropped with no word of it. `WordsRead` is about what a text normalises to.
- `ingest` embeds under `signals=["text"]` when an embedder is set
  (`ingest/pipeline.py` 202, `config/signals.py` 5). A `minimum_tier` that the order
  does not name is no floor. A storage prefix counts for vectors and not for objects
  (`client.py` 958). An explicit default language of "en" loses to the fallback. Plugin
  registry, rebuild planner, `validate_client` and the access filter are not called
  by the client.

## 6. Proofs

All theorems are about any value of the constants that satisfies the ASSUMEs of the
module, which TLC evaluates on every run, and the hypotheses named here.

`Foundations` holds what several proofs need: a least number, induction and recursion
over data stated with sets (the induction theorems of the library take an operator,
which the provers cannot instantiate), what `Within` keeps, places in a finite order.

`Corpus_proofs`. For any number of clients: `TypeCorrect`; `NeverRetired`, which is
not inductive alone, for a client may save an older copy, and is strengthened to
every copy a call carries. Under `SoloClient` (any two clients are equal): `CitedBytes`,
`Reachable`, `Others` from `SoloInv`, which adds what a call relies on (its copy is
the saved manifest, the bytes it will cite are there, a revoke has removed the rows
first) and what it has done so far (blobs that left `todo` are gone or owned by
another); `Revoked`, `Complete`, `NavigationStaysKnown`, `CleanMeansCurrent` from
`LayerInv`, which says of each layer at which step of a call it may still name the
document. `SoloClient` is needed: the code has no lock that lets two writers share a
partition, a saved copy of the manifest overwrites the other's, and with two clients
most of these properties are false. `CurrentNeverRetired` survives even that.

The same module goes on to Reconcile. For any number of clients:
`ReconcileImplementsCorpus` (each step of a desk is a step of Corpus or a stutter) and
`ReconcileTypeCorrect`. Under `SoloClient`: `CleanReportsAgree`,
`RemediationIsForgetting`, `RemediationSparing`. They take over the invariants of
Corpus through the refinement.

`DurableQueue_proofs`. For any workers: `QueueTypeCorrect`, `QueueDoneHasRun`. For a sole
worker: `QueueAttemptsPerKill`, `QueueDeadAfterAllAttempts`, `QueueNoneStranded`,
`QueueTerminalStays`. A sole worker is needed: a lease reads, then updates without
comparing, so two workers may lease one job (`worker/queue.py` 123).

`Knowledge_proofs`. For any writers and readers: `RebuildsAreDue`, `GraphStaysGrounded`,
`RevokedIsNotFound`. The last needs `FoundInv`: whatever a reader holds at each step
of its walk, a candidate it may still return was in the index after the question
was asked. For a sole writer whose pages share no file: `NavigationIsGrounded`,
from `PagesInv` and `LeadInv`; two writers lose an entry of the index, which is read
and written whole.

`Ask_proofs`. For any constants: `UnreadableIsTold`, `RefusalsNameTheirCause`, from
`RetrievedInv` (what has passed each gate) and `PhaseInv` (what a phase still leaves
possible). Under `Quoting`, that every retriever hands over the passage itself:
`AskCitesOrAbstains`, the refinement of `GroundedAnswer`.

`DeepAsk_proofs`. `TypeCorrect`, `BudgetKept`, `ClaimsSupported`, `FloorKept`,
`ConflictsSurface`, `RefusalsExplained`, and the refinement `DeepAskCitesOrAbstains`.
The sequence lemmas come first. `Arrange` is the core: if R is a strict total order on a
finite set, `Arranged` lists each element once and in that order, because the number of
elements before it is a bijection onto the positions. `IInv` is inductive: no repetition
and room in the pool whenever another hop may come; a search about to be made is paid
for by its hop; the generator runs over evidence only. `ConflictsSurface` speaks of
pools that fit the window, as over a larger one the code compares a prefix only.

`VerifyAnswer_proofs`. For any answer, evidence, options and replies of the checker:
`VerdictsHaveStanding`, `ReasonsAreHonest`, `NoMarkerIsLost`, `ConflictsAreSettled`.
`CheckInv` says what each candidate has been through at each step of the check,
`SettledInv` what the pass over conflicts has settled so far. `NoMarkerIsLost` is an
induction over the pieces of the answer. The hypotheses are the ASSUMEs of the
module: ids are unique, as the code demands (585-596), and disagreement is the same
either way round. The last is a theorem as well, `DisagreementIsMutual`, which the same
module derives from `ConflictIsSymmetric`: two pairs of words that oppose the same
passages have a word in common, or each would leave two over, and no word of the
tables is inclusive in one pair and exclusive in another (`TablesAssumption`).
`CollapseKeepsOneOfEach` and `ContradictionsCountTwice` are about near-duplicates, the
first for any list of passages.

Of the rules' own run (its specification is `Writing`) three invariants are theorems, for
texts of any length and any gaps. `Drafted` says what has been written: of an order words
of the vocabulary on both sides (`Worded`), of passages at most one on a side and the
second only against a first (`Faced`), of a number its pieces (`Pieced`).

- `AlignmentHolds`. `AlignmentIsExact`: each row of the table of `align` is exact
  (`RowExact`: every cell is a way to find the prefix, and no way is cheaper than a
  cell), by induction over the claim; the start of a match follows from its end and its
  cost. The inversions rest on it: words of a match lie at least as far apart as in the
  claim, so a claim that lacks one inner word of the passage either skips nothing, and
  stands there as written, or spans all of the passage, and then has the dropped marker
  once less than the match. `MarksAssumption` keeps clause breaks out of the
  vocabulary, as `TokensOf` takes them away by SelectSeq, which the provers do not know.
- `ConflictsHold`. For any two passages of the run's features, finite as they are.
- `FiguresBackedAlways`, from two theorems of its own. `FiguresAreBacked` is about any two
  spellings of any number of groups and any two languages: the guard finds one span in
  such a text (`Single`), so what it lets pass (`Passes`) is spelled or read as the
  passage's (`SameFigure`), and by `NumbersReadAsWritten` what is read is all that a writer
  of the language can mean (`Meant`). That one goes through the forms of `read_number`;
  its hypothesis `Spelling` is what the pattern of the code matches, one mark between any
  two groups. `BlankAssumption` says that no entry of the tables is the empty word.
  `DutchNumbersAreRead` reads back every Dutch number below a million, written with no
  "een" before "honderd" and "duizend". The two recursions of the code cut at a word
  (`ThousandsUnfold`, `HundredsUnfold`, `CutAt`); that the units, teens and tens of the
  code's table never contain "duizend" or "honderd" makes the cut unique. The words
  themselves are those of `MCRules`, which `FigureTables` ties to the code's tables.

`ModelCalls_proofs`. For any documents, limits, batch size, endpoints and headers:
`RowsKeepTheirVectors`, `FiguresAreCited`, `HeadersStayGuarded`. `FiguresCited` says
nothing while requests are still being answered; `FiguresInv` adds that requests are
distinct and are all that pass or none, and that what is kept so far is what was
replied so far, no more. `RowsInv` adds that the vectors so far are those of the units
so far: a batch is the units that come next, and a reply put in order by index has
each vector where its text is, because a permutation that never falls is the
identity. The ASSUMEs take widths, heights and areas for numbers of at least 0, and
suppose that no value of the environment is itself a template. Of the client that makes
the calls, for any configuration: `ClientsReadWhatTheyWrite`, and `FloorsHold`, which
needs that no tier has the name that stands for none (`TierAssumption`).

The same module proves four invariants of the `documents` run (its specification is
`Reading`) for inputs of any length. `WrittenInv` says that what is written is made of
the pieces of its kind, and what `WriteElement` keeps out (`Layered`, `PageByPage`, no
path twice) stays out.

- `SetUpIsAsSaid` puts together what is proved for any settings, plugins and scopes.
  `LastWordIsKept`: a merge of two layers has, on each path, the value of the later one
  that says anything on it or on a section through it, and `Top` names that layer for
  three. `RebuildsAreMinimal`: the closure downwards that the planner computes is, layer
  by layer, what `Reach` lists, and that is the code's matrix at each stage.
- `IntakeIsKept`, for any links and files. `CrawlsKeepTheirBounds`: the loop of a crawl
  keeps `Breadth`, namely what is taken (`Taken`), what waits in the queue and in which
  order (`Waiting`), where each page stands (`Placed`: it is reached at a least depth, and
  no queue entry is nearer), that every link of it was followed (`Followed`), and that
  nearer pages come first (`Nearest`); the loop ends, for each turn lowers `Ahead`, the
  queue together with the links of pages not yet taken. `CodeIsTakenWhole` and
  `SchemaIsTakenWhole` are about the facades, wherever an ingest or the rebuild raises:
  `Stored` says that what is recorded has its rows, the calls keep it, and what a call
  that raised left behind is what the next one finds.
- `TextIsKept`. The splitting into pieces is a fixpoint over their size (`FitStep`), so
  `Fitted`, which is what a list of pieces has to be (`Chained`: they lie next to each
  other; each has room; a cut lies only where the words around it are too many,
  `Parted`), is proved by induction over the size. The packing keeps `Covering`: the
  chunks so far (`IsChunk`) reach from the first word to the one last packed, and each
  goes on where the one before ended or within its tail (`GoesOn`). `BoundsAssumption`:
  a chunk has room for a word.
- `WordsAreRead`. `QuotationsAlign` compares the scan of a text with that of a quotation,
  character by character: the text's `Lags`, its output and its run end with those of
  the quotation (`Trails`), and a longer run only in a spaceless script before the first
  token. Behind the quotation's end its tokens are in the output already or `Awaited` from
  the open run. That what is readable is read keeps `Got` (a character is in a token or
  in the run) and `Steady` (a run has one script) unless `Excused` by a run of an unknown
  script. `LanguageAssumption` and `WordsAssumption` say that Unicode's tables cover the
  characters that are written.

Only model-checked:

- Liveness (`EventuallySettled`, `Terminates`), out of the prover's reach as is ENABLED.
- `SourceRead`: it compares the recursive scanners and the builders of blocks of every
  format with a reading of the whole source. What they pick they pick with SelectSeq, to
  which the provers give no definition.
- `QuotationPasses` and `LimitsKept`: they say what dozens of guards do together, which
  fold over spans of a text or count the words that SelectSeq leaves of one; each would
  be an induction over data of its own.

## 7. Plan

What was planned is done: every invariant and action property of a run is proved but
for the three above. What would come next:

1. What the guards never refuse, a quotation word for word, guard by guard: with
   SelectSeq written as `Within` where its order plays no part, those that only look
   for a word of a table (hedges, exclusions, conditions) come first.
2. The scanners of `Schemas` for any source, as the chunker was done: the state before
   each token as a function of its place.
3. The fastText detector and the journal of the wiki are not modelled.
