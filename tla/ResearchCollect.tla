-------------------------- MODULE ResearchCollect ---------------------------
(***************************************************************************)
(* scripts/kalshi_collect_research.py: a run discovers the series, pulls   *)
(* the PDFs with their contract terms, builds the registry of candidates   *)
(* and writes the reports, each step with a connection of its own, and the *)
(* next only if it succeeded.  One run at a time; it may skip steps, die   *)
(* anywhere and be started again, while the exchange lists new series and  *)
(* revises its documents.  SQLite: on Postgres only some steps commit.     *)
(***************************************************************************)
EXTENDS Integers, Sequences

CONSTANTS
    Series,      \* series of the exchange
    Url,         \* documents with contract terms
    SameName,    \* those whose URLs end in the same file name
    MaxVersion,  \* bound on the revisions of a document
    CommitEvery, \* rows of contract terms to a commit
    MaxStarts    \* bound on the runs

File == {u \in Url : u \notin SameName \/ u = CHOOSE s \in SameName : TRUE}
PathOf(u) == IF u \in SameName THEN CHOOSE s \in SameName : TRUE ELSE u

\* Contents of a file: a version of a document, or a part of it; or no file.
Contents == [of : Url, version : 1..MaxVersion, whole : BOOLEAN]
Nothing  == [of |-> "nothing", version |-> 0, whole |-> FALSE]

VARIABLES
    listed,     \* series the exchange has
    version,    \* of each document
    series,     \* table kalshi_series
    file,       \* contents of each local file
    terms,      \* table kalshi_contract_terms: per URL what its row describes
    candidates, \* table kalshi_lag_candidates
    registry,   \* the series of the JSON file
    stage,      \* the step of the run
    staged,     \* series written and not committed
    entries,    \* the registry in memory
    todo,       \* URLs the bucket lists and the run has not come to
    rows,       \* contract terms written and not committed
    count,      \* contract terms so far, modulo CommitEvery
    starts      \* runs so far (history)

exchange == <<listed, version>>
tables   == <<series, terms, candidates>>
rcRun    == <<stage, staged, entries, todo, rows, count, starts>>
rcVars   == <<exchange, tables, file, registry, rcRun>>

NoRows == [u \in Url |-> Nothing]

Init ==
    /\ listed \in SUBSET Series /\ version = [u \in Url |-> 1]
    /\ series = {} /\ candidates = {} /\ terms = NoRows
    /\ file = [f \in File |-> Nothing] /\ registry = {}
    /\ stage = "idle" /\ staged = {} /\ entries = {} /\ todo = {}
    /\ rows = NoRows /\ count = 0 /\ starts = 0

\* The exchange.
Relist ==
    /\ listed' \in SUBSET Series /\ UNCHANGED <<version, tables, file, registry, rcRun>>

Revise(u) ==
    /\ version[u] < MaxVersion /\ version' = [version EXCEPT ![u] = @ + 1]
    /\ UNCHANGED <<listed, tables, file, registry, rcRun>>

-----------------------------------------------------------------------------
(* The steps.  Each may be skipped by an option.                           *)

Steps == <<"discover", "terms", "registry", "analysis", "ended">>
OnTo(i) == stage' \in {Steps[j] : j \in i..Len(Steps)}

Start ==
    /\ stage \in {"idle", "ended", "failed"} /\ starts < MaxStarts
    /\ starts' = starts + 1 /\ OnTo(1)
    /\ todo' = IF stage' \in {"discover", "terms"} THEN Url ELSE {}
    /\ UNCHANGED <<exchange, tables, file, registry, staged, entries, rows, count>>

\* kalshi_series_discover: the pages of a category, then a commit.
UpsertSeries(page) == staged' = staged \cup page

SeriesPage ==
    /\ stage = "discover"
    /\ \E page \in SUBSET listed : ~(page \subseteq staged) /\ UpsertSeries(page)
    /\ UNCHANGED <<exchange, tables, file, registry, stage, entries, todo, rows, count, starts>>

CommitSeries ==
    /\ stage = "discover"
    /\ series' = series \cup staged /\ staged' = {}
    /\ UNCHANGED stage \/ OnTo(2)
    /\ todo' = IF stage' \in {"discover", "terms"} THEN Url ELSE {}
    /\ UNCHANGED <<exchange, terms, candidates, file, registry, entries, rows, count, starts>>

\* upsert_contract_term, and the commit of the first row of every batch.
Upsert(u, contents) ==
    LET written == [rows EXCEPT ![u] = contents]
    IN  /\ count' = (count + 1) % CommitEvery
        /\ IF count = 0
           THEN /\ terms' = [w \in Url |-> IF written[w] # Nothing THEN written[w] ELSE terms[w]]
                /\ rows' = NoRows
           ELSE rows' = written /\ UNCHANGED terms

\* download_contract_term: a file that is there is not asked for again.
Keeps_Never(u) == FALSE
Keeps(u) == file[PathOf(u)] # Nothing

ReadTerm(u) ==
    /\ stage = "terms" /\ u \in todo /\ Keeps(u)
    /\ Upsert(u, file[PathOf(u)]) /\ todo' = todo \ {u}
    /\ UNCHANGED <<exchange, series, candidates, file, registry, stage, staged, entries, starts>>

Download(u) ==
    /\ stage = "terms" /\ u \in todo /\ ~Keeps(u)
    /\ LET contents == [of |-> u, version |-> version[u], whole |-> TRUE]
       IN  /\ file' = [file EXCEPT ![PathOf(u)] = contents]
           /\ Upsert(u, contents)
    /\ todo' = todo \ {u}
    /\ UNCHANGED <<exchange, series, candidates, registry, stage, staged, entries, starts>>

\* The retries of a download are used up: the document is skipped.
SkipTerm(u) ==
    /\ stage = "terms" /\ u \in todo /\ ~Keeps(u) /\ todo' = todo \ {u}
    /\ UNCHANGED <<exchange, tables, file, registry, stage, staged, entries, rows, count, starts>>

\* The listing is at its end, or the caps on pages and files are reached.
CommitTerms ==
    /\ stage = "terms"
    /\ terms' = [u \in Url |-> IF rows[u] # Nothing THEN rows[u] ELSE terms[u]]
    /\ rows' = NoRows /\ todo' = {} /\ count' = 0 /\ OnTo(3)
    /\ UNCHANGED <<exchange, series, candidates, file, registry, staged, entries, starts>>

\* kalshi_registry_build: the candidates are committed, and the files are
\* written after that.
StoreCandidates_Later(all) == entries' = all /\ UNCHANGED candidates
StoreCandidates(all) == entries' = all /\ candidates' = candidates \cup all

\* Every series of the table, or under an option those with the best scores.
Registries == SUBSET series

BuildRegistry ==
    /\ stage = "registry" /\ stage' = "files"
    /\ \E best \in Registries : StoreCandidates(best)
    /\ UNCHANGED <<exchange, series, terms, file, registry, staged, todo, rows, count, starts>>

WriteRegistry ==
    /\ stage = "files" /\ registry' = entries /\ entries' = {}
    /\ OnTo(4)
    /\ UNCHANGED <<exchange, tables, file, staged, todo, rows, count, starts>>

\* collect_analysis_summary and its files only read the tables.
Analyse ==
    /\ stage = "analysis" /\ stage' = "ended"
    /\ UNCHANGED <<exchange, tables, file, registry, staged, entries, todo, rows, count, starts>>

\* An exception nothing catches, or a kill: in the middle of a PDF, too.  (A
\* registry file that is torn does not parse, and is no registry.)
Fails ==
    /\ stage \notin {"idle", "ended", "failed"} /\ stage' = "failed"
    /\ staged' = {} /\ entries' = {} /\ rows' = NoRows /\ todo' = {} /\ count' = 0
    /\ UNCHANGED <<exchange, tables, registry, starts>>

Fail == Fails /\ UNCHANGED file

TearFile(u) ==
    /\ stage = "terms" /\ u \in todo /\ ~Keeps(u) /\ Fails
    /\ file' = [file EXCEPT ![PathOf(u)] = [of |-> u, version |-> version[u], whole |-> FALSE]]

Next ==
    \/ Relist \/ (\E u \in Url : Revise(u))
    \/ Start \/ SeriesPage \/ CommitSeries
    \/ (\E u \in Url : ReadTerm(u) \/ Download(u) \/ SkipTerm(u))
    \/ CommitTerms \/ BuildRegistry \/ WriteRegistry \/ Analyse
    \/ Fail \/ (\E u \in Url : TearFile(u))

Spec == Init /\ [][Next]_rcVars

-----------------------------------------------------------------------------
(* Properties                                                              *)

Described == Contents \cup {Nothing}

TypeOK ==
    /\ listed \subseteq Series /\ version \in [Url -> 1..MaxVersion]
    /\ series \subseteq Series /\ candidates \subseteq Series
    /\ terms \in [Url -> Described] /\ file \in [File -> Described]
    /\ registry \subseteq Series
    /\ stage \in {"idle", "discover", "terms", "registry", "files", "analysis", "ended", "failed"}
    /\ staged \subseteq Series /\ entries \subseteq Series /\ todo \subseteq Url
    /\ rows \in [Url -> Described] /\ count \in 0..(CommitEvery - 1)
    /\ starts \in 0..MaxStarts

\* Size and hash of a committed row are those of the file it names, whatever
\* revisions, deaths and retries came between the two; and every series of
\* the registry file is a committed candidate, and each of those a series.
ResearchIsStored ==
    /\ \A u \in Url : terms[u] # Nothing => terms[u] = file[PathOf(u)]
    /\ registry \subseteq candidates /\ candidates \subseteq series
=============================================================================
