----------------------------- MODULE LogSearch -----------------------------
(****************************************************************************)
(* The log search page (LogSearch.tsx) over the bounded scan behind it      *)
(* (logsearch.py): the newest logs are read until a bound stops the scan,   *)
(* and the page words its claims by what the scan reports.  A log is the    *)
(* sequence of its lines, each read or not as a whole; a line may match     *)
(* within its first MAX_MATCH_BYTES, which are all that is looked at, or    *)
(* only past them.                                                          *)
(****************************************************************************)
EXTENDS Integers, Sequences, FiniteSets

CONSTANTS
    MaxFiles,   \* logs in scope
    MaxLines    \* lines of one log

ASSUME SearchAssumption == MaxFiles \in Nat /\ MaxLines \in Nat \ {0}

VARIABLES
    files,      \* the logs in scope, newest run first, one log per run
    filters,    \* the bounds in the form
    inFlight,   \* the search asked, with its filters, or none
    result,     \* the answer on screen, or none
    ran,        \* the filters it was asked with
    failed      \* the error banner

searchVars == <<files, filters, inFlight, result, ran, failed>>

Line  == {"plain", "match", "match_past"}
Lines == UNION {[1 .. n -> Line] : n \in 1 .. MaxLines}
\* A log that can be read: masking the secrets in what is read of it makes that
\* shorter or longer by `masked`.
File == [lines : Lines, state : {"readable"}, masked : {-1, 0, 1}]
          \cup [lines : {<<"match">>}, state : {"missing", "outside"}, masked : {0}]

Wide == [limit |-> MaxFiles * MaxLines + 1, maxFiles |-> MaxFiles + 1, maxBytes |-> MaxLines]
Filters == {Wide, [Wide EXCEPT !.limit = 1], [Wide EXCEPT !.maxFiles = 1], [Wide EXCEPT !.maxBytes = 1]}
NoSearch == [ask |-> Wide, at |-> "idle"]
NoResult == [shown |-> FALSE]

\* A read of cap lines counts as cut when the file is longer than what was read of it,
\* measured after the masking; of a cut read the last line is dropped.
ReadOf(f, cap) == IF Len(f.lines) > cap THEN cap ELSE Len(f.lines)
IsCut(f, cap) == Len(f.lines) > ReadOf(f, cap) + f.masked
Searched(f, cap) == ReadOf(f, cap) - (IF IsCut(f, cap) THEN 1 ELSE 0)
Seen(f, cap) == {k \in 1 .. Searched(f, cap) : f.lines[k] = "match"}

\* The lines that match in what is read of the first n logs and of `mid` lines of the
\* next, and how many logs a scan reads: the deadline passes after `late` logs (the
\* bound on all the bytes of a search stops it the same way), and a full answer ends it
\* at once.
Found(ask, n, mid) ==
    {p \in (1 .. Len(files)) \X (1 .. MaxLines) :
        /\ files[p[1]].state = "readable" /\ p[2] \in Seen(files[p[1]], ask.maxBytes)
        /\ p[1] <= n \/ (p[1] = n + 1 /\ p[2] <= mid)}
Full(ask) == {n \in 1 .. Len(files) : Cardinality(Found(ask, n, 0)) >= ask.limit}
Rows(ask, late) ==
    LET stops == {Len(files), ask.maxFiles, late} \cup Full(ask)
    IN  CHOOSE n \in stops : \A m \in stops : n <= m

\* The deadline may also be noticed inside the next log, after some of its lines.
Deadlines(ask) ==
    {d \in [late : 0 .. Len(files), mid : 0 .. MaxLines] :
        d.mid > 0 => /\ d.late < Len(files) /\ files[d.late + 1].state = "readable"
                     /\ d.mid < Searched(files[d.late + 1], ask.maxBytes)}

\* The answer holds the first `limit` of them.
First(found, limit) ==
    LET UpTo(p) == {q \in found : q[1] < p[1] \/ (q[1] = p[1] /\ q[2] <= p[2])}
    IN  {p \in found : Cardinality(UpTo(p)) <= limit}

Scan(ask, d) ==
    LET rows   == Rows(ask, d.late)
        inside == rows = d.late /\ rows # ask.maxFiles /\ rows \notin Full(ask) /\ d.mid > 0
        found  == Found(ask, rows, IF inside THEN d.mid ELSE 0)
        Are(s) == {i \in 1 .. (IF inside THEN rows + 1 ELSE rows) : files[i].state = s}
    IN  [matches   |-> First(found, ask.limit),
         truncated |-> Cardinality({i \in Are("readable") : IsCut(files[i], ask.maxBytes)}),
         missing   |-> Cardinality(Are("missing")),
         outside   |-> Cardinality(Are("outside")),
         stop      |-> IF Cardinality(found) >= ask.limit THEN "limit"
                       ELSE IF rows = ask.maxFiles THEN "max_files"
                       ELSE IF rows < Len(files) THEN "timeout" ELSE "none"]

\* Mutant of Complete: the files it declined to open are forgotten.
CompleteOutside(s) == s.stop = "none"
\* The scan's licence for claims about history.
Complete(s) == s.stop = "none" /\ s.outside = 0

\* What the page draws from an answer: the oldest match is on the last file of the set.
Answer(ask, d) ==
    LET s == Scan(ask, d)
        hits == {p[1] : p \in s.matches}
    IN  [shown |-> TRUE, complete |-> Complete(s), caveats |-> s.truncated + s.missing,
         stoppedBy |-> s.stop, matches |-> s.matches,
         oldest |-> IF hits = {} THEN 0 ELSE CHOOSE i \in hits : \A j \in hits : j <= i]

SearchInit ==
    /\ files \in UNION {[1 .. n -> File] : n \in 0 .. MaxFiles}
    /\ filters = Wide /\ inFlight = NoSearch /\ result = NoResult /\ ran = Wide /\ failed = FALSE

SetFilter ==
    /\ \E f \in Filters : filters' = f
    /\ UNCHANGED <<files, inFlight, result, ran, failed>>

\* The button is disabled while a search is out; the old answer is covered by it.
RunSearch ==
    /\ inFlight.at = "idle"
    /\ inFlight' = [ask |-> filters, at |-> "asked"] /\ failed' = FALSE
    /\ UNCHANGED <<files, filters, result, ran>>

LandSearch ==
    /\ inFlight.at = "asked" /\ inFlight' = NoSearch
    /\ \E d \in Deadlines(inFlight.ask) : result' = Answer(inFlight.ask, d)
    /\ ran' = inFlight.ask
    /\ UNCHANGED <<files, filters, failed>>

SearchFails ==
    /\ inFlight.at = "asked" /\ inFlight' = NoSearch
    /\ result' = NoResult /\ ran' = Wide /\ failed' = TRUE
    /\ UNCHANGED <<files, filters>>

\* Clear empties the page; a search that is out still lands.
Clear ==
    /\ filters' = Wide /\ result' = NoResult /\ ran' = Wide /\ failed' = FALSE
    /\ UNCHANGED <<files, inFlight>>

SearchNext == SetFilter \/ RunSearch \/ LandSearch \/ SearchFails \/ Clear
SearchSpec == SearchInit /\ [][SearchNext]_searchVars

----------------------------------------------------------------------------
Shown == result.shown /\ inFlight.at = "idle" /\ ~failed
AllMatches ==
    {p \in (1 .. Len(files)) \X (1 .. MaxLines) :
        p[2] <= Len(files[p[1]].lines) /\ files[p[1]].lines[p[2]] # "plain"}

\* ScanReport names the run where the text first appeared, and the empty state
\* says that there is no match anywhere.
SaysFirstAppeared == Shown /\ result.complete /\ result.oldest # 0
SaysNoneAnywhere == Shown /\ result.complete /\ result.matches = {}

\* Matches that a scan passes over and reports nothing of: past the first
\* MAX_MATCH_BYTES of their line (logsearch.py:42-46), or past the cap of a log whose
\* masking made up for the cut (logsearch.py:179-181).
PassedOver(p) ==
    LET f == files[p[1]]
    IN  f.lines[p[2]] = "match_past" \/ (p[2] > ran.maxBytes /\ ~IsCut(f, ran.maxBytes))

(****************************************************************************)
(* A complete scan without caveats has every match there is, so the run it  *)
(* names is where the text first appeared; and a partial one is always      *)
(* reported with a bound or a file that explains it (LogSearch.tsx, "the    *)
(* single worst thing this page can do") -- but for the matches that a scan *)
(* passes over without a word.                                              *)
(****************************************************************************)
ClaimsHold ==
    LET matches == {p \in AllMatches : ~PassedOver(p)}
    IN  /\ SaysFirstAppeared /\ result.caveats = 0 =>
             \A p \in matches : p \in result.matches /\ p[1] <= result.oldest
        /\ SaysNoneAnywhere /\ result.caveats = 0 => matches = {}
        /\ Shown /\ ~(matches \subseteq result.matches) => ~result.complete \/ result.caveats > 0
=============================================================================
