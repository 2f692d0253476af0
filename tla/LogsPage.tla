------------------------------- MODULE LogsPage -------------------------------
(***************************************************************************)
(* The administrator's page of log entries, and the table behind it.       *)
(*                                                                         *)
(* Entries are written without anybody waiting for them, and a task purges *)
(* the oldest, while the page reads the table in pages: by offset, with a  *)
(* filter and an order, the entries and their number in two queries that   *)
(* run side by side.                                                       *)
(*                                                                         *)
(* Entries are numbered in the order of createdAt, which is taken to be    *)
(* without ties; other columns to sort by are left out.                    *)
(***************************************************************************)
EXTENDS Integers, Sequences, FiniteSets

CONSTANTS
    MaxEntries, \* bound on the entries that are ever written
    PAGE_SIZE,
    Levels,     \* log levels
    AnyLevel    \* no filter

ASSUME LogsPageConstants ==
    /\ MaxEntries \in Nat /\ PAGE_SIZE \in Nat \ {0}
    /\ AnyLevel \notin Levels

VARIABLES
    level,      \* level[e]: of entry e
    written,    \* entries 1 .. written have been written
    purged,     \* entries 1 .. purged have been deleted again
    filters,    \* level and direction that the page asks for
    logs,       \* the entries that the page holds
    hasMore,    \* TRUE when the page offers to load more
    load,       \* the request of load()
    loadMore,   \* the request of loadMore()
    mixed,      \* history: an answer for other filters was shown, or none came for these
    shifted     \* history: what was written or purged moved the offsets

logsVars == <<level, written, purged, filters, logs, hasMore, load, loadMore, mixed, shifted>>

Filters == [logLevel : Levels \cup {AnyLevel}, direction : {"asc", "desc"}]

DefaultFilters == [logLevel |-> AnyLevel, direction |-> "desc"]

(* found and total are the answers of findMany and count, absent at first.   *)
Request == [pc : {"idle", "asked"}, query : Filters, skip : Nat, found : BOOLEAN, data : Seq(1..MaxEntries),
            counted : BOOLEAN, total : Nat]

NoAsk == [pc |-> "idle", query |-> DefaultFilters, skip |-> 0, found |-> FALSE, data |-> <<>>,
          counted |-> FALSE, total |-> 0]

AskFor(query, skip) == [NoAsk EXCEPT !.pc = "asked", !.query = query, !.skip = skip]

(* The page is mounted and has asked for the first entries.                  *)
LogsInit ==
    /\ level \in [1..MaxEntries -> Levels]
    /\ written \in 0..MaxEntries
    /\ purged = 0
    /\ filters = DefaultFilters
    /\ logs = <<>>
    /\ hasMore = FALSE
    /\ load = AskFor(DefaultFilters, 0)
    /\ loadMore = NoAsk
    /\ mixed = FALSE
    /\ shifted = FALSE

-----------------------------------------------------------------------------
(* LoggingRepository *)

(* buildWhere, over what is in the table.                                    *)
Matches(query) == {e \in purged + 1..written : query.logLevel \in {level[e], AnyLevel}}

(* buildOrderBy                                                              *)
Ordered(query) ==
    [i \in 1..Cardinality(Matches(query)) |->
        CHOOSE e \in Matches(query) :
            Cardinality({f \in Matches(query) : IF query.direction = "asc" THEN f <= e ELSE f >= e}) = i]

(* Mutant: the offset names the last entry that was taken. *)
LastTaken(skip) == IF skip = 0 THEN 1 ELSE skip

First(skip) == skip + 1

FindMany(query, skip) ==
    LET all == Ordered(query)
        last == skip + PAGE_SIZE
    IN SubSeq(all, First(skip), IF last < Len(all) THEN last ELSE Len(all))

(* The page holds entries, or has asked for some.                            *)
Showing == logs # <<>> \/ load.found \/ loadMore.found

(* A new entry comes first in the order newest first.                        *)
CreateEntry ==
    /\ written < MaxEntries
    /\ written' = written + 1
    /\ shifted' = (shifted \/ (Showing /\ filters.direction = "desc"))
    /\ UNCHANGED <<level, purged, filters, logs, hasMore, load, loadMore, mixed>>

(* purgeOldLogs: the oldest entries come first in the order oldest first.    *)
DeleteOlderThan(cutoff) ==
    /\ cutoff \in purged + 1..written
    /\ purged' = cutoff
    /\ shifted' = (shifted \/ (Showing /\ filters.direction = "asc"))
    /\ UNCHANGED <<level, written, filters, logs, hasMore, load, loadMore, mixed>>

FindEntries(req) == [req EXCEPT !.found = TRUE, !.data = FindMany(req.query, req.skip)]

CountEntries(req) == [req EXCEPT !.counted = TRUE, !.total = Cardinality(Matches(req.query))]

(* LogService.list runs both queries at once.                                *)
Answer ==
    /\ \/ /\ load.pc = "asked"
          /\ (~load.found /\ load' = FindEntries(load)) \/ (~load.counted /\ load' = CountEntries(load))
          /\ UNCHANGED loadMore
       \/ /\ loadMore.pc = "asked"
          /\ (~loadMore.found /\ loadMore' = FindEntries(loadMore)) \/ (~loadMore.counted /\ loadMore' = CountEntries(loadMore))
          /\ UNCHANGED load
    /\ UNCHANGED <<level, written, purged, filters, logs, hasMore, mixed, shifted>>

Answered(req) == req.pc = "asked" /\ req.found /\ req.counted

More(req) == req.skip + Len(req.data) < req.total

-----------------------------------------------------------------------------
(* useLogsPage: filters and the header of the table rest while load() runs *)

ApplyFilters(next) ==
    /\ load.pc = "idle"
    /\ filters' = next
    /\ load' = AskFor(next, 0)
    /\ mixed' = (loadMore.pc # "idle")
    /\ shifted' = FALSE
    /\ UNCHANGED <<level, written, purged, logs, hasMore, loadMore>>

ShowLoad ==
    /\ Answered(load)
    /\ logs' = load.data
    /\ hasMore' = More(load)
    /\ load' = NoAsk
    /\ UNCHANGED <<level, written, purged, filters, loadMore, mixed, shifted>>

Offered == load.pc = "idle" /\ logs # <<>> /\ hasMore /\ loadMore.pc = "idle"

AskMore ==
    /\ Offered
    /\ loadMore' = AskFor(filters, Len(logs))
    /\ UNCHANGED <<level, written, purged, filters, logs, hasMore, load, mixed, shifted>>

Extended(data) == logs \o data

ShowMore ==
    /\ Answered(loadMore)
    /\ logs' = Extended(loadMore.data)
    /\ hasMore' = More(loadMore)
    /\ loadMore' = NoAsk
    /\ UNCHANGED <<level, written, purged, filters, load, mixed, shifted>>

(* A request that fails leaves what the page holds.                          *)
RequestFails ==
    /\ \/ load.pc = "asked" /\ load' = NoAsk /\ mixed' = TRUE /\ UNCHANGED loadMore
       \/ loadMore.pc = "asked" /\ loadMore' = NoAsk /\ UNCHANGED <<load, mixed>>
    /\ UNCHANGED <<level, written, purged, filters, logs, hasMore, shifted>>

LogsNext ==
    \/ CreateEntry \/ Answer \/ ShowLoad \/ AskMore \/ ShowMore \/ RequestFails
    \/ \E e \in 1..MaxEntries : DeleteOlderThan(e)
    \/ \E next \in Filters : ApplyFilters(next)

LogsSpec == LogsInit /\ [][LogsNext]_logsVars

-----------------------------------------------------------------------------
Shown == {logs[i] : i \in 1..Len(logs)}

(* Types of all variables.                                                   *)
LogsTypeOK ==
    /\ level \in [1..MaxEntries -> Levels]
    /\ written \in 0..MaxEntries /\ purged \in 0..written
    /\ filters \in Filters
    /\ logs \in Seq(1..MaxEntries)
    /\ load \in Request /\ loadMore \in Request
    /\ {hasMore, mixed, shifted} \subseteq BOOLEAN

Precedes(e, f) == IF filters.direction = "asc" THEN e < f ELSE e > f

(* Pages join.  No entry is shown twice, nor one that the filters exclude,   *)
(* and none between the first entry of the page and another that it shows is *)
(* skipped, however loads, writes and purges interleave (useLogsPage 51-70). *)
(* Excepted are filters applied while more entries were on their way,        *)
(* entries twice when the offsets moved under the page (an entry was written *)
(* newest first), and entries skipped when a purge moved them oldest first   *)
(* (logging.repository 42-49).  Newest first, entries written after the      *)
(* first page was read may be shown in part, without those between.          *)
PagesJoin ==
    (load.pc = "idle" /\ ~mixed) =>
        /\ ~shifted => Cardinality(Shown) = Len(logs)
        /\ \A e \in Shown : filters.logLevel \in {level[e], AnyLevel}
        /\ filters.direction = "desc" \/ ~shifted =>
              \A e \in Matches(filters), f \in Shown :
                  (Precedes(logs[1], e) /\ Precedes(e, f)) => e \in Shown

=============================================================================
