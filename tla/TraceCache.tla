----------------------------- MODULE TraceCache -----------------------------
(***************************************************************************)
(* The download of the trace by model/trace_parser.py (fetch_rows) and the *)
(* file that caches it.  The program fetches the rows page by page, keeps  *)
(* them in memory and writes them to the file at the end; it may stop      *)
(* between any two steps, and the simulators read the file at any time.    *)
(*                                                                         *)
(* A file that is being written, or whose writer died, is a prefix of a    *)
(* JSON array: it cannot be read.                                          *)
(***************************************************************************)
EXTENDS Integers, Sequences

CONSTANTS Row,       \* the conversations
          Datasets,  \* what the server may hold, one row after the other
          N_ROWS,    \* the number of rows that are asked for
          Page       \* rows per request

ASSUME CacheAssumption ==
  /\ Datasets \subseteq Seq(Row)
  /\ N_ROWS \in Nat /\ Page \in Nat \ {0}

VARIABLES data,   \* what the server holds
          cache,  \* the file RAW
          fetch   \* fetch_rows: where it is, its off and its out

vars == <<data, cache, fetch>>

Places == {"idle", "fetching", "dumping", "parsing", "failed"}

Absent      == [is |-> "absent", rows |-> <<>>]
Torn        == [is |-> "torn", rows |-> <<>>]
Whole(rows) == [is |-> "whole", rows |-> rows]

Fetch(at, off, rows) == [at |-> at, off |-> off, rows |-> rows]
Failed == Fetch("failed", 0, <<>>)

(* The first n rows, or all there are.                                     *)
UpTo(rows, n) == SubSeq(rows, 1, IF n <= Len(rows) THEN n ELSE Len(rows))

Init == /\ data \in Datasets
        /\ cache = Absent
        /\ fetch = Fetch("idle", 0, <<>>)

Startable == fetch.at \in {"idle", "failed"}

(* A file that is there is used, unless a download is forced.              *)
FetchCached ==
  /\ Startable /\ cache.is = "whole"
  /\ fetch' = Fetch("parsing", 0, cache.rows)
  /\ UNCHANGED <<data, cache>>

(* json.load raises on a torn file, and will until it is removed.          *)
FetchRaises ==
  /\ Startable /\ cache.is = "torn"
  /\ fetch' = Failed
  /\ UNCHANGED <<data, cache>>

Connect(force) ==
  /\ Startable /\ (cache.is = "absent" \/ force)
  /\ fetch' = Fetch("fetching", 0, <<>>)
  /\ UNCHANGED <<data, cache>>

(* The number of rows that is asked for is added to off, however many the  *)
(* answer has.                                                             *)
PageEndBeyond == fetch.off + Page  \* mutant of PageEnd: whole pages only

PageEnd == IF N_ROWS - fetch.off <= Page THEN N_ROWS ELSE fetch.off + Page
PageOf  == SubSeq(data, fetch.off + 1, IF PageEnd <= Len(data) THEN PageEnd ELSE Len(data))

(* Mutant of FetchPage: what there is so far is written after every page.  *)
FetchPageSaves ==
  /\ fetch.at = "fetching" /\ fetch.off < N_ROWS
  /\ fetch' = Fetch("fetching", PageEnd, fetch.rows \o PageOf)
  /\ cache' = Whole(fetch.rows \o PageOf)
  /\ UNCHANGED data

FetchPage ==
  /\ fetch.at = "fetching" /\ fetch.off < N_ROWS
  /\ fetch' = Fetch("fetching", PageEnd, fetch.rows \o PageOf)
  /\ UNCHANGED <<data, cache>>

(* open(RAW, "w") empties the file.                                        *)
OpenCache ==
  /\ fetch.at = "fetching" /\ ~(fetch.off < N_ROWS)
  /\ fetch' = [fetch EXCEPT !.at = "dumping"]
  /\ cache' = Torn
  /\ UNCHANGED data

EndDump ==
  /\ fetch.at = "dumping"
  /\ fetch' = [fetch EXCEPT !.at = "parsing"]
  /\ cache' = Whole(fetch.rows)
  /\ UNCHANGED data

(* A request times out or is refused, the trace has no calls, or the       *)
(* program is killed: no exception is caught, and files stay as they are.  *)
Stop ==
  /\ ~Startable
  /\ fetch' = Failed
  /\ UNCHANGED <<data, cache>>

(* The caller has the rows and is done with them.                          *)
Done ==
  /\ fetch.at = "parsing"
  /\ fetch' = Fetch("idle", 0, <<>>)
  /\ UNCHANGED <<data, cache>>

Download ==
  \/ FetchCached \/ FetchRaises
  \/ \E force \in BOOLEAN : Connect(force)
  \/ FetchPage \/ OpenCache \/ EndDump \/ Stop

Next == Download \/ Done

Spec == Init /\ [][Next]_vars

-----------------------------------------------------------------------------
(* Type invariant.                                                         *)
TypeOK ==
  /\ data \in Datasets
  /\ cache \in [is : {"absent", "torn", "whole"}, rows : Seq(Row)]
  /\ cache.is # "whole" => cache.rows = <<>>
  /\ fetch \in [at : Places, off : 0..N_ROWS, rows : Seq(Row)]

(* A download that fails, is killed or is repeated never leaves a file     *)
(* that is read as the trace but holds only part of it; nor does the       *)
(* parser ever work on a part.                                             *)
TraceUsable ==
  /\ cache.is = "whole" => cache.rows = UpTo(data, N_ROWS)
  /\ fetch.at \in {"dumping", "parsing"} => fetch.rows = UpTo(data, N_ROWS)
=============================================================================
