------------------------------ MODULE CandlePaging ------------------------------
(***************************************************************************)
(* MarketService.get_candles (market/service.py) and the helpers of        *)
(* market/candles.py: a range of candles read page by page from a broker   *)
(* whose history may have gaps and grows while it is read.                 *)
(*                                                                         *)
(* Instants are milliseconds, scaled so that a timeframe is Frame of them; *)
(* a candle is known by its open time.  The broker answers with the oldest *)
(* candles of the range it is asked for, at most `limit` of them; it may   *)
(* start with the candle before the range, as the repository's own test    *)
(* has it.  A limit the broker does not honour is not covered.             *)
(***************************************************************************)
EXTENDS Naturals, FiniteSets

CONSTANTS Frame,   \* TIMEFRAME_MILLISECONDS of the timeframe
          Horizon  \* bound: the last instant anybody speaks of

ASSUME FrameAssumption == Frame \in Nat \ {0}
ASSUME HorizonAssumption == Horizon \in Nat

Instants == 0..Horizon
OpenTimes == {n * Frame : n \in 0..Horizon} \cap Instants

VARIABLES
  start, end,  \* the range asked for
  limit,       \* the page size asked for
  overlaps,    \* the broker's pages start with the candle before the range
  history,     \* the candles the broker has
  before,      \* those it had when get_candles was called
  cursor,      \* cursor
  candles,     \* candles
  status       \* where the call stands

asked == <<start, end, limit, overlaps>>
pagingVars == <<asked, history, before, cursor, candles, status>>

PagingTypeOK ==
  /\ start \in Instants /\ end \in Instants
  /\ limit \in Nat
  /\ overlaps \in BOOLEAN
  /\ history \subseteq OpenTimes /\ before \subseteq OpenTimes
  /\ cursor \in Nat
  /\ candles \subseteq OpenTimes
  /\ status \in {"called", "asking", "returned", "truncated", "refused",
                 "failed", "stuck"}

PagingInit ==
  /\ start \in Instants /\ end \in Instants
  /\ limit \in 0..Cardinality(OpenTimes)
  /\ overlaps \in BOOLEAN
  /\ history \in SUBSET OpenTimes
  /\ before = history
  /\ cursor = start
  /\ candles = {}
  /\ status = "called"

-----------------------------------------------------------------------------
(***************************************************************************)
(* The broker                                                              *)
(***************************************************************************)

\* The candle before the range, if the broker throws it in.
Preceding(from) ==
  IF overlaps
    THEN {t \in history : t < from /\ \A u \in history : u < from => u <= t}
    ELSE {}

InRange(from, to) == {t \in history : from <= t /\ t <= to} \cup Preceding(from)

\* A page: the oldest of them, and all of them unless they are too many.
IsPage(page, from, to) ==
  /\ page \subseteq InRange(from, to)
  /\ Cardinality(page) <= limit
  /\ \A t \in page, u \in InRange(from, to) \ page : t < u
  /\ Cardinality(page) < limit => page = InRange(from, to)

\* Time passes: a candle opens that is newer than all others.
Opens(t) ==
  /\ \A u \in history : u < t
  /\ history' = history \cup {t}
  /\ UNCHANGED <<asked, before, cursor, candles, status>>

-----------------------------------------------------------------------------
(***************************************************************************)
(* get_candles()                                                           *)
(***************************************************************************)

\* Entry: the arguments are checked.
Begin ==
  /\ status = "called"
  /\ before' = history
  /\ status' = IF limit > 0 /\ start <= end THEN "asking" ELSE "refused"
  /\ UNCHANGED <<asked, history, cursor, candles>>

Newest(page) == CHOOSE t \in page : \A u \in page : u <= t

\* Where the next page starts: behind the newest candle of this one.
MutNextCursor(page) == Newest(page)
NextCursor(page) == Newest(page) + Frame

\* A page that is not full is the last.
MutIsLast(page) == Cardinality(page) <= limit
IsLast(page) == Cardinality(page) < limit

\* One request and what is done with its answer.
TurnPage(page) ==
  /\ status = "asking" /\ cursor <= end
  /\ IsPage(page, cursor, end)
  /\ IF page = {}
       THEN status' = "returned" /\ UNCHANGED <<cursor, candles>>
       ELSE /\ candles' = candles \cup page
            /\ IF NextCursor(page) <= cursor
                 THEN status' = "stuck" /\ UNCHANGED cursor
                 ELSE /\ cursor' = NextCursor(page)
                      /\ status' = IF IsLast(page) THEN "returned" ELSE status
  /\ UNCHANGED <<asked, history, before>>

\* The cursor has left the range.
Exhausted ==
  /\ status = "asking" /\ cursor > end
  /\ status' = "returned"
  /\ UNCHANGED <<asked, history, before, cursor, candles>>

\* An answer that is no list, an object without data for instance, ends the
\* loop as an empty page does: what has been read is returned.
NotAList ==
  /\ status = "asking" /\ cursor <= end
  /\ status' = "truncated"
  /\ UNCHANGED <<asked, history, before, cursor, candles>>

\* The request fails, or one of its rows is not a candle.
RequestFails ==
  /\ status = "asking" /\ cursor <= end
  /\ status' = "failed"
  /\ UNCHANGED <<asked, history, before, cursor, candles>>

-----------------------------------------------------------------------------

Turn == \E page \in SUBSET history : TurnPage(page)

PagingNext ==
  \/ \E t \in OpenTimes : Opens(t)
  \/ Begin \/ Turn \/ Exhausted \/ NotAList \/ RequestFails

PagingSpec == PagingInit /\ [][PagingNext]_pagingVars

\* A request is answered or times out, and the loop goes on.
PagingFairness == WF_pagingVars(Begin \/ Turn \/ Exhausted)

FairPagingSpec == PagingSpec /\ PagingFairness

-----------------------------------------------------------------------------
(***************************************************************************)
(* What get_candles promises.                                              *)
(***************************************************************************)

\* A range that is returned has no gap the broker's history had not: every
\* candle of it that existed when the call was made, and no candle from behind
\* its end or, before its start, any but the one the broker threw in.  A range
\* that an answer cut short, because it was no list, is returned to the caller
\* like any other, but is complete up to the cursor only.
Wanted ==
  {t \in before : /\ start <= t /\ t <= end
                  /\ status = "truncated" => t < cursor}

RangeIsComplete ==
  status \in {"returned", "truncated"} =>
    /\ Wanted \subseteq candles
    /\ candles \subseteq {t \in history : t <= end}
    /\ Cardinality({t \in candles : t < start}) <= 1

\* Paging ends, with an error of its own only if the broker throws in the
\* candle before the range: a page that is nothing else does not advance.
PagingEnds ==
  status = "asking" ~>
    \/ status \in {"returned", "truncated", "failed"}
    \/ status = "stuck" /\ overlaps
=============================================================================
