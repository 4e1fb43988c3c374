------------------------------- MODULE LogExcerpts -------------------------------
(***************************************************************************)
(* LocalLogFileReader (adapters/logs/local_file.py): which lines of a log, *)
(* while it is being written, become evidence.  An event is a line that    *)
(* starts with a timestamp and the lines up to the next such line.  A line *)
(* is a record [starts, hit, at]: it starts an event, it contains the      *)
(* keyword or trace id, and the clock reading it starts with, if it starts *)
(* an event.  The reader takes it for UTC: an offset that follows the      *)
(* reading is not part of what _EVENT_START matches.                       *)
(***************************************************************************)
EXTENDS Lists

CONSTANTS
  Lines,           \* the lines that may be written
  OldTails,        \* what the log may hold already
  MaxExcerptLines, \* max_excerpt_lines
  Ranges,          \* the ranges <<started_at, ended_at>> of queries
  Limits,          \* the limits of queries
  MaxLines         \* bound: how long a new log grows

LogLine == [starts : BOOLEAN, hit : BOOLEAN, at : Int]

ASSUME ExcerptAssumption ==
  /\ Lines \subseteq LogLine /\ OldTails \subseteq Seq(LogLine)
  /\ Ranges \subseteq Int \X Int /\ Limits \subseteq Nat
  /\ MaxExcerptLines \in Nat \ {0} /\ MaxLines \in Nat

VARIABLE lines     \* the tail of the log that the reader is allowed to see

\* Without the start of its event, an excerpt reaches back this far.
LookBack == 8

LogInit == lines \in OldTails

\* The application writes its log.
Write(line) == Len(lines) < MaxLines /\ lines' = Append(lines, line)

LogSpec == LogInit /\ [][\E line \in Lines : Write(line)]_lines

Hits == { i \in DOMAIN lines : lines[i].hit }

EventStart(match) ==
  LET starts == { i \in 1..match : lines[i].starts }
  IN  IF starts # {} THEN Max(starts) ELSE Max({1, match - LookBack})

\* The line after the event.
EventEnd(start) ==
  Min({ i \in (start + 1)..Len(lines) : lines[i].starts } \union { Len(lines) + 1 })

Excerpt(match) ==
  LET start == EventStart(match)
      end == Min({EventEnd(start), start + MaxExcerptLines})
  IN  [first |-> start, last |-> end - 1]

\* read_latest; without a hit it raises.
ReadLatest == Excerpt(Max(Hits))

\* The lines with the trace id whose own clock reading is in the range.
Related(range) ==
  { i \in Hits : lines[i].starts /\ range[1] <= lines[i].at /\ lines[i].at <= range[2] }

\* Variant: the limit is applied to the hits before the range.
QueryLimitFirst(range, limit) ==
  LET matches == Ascending(Hits)
      first == SubSeq(matches, 1, Min({limit, Len(matches)}))
      inRange == Filter(first, LAMBDA i : i \in Related(range))
  IN  [k \in DOMAIN inRange |-> Excerpt(inRange[k])]

\* query_related
QueryRelated(range, limit) ==
  LET matches == Ascending(Related(range))
  IN  [k \in 1..Min({limit, Len(matches)}) |-> Excerpt(matches[k])]

-----------------------------------------------------------------------------
(* Properties *)

StartsIn(first, last) == \E i \in first..last : lines[i].starts

\* Evidence never mixes two events.  What is read of the latest match is bounded
\* and of the last event that contains the keyword: another hit below it is of
\* the same event.  What is read of related logs is a sequence of different
\* events in the order of the log, all of readings in the range, and complete unless it is
\* as long as the limit, which no event outside the range uses up
\* (adapters/logs/local_file.py, read_latest, query_related).
ExcerptsAreEvents ==
  /\ Hits # {} =>
       LET x == ReadLatest
       IN  /\ x.first <= x.last /\ x.last - x.first < MaxExcerptLines
           /\ ~StartsIn(x.first + 1, x.last)
           /\ \A i \in Hits : i > x.last => ~StartsIn(x.last + 1, i)
  /\ \A range \in Ranges, limit \in Limits :
       LET xs == QueryRelated(range, limit)
           wanted == { i \in Hits : lines[i].starts /\ lines[i].at \in range[1]..range[2] }
           given == { xs[k].first : k \in DOMAIN xs }
       IN  /\ Len(xs) <= limit
           /\ \A j, k \in DOMAIN xs : j < k => xs[j].last < xs[k].first
           /\ given \subseteq wanted
           /\ Len(xs) < limit => wanted \subseteq given
=============================================================================
