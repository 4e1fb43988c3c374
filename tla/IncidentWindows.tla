---------------------------- MODULE IncidentWindows ----------------------------
(***************************************************************************)
(* Which incident an event belongs to (domain/incident/models.py), what    *)
(* the incident's row says of its events                                   *)
(* (adapters/persistence/incident_repository.py), and how the daily        *)
(* summary counts them (application/daily_summaries.py).                   *)
(* IncidentDiscovery is about the events of one such incident.             *)
(*                                                                         *)
(* An event is a record [service, exception, frames, at, offset]: the      *)
(* instant of occurred_at in UTC, and the offset from UTC with which it is *)
(* written, which may be any (LogEvent asks for a time zone only).  An     *)
(* exception is a record [kind, numbers]; a frame a record [method, line,  *)
(* business].  The environment of an event is its service's: ingest()      *)
(* checks that.                                                            *)
(***************************************************************************)
EXTENDS Lists

CONSTANTS
  Window,            \* the length of a window, window.total_seconds()
  Day,               \* the length of a day, in the same unit
  MaxBusinessFrames, \* max_business_frames
  Emitted,           \* the events that services may log
  MaxArrivals        \* bound: how many events arrive

ASSUME WindowAssumption ==
  Window \in Nat \ {0} /\ Day \in Nat \ {0} /\ Day % Window = 0
ASSUME EmittedAssumption ==
  /\ MaxBusinessFrames \in Nat /\ MaxArrivals \in Nat
  /\ \A e \in Emitted :
       /\ e.at \in Nat /\ e.offset \in Int /\ e.at + e.offset \in Nat
       /\ e.frames \in Seq(Range(e.frames))
       /\ \A i \in DOMAIN e.frames : e.frames[i].business \in BOOLEAN

VARIABLES
  arrived,    \* the events in the order in which they were ingested
  incidents   \* incidents rows: occurrence_count, first_seen_at, last_seen_at,
              \* by aggregation_key

windowVars == <<arrived, incidents>>

WindowsInit == arrived = << >> /\ incidents = << >>

Prefix(seq, n) == SubSeq(seq, 1, Min({n, Len(seq)}))

BusinessFrames(frames) == Filter(frames, LAMBDA frame : frame.business)

\* build_error_fingerprint: numbers, line numbers and frames of frameworks are
\* left out.
Fingerprint(event) ==
  LET frames == Prefix(BusinessFrames(event.frames), MaxBusinessFrames)
  IN  <<event.service, event.exception.kind, [k \in DOMAIN frames |-> frames[k].method]>>

\* What the columns keep of occurred_at, and what is read back: SQLite stores the
\* digits of the clock without the offset, and _utc takes them for UTC.
StoredTime(event) == event.at + event.offset

\* build_window_key, of the instant
Key(event) ==
  [service |-> event.service, fingerprint |-> Fingerprint(event),
   start |-> event.at - (event.at % Window)]

Row(key, row) ==
  incidents' = [k \in DOMAIN incidents \union {key} |-> IF k = key THEN row ELSE incidents[k]]

\* Variant: the row is brought up to date as Incident.observe does it, which
\* supposes that events come in order.
Observe(event) ==
  LET key == Key(event)
      seen == IF key \in DOMAIN incidents THEN incidents[key]
              ELSE [count |-> 0, first |-> StoredTime(event), last |-> StoredTime(event)]
  IN  Row(key, [count |-> seen.count + 1, first |-> seen.first, last |-> Max({seen.last, StoredTime(event)})])

\* aggregate: the INSERT, or the UPDATE when the key is there.
Aggregated(event) ==
  LET key == Key(event)
      seen == IF key \in DOMAIN incidents THEN incidents[key]
              ELSE [count |-> 0, first |-> StoredTime(event), last |-> StoredTime(event)]
  IN  Row(key, [count |-> seen.count + 1, first |-> Min({seen.first, StoredTime(event)}),
                last |-> Max({seen.last, StoredTime(event)})])

\* ingest of an event that is not a duplicate.
Ingest(event) ==
  /\ Len(arrived) < MaxArrivals
  /\ arrived' = Append(arrived, event)
  /\ Aggregated(event)

WindowsSpec == WindowsInit /\ [][\E e \in Emitted : Ingest(e)]_windowVars

Occurrences(keys) == MapThenSumSet(LAMBDA k : incidents[k].count, keys)

\* Variant: the last instant is taken as part of the day.
SummaryThroughMidnight(service, day) ==
  LET during(at) == day * Day <= at /\ at <= (day + 1) * Day
      keys == { k \in DOMAIN incidents : k.service = service /\ during(incidents[k].last) }
      new == { k \in keys : during(incidents[k].first) }
  IN  [incident_count |-> Cardinality(keys),
       new_fingerprint_count |-> Cardinality({ k.fingerprint : k \in new }),
       occurrence_count |-> Occurrences(keys)]

\* generate: the stored times against the bounds of a UTC day.
Summary(service, day) ==
  LET during(at) == day * Day <= at /\ at < (day + 1) * Day
      keys == { k \in DOMAIN incidents : k.service = service /\ during(incidents[k].last) }
      new == { k \in keys : during(incidents[k].first) }
  IN  [incident_count |-> Cardinality(keys),
       new_fingerprint_count |-> Cardinality({ k.fingerprint : k \in new }),
       occurrence_count |-> Occurrences(keys)]

-----------------------------------------------------------------------------
(* Properties *)

\* The same fault, told without the definitions above: the exceptions differ
\* in numbers only, and the calls of the application, down to the last that
\* counts, are the same ones, whatever lines and frameworks are in between.
SameFault(e, f) ==
  LET calls(event) == { k \in DOMAIN event.frames : event.frames[k].business }
      depth(event, k) == Cardinality({ j \in calls(event) : j <= k })
      told(event) ==
        { <<depth(event, k), event.frames[k].method>> :
            k \in { j \in calls(event) : depth(event, j) <= MaxBusinessFrames } }
  IN  e.service = f.service /\ e.exception.kind = f.exception.kind /\ told(e) = told(f)

\* The events of the fault and the window of an event.
Alike(i) ==
  { j \in DOMAIN arrived : /\ SameFault(arrived[i], arrived[j])
                           /\ arrived[i].at \div Window = arrived[j].at \div Window }
StoredTimes(i) == { StoredTime(arrived[j]) : j \in Alike(i) }

\* Whatever order events arrive in, whatever differs in their line numbers or
\* framework frames, and whatever offset their times are written with, each fault
\* of each window of instants has one incident, whose count is that of its events
\* and whose first_seen_at and last_seen_at are the least and the greatest of their
\* clock readings.
IncidentsPartitionEvents ==
  /\ \A i \in DOMAIN arrived :
       incidents[Key(arrived[i])] =
         [count |-> Cardinality(Alike(i)), first |-> Min(StoredTimes(i)),
          last |-> Max(StoredTimes(i))]
  /\ Cardinality(DOMAIN incidents) = Cardinality({ Alike(i) : i \in DOMAIN arrived })

\* The day on which the incident of an event appears.
DayShown(i) == Max(StoredTimes(i)) \div Day

OfService(i) == { j \in DOMAIN arrived : arrived[j].service = arrived[i].service }

OnUtcDay(i) ==
  Summary(arrived[i].service, arrived[i].at \div Day).occurrence_count =
    Cardinality({ j \in OfService(i) : arrived[j].at \div Day = arrived[i].at \div Day })

\* The summaries of a service count each of its events once: all events of an
\* incident on the day that its latest clock reading falls on.  This is the UTC day
\* of each of them, as it should be, if every event of the service is written on
\* the same date as in UTC; no window is then split between two days, and new
\* fingerprints are counted among the incidents.
SummaryCountsTheDay ==
  \A i \in DOMAIN arrived :
    LET summary == Summary(arrived[i].service, DayShown(i))
    IN  /\ summary.occurrence_count =
             Cardinality({ j \in OfService(i) : DayShown(j) = DayShown(i) })
        /\ (\A j \in OfService(i) : StoredTime(arrived[j]) \div Day = arrived[j].at \div Day) =>
             /\ OnUtcDay(i)
             /\ 1 <= summary.new_fingerprint_count
             /\ summary.new_fingerprint_count <= summary.incident_count

\* The documented summary (Phase 4D, 3): computed by UTC date, for all events.
SummaryCountsUtcDay == \A i \in DOMAIN arrived : OnUtcDay(i)
=============================================================================
