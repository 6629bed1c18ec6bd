----------------------------- MODULE Statistics -----------------------------
(***************************************************************************)
(* The numbers of the admin's overview page: per_account_stats,            *)
(* hourly_images, successful_image_times and image_gen_limit_rows          *)
(* (app/db.py) and what _rolling_24h, _daily_counts, _hourly_chart and     *)
(* _wall_log (app/api/admin.py) make of them, over every history of        *)
(* image_requests the service can write.                                   *)
(*                                                                         *)
(* Time goes in ticks, Hour of them to an hour and Day hours to a day (24  *)
(* in the code), so that windows begin and end inside an hour; a home has  *)
(* its name, and Unknown where codex_home is NULL.  A row's count is what  *)
(* was asked for; of the columns of a failed row only the resets_at of a   *)
(* 429 in its stderr is kept, 0 for none.                                  *)
(*                                                                         *)
(* Bounds: MaxRows rows are ever inserted, the clock stops at MaxClock, or *)
(* at FullBy once all of the rows were: fewer rows are looked at longer.   *)
(***************************************************************************)
EXTENDS Integers, FiniteSetsExt, SequencesExt, Functions

CONSTANTS
    Accounts, Unknown,
    Hour, Day, Zone,    \* ticks to an hour, hours to a day, hours to UTC
    Points, Days,       \* what the charts show: points=168, days=7
    Retention,          \* image_retention_days, in ticks
    Near,               \* resets_at this close are one wall: 300 s
    Counts, Waits,      \* payload.count; how far off a resets_at may be
    MaxRows, FullBy, MaxClock

ASSUME StatisticsAssumption ==
    /\ Unknown \notin Accounts
    /\ {Hour, Day, Points, Days} \subseteq Nat \ {0}
    /\ {Zone, Retention, Near, MaxRows, FullBy, MaxClock} \subseteq Nat
    /\ Counts \subseteq Nat \ {0} /\ Waits \subseteq Nat \ {0}

VARIABLES
    clock,
    log,        \* image_requests, in the order of created_at
    inserted    \* how many rows there ever were

statVars == <<clock, log, inserted>>

Homes == Accounts \cup {Unknown}

StatsInit == clock = 0 /\ log = <<>> /\ inserted = 0

-----------------------------------------------------------------------------
(***************************************************************************)
(* What writes the rows.                                                   *)
(***************************************************************************)

\* insert_image_request.  done is COALESCE(finished_at, created_at); served is
\* history: the count the request asked for, once it has succeeded, else 0.
RowInserted ==
    /\ inserted < MaxRows
    /\ inserted + 1 = MaxRows => clock <= FullBy
    /\ \E n \in Counts :
           log' = Append(log, [at |-> clock, done |-> clock, home |-> Unknown,
                               count |-> n, status |-> "queued", error |-> FALSE,
                               reset |-> 0, served |-> 0])
    /\ inserted' = inserted + 1
    /\ UNCHANGED clock

\* Mutant of RowSucceeds: a failed request succeeds after all.
RowSucceedsLate(i) ==
    /\ log[i].served = 0
    /\ \E h \in Accounts :
           log' = [log EXCEPT ![i].status = "succeeded", ![i].home = h,
                              ![i].done = clock, ![i].served = log[i].count]
    /\ UNCHANGED <<clock, inserted>>

\* mark_image_request_succeeded, of a row the sweep may have marked expired.
RowSucceeds(i) ==
    /\ log[i].status \in {"queued", "expired"}
    /\ log[i].served = 0 /\ ~log[i].error
    /\ \E h \in Accounts :
           log' = [log EXCEPT ![i].status = "succeeded", ![i].home = h,
                              ![i].done = clock, ![i].served = log[i].count]
    /\ UNCHANGED <<clock, inserted>>

\* mark_image_request_failed, with or without the home it failed on.
RowFails(i) ==
    /\ log[i].status \in {"queued", "expired"}
    /\ log[i].served = 0 /\ ~log[i].error
    /\ \E h \in Homes, w \in {0} \cup Waits :
           log' = [log EXCEPT ![i].status = "failed", ![i].error = TRUE, ![i].home = h,
                              ![i].reset = IF w = 0 THEN 0 ELSE clock + w]
    /\ UNCHANGED <<clock, inserted>>

\* Mutant of RowExpired: the sweep is early by one.
RowExpiredSoon(i) ==
    /\ log[i].status # "expired"
    /\ log[i].at + Retention <= clock + 1
    /\ log' = [log EXCEPT ![i].status = "expired"]
    /\ UNCHANGED <<clock, inserted>>

\* mark_image_request_expired: expires_at is past.
RowExpired(i) ==
    /\ log[i].status # "expired"
    /\ log[i].at + Retention <= clock
    /\ log' = [log EXCEPT ![i].status = "expired"]
    /\ UNCHANGED <<clock, inserted>>

RowRemoved(i) ==
    /\ log' = RemoveAt(log, i)
    /\ UNCHANGED <<clock, inserted>>

Passes ==
    /\ clock < MaxClock
    /\ inserted = MaxRows => clock < FullBy
    /\ clock' = clock + 1
    /\ UNCHANGED <<log, inserted>>

StatsNext ==
    \/ RowInserted \/ Passes
    \/ \E i \in DOMAIN log :
           RowSucceeds(i) \/ RowFails(i) \/ RowExpired(i) \/ RowRemoved(i)

StatsSpec == StatsInit /\ [][StatsNext]_statVars

-----------------------------------------------------------------------------
(***************************************************************************)
(* The counters.                                                           *)
(***************************************************************************)
HourOf(t) == t \div Hour
DateOf(h) == (h + Zone) \div Day        \* the local date of an hour

\* SUM(count) over the rows of I.
Sum(I) == SumFunctionOnSet([i \in DOMAIN log |-> log[i].count], I)

\* status IN ('succeeded', 'expired') AND COALESCE(error, '') = ''
Successful ==
    {i \in DOMAIN log : log[i].status \in {"succeeded", "expired"} /\ ~log[i].error}

\* hourly_images(hours): what it reports for a home and an hour.
HourlyImages(hours, h, hour) ==
    Sum({i \in Successful : /\ log[i].at >= clock - hours * Hour
                            /\ log[i].home = h
                            /\ HourOf(log[i].at) = hour})

\* _rolling_24h: the hours from the oldest one needed on, and a window of Day
\* of them slid along.
Oldest == HourOf(clock) - (Points + Day - 1)

\* Mutant of PerHour: rows as far back as the windows end, not as they begin.
PerHourShort(h) ==
    [j \in 1..(Points + Day - 1) |-> HourlyImages(Points, h, Oldest + j)]

\* The hours added up under the windows, 1 the oldest.
PerHour(h) ==
    [j \in 1..(Points + Day - 1) |-> HourlyImages(Points + Day, h, Oldest + j)]
Rolling(h) == [i \in 1..Points |-> SumFunctionOnSet(PerHour(h), i..(i + Day - 1))]

\* _daily_counts: the hours added up by local date.
Daily(h, date) ==
    LET ofDate == {x \in 0..HourOf(clock) : DateOf(x) = date}
        perHour == [x \in ofDate |-> HourlyImages(Days * Day + Zone, h, x)]
    IN  SumFunctionOnSet(perHour, ofDate)

\* _hourly_chart: the last Day hours, one bar each.
Hourly(h, hour) == HourlyImages(Day + 1, h, hour)

\* per_account_stats over the last w ticks.
Account(h, w) ==
    LET rows(S) == {i \in DOMAIN log : /\ log[i].at >= clock - w /\ log[i].home = h
                                       /\ log[i].status \in S}
    IN  [succeeded |-> Cardinality(rows({"succeeded"})),
         failed |-> Cardinality(rows({"failed"})),
         images |-> Sum(rows({"succeeded"}))]

-----------------------------------------------------------------------------
(***************************************************************************)
(* The wall log.                                                           *)
(***************************************************************************)

\* image_gen_limit_rows: the rows whose stderr has a reset, old to new.
Walls ==
    FoldLeft(LAMBDA rows, row : IF row.reset # 0 THEN Append(rows, row) ELSE rows, <<>>, log)

Distance(a, b) == IF a < b THEN b - a ELSE a - b

\* Mutant of SameWall: a row is only compared with the newest event.
NewestWall(events, row) ==
    {k \in {Len(events)} \ {0} : /\ events[k].home = row.home
                                 /\ Distance(events[k].reset, row.reset) <= Near}

\* The events a row may belong to: its home's, with almost the same reset.
SameWall(events, row) ==
    {k \in DOMAIN events : /\ events[k].home = row.home
                           /\ Distance(events[k].reset, row.reset) <= Near}

\* One row more: another hit of the first such event, or a new one.
WithRow(events, row) ==
    LET same == SameWall(events, row)
    IN  IF same = {}
          THEN Append(events, [home |-> row.home, first |-> row.at, last |-> row.at,
                               reset |-> row.reset, hits |-> 1])
          ELSE [events EXCEPT ![Min(same)].last = row.at, ![Min(same)].hits = @ + 1]

Events == FoldLeft(WithRow, <<>>, Walls)

\* successful_image_times of one home since a moment (admin.py:548-550, 574),
\* ordered by when they were finished; equal times in any order.
Times(h, since) ==
    LET rows == {i \in Successful : log[i].home = h /\ log[i].done >= since}
    IN  CHOOSE s \in [1..Cardinality(rows) -> rows] :
            /\ Range(s) = rows
            /\ \A k, l \in DOMAIN s : k <= l => log[s[k]].done <= log[s[l]].done

\* When the home's last wall came down, 0 if it never met one.
Since(h) == Max({0} \cup {e.reset : e \in {f \in Range(Events) : f.home = h}})

\* Mutant of Drops: a success of a day ago to the tick stays in the window.
DropsLate(at, t) == at < t - Day * Hour

\* Whether the window that ends at t has left a success of time at behind.
Drops(at, t) == at <= t - Day * Hour

\* One success more: the window's end moves to it and its begin, lo, follows.
Slid(times, w, k) ==
    LET lo == Min({j \in w.lo..k : ~Drops(log[times[j]].done, log[times[k]].done)})
        total == w.total + log[times[k]].count - Sum({times[j] : j \in w.lo..(lo - 1)})
    IN  [lo |-> lo, total |-> total, best |-> Max({w.best, total})]

\* The busiest day since then.
MaxOk(h) ==
    LET times == Times(h, Since(h))
    IN  FoldLeftDomain(LAMBDA w, k : Slid(times, w, k),
                       [lo |-> 1, total |-> 0, best |-> 0], times).best

-----------------------------------------------------------------------------
(***************************************************************************)
(* Properties.  Served is what those requests of I that a home served      *)
(* asked for.  It is not what they delivered where an edit is among them:  *)
(* an edit makes one image whatever count says (codex_image.py:737), and   *)
(* its row keeps the count (job_queue.py:69), which the panel adds up.     *)
(***************************************************************************)
Served(h, I) ==
    SumFunctionOnSet([i \in DOMAIN log |-> log[i].served], {i \in I : log[i].home = h})

\* The types; a row has an error or was served, not both, and a success names its
\* home: what the counters take for a success.
StatsTypeOK ==
    /\ clock \in 0..MaxClock
    /\ inserted \in Len(log)..MaxRows
    /\ \A i \in DOMAIN log :
           /\ log[i].home \in Homes /\ log[i].count \in Counts
           /\ log[i].status \in {"queued", "succeeded", "failed", "expired"}
           /\ log[i].at \in 0..log[i].done /\ log[i].done <= clock
           /\ log[i].served \in {0, log[i].count}
           /\ log[i].served > 0 => ~log[i].error /\ log[i].home \in Accounts
           /\ log[i].status = "succeeded" => log[i].served > 0
           /\ log[i].error => log[i].status \in {"failed", "expired"}

\* The three charts of an account, whose rows are read with three different
\* cut-offs and cut into hours, windows and local days, all show exactly the
\* counts of the requests it served in that time (an edit's with them, see
\* Served), even once the images have expired (db.py:414): no bar at the edge
\* of its cut-off lacks a part while older rows stay out, and a request that
\* was lost in a restart and expired is not taken for a success of any account.
ChartsShowWhatWasServed ==
    \A h \in Accounts :
        /\ \A i \in 1..Points :
               LET end == HourOf(clock) - (Points - i)
               IN  Rolling(h)[i] =
                       Served(h, {j \in DOMAIN log : HourOf(log[j].at) \in (end - Day + 1)..end})
        /\ \A date \in (DateOf(HourOf(clock)) - Days + 1)..DateOf(HourOf(clock)) :
               Daily(h, date) = Served(h, {j \in DOMAIN log : DateOf(HourOf(log[j].at)) = date})
        /\ \A hour \in (HourOf(clock) - Day + 1)..HourOf(clock) :
               Hourly(h, hour) = Served(h, {j \in DOMAIN log : HourOf(log[j].at) = hour})

\* An account card counts what succeeded, what failed and the images asked for
\* by what succeeded (see Served) in every window shorter than the retention:
\* then no row of the window can have been swept, which would hide both its
\* images and its failure (the note at admin.py:329).
CardsRightWithinRetention ==
    \A h \in Accounts, w \in 1..(Retention - 1) :
        LET card == Account(h, w)
            recent == {i \in DOMAIN log : log[i].at >= clock - w}
        IN  /\ card.images = Served(h, recent)
            /\ card.failed = Cardinality({i \in recent : log[i].home = h /\ log[i].error})
            /\ card.succeeded = Cardinality({i \in recent : log[i].home = h /\ log[i].served > 0})

\* However the 429s of several accounts, or of requests that do not know their
\* account, come mixed, the wall log counts each of them once, under an event
\* of its account with almost its reset, and never lists one wall as two.
WallsToldApart ==
    /\ SumFunctionOnSet([k \in DOMAIN Events |-> Events[k].hits], DOMAIN Events) = Len(Walls)
    /\ \A row \in Range(Walls) : \E e \in Range(Events) :
           /\ e.home = row.home /\ row.at \in e.first..e.last
           /\ Distance(e.reset, row.reset) <= Near
    /\ \A k, l \in DOMAIN Events :
           k # l /\ Events[k].home = Events[l].home =>
               Distance(Events[k].reset, Events[l].reset) > Near

\* The window slid over an account's successes with two pointers finds its
\* busiest day: on no other day since its last wall came down did the requests
\* it served ask for more images (see Served).
MaxOkIsBusiestDay ==
    \A h \in Accounts :
        LET since == Since(h)
            within(t) == {i \in DOMAIN log : /\ log[i].done \in (t - Day * Hour + 1)..t
                                             /\ log[i].done >= since}
        IN  MaxOk(h) = Max({Served(h, within(t)) : t \in 0..clock})
=============================================================================
