------------------------------ MODULE Downloads ------------------------------
(***************************************************************************)
(* Historical downloads of one symbol and the coverage they claim            *)
(* (internal/feed/massive_historical.go, gateway_history.go, massive_bars.go   *)
(* and the coverage of internal/storage/sqlite.go).                          *)
(*                                                                         *)
(* A download replaces a range: it withdraws the coverage of the range,       *)
(* deletes its rows, reads the provider and inserts what it keeps in batches,  *)
(* and only then claims the range as covered, trades first and quotes after.   *)
(* Each of these is a transaction of its own, and the process may fail, be      *)
(* cancelled or crash between any two.  Providers stamp ticks in nanoseconds;   *)
(* rows, requests and coverage are in microseconds.                          *)
(*                                                                         *)
(* One download runs at a time: nothing in the code keeps two commands from    *)
(* downloading overlapping ranges together.                                  *)
(***************************************************************************)
EXTENDS Orders, SequencesExt

CONSTANTS Provided,       \* what the provider has: Kinds -> sets of [at, id], in ns
          NanosPerMicro,  \* 1000 in the code
          Requests,       \* the downloads that may be asked for
          Trading,        \* regular sessions: [open, close], close excluded
          BatchSize,      \* records gathered before an insertion (4096)
          MaxRetries,     \* massiveHistoricalMaxRetries
          MaxDownloads    \* bound: downloads begun in one behaviour

TickKinds == {"trades", "quotes"}
Kinds == TickKinds \cup {"minute_bars"}
Record == [at : Nat, id : Nat]

\* "direct": the provider's iterator, with retries; "gateway": page by page,
\* without; "bars": minute aggregates, which replace each other in place.
Request == [start : Nat \ {0}, end : Nat, rth : BOOLEAN, via : {"direct", "gateway", "bars"}]

ASSUME DownloadsAssumption ==
  /\ Provided \in [Kinds -> SUBSET Record] /\ \A k \in Kinds : IsFiniteSet(Provided[k])
  /\ NanosPerMicro \in Nat \ {0}
  /\ Requests \subseteq Request
  /\ \A q \in Requests : q.start < q.end /\ (q.via = "bars" => ~q.rth)
  /\ Trading \subseteq [open : Nat \ {0}, close : Nat]
  /\ BatchSize \in Nat \ {0} /\ MaxRetries \in Nat /\ MaxDownloads \in Nat

VARIABLES coverage,   \* download_coverage: the intervals claimed of each kind
          rows,       \* how many times each record is stored
          job,        \* the download in progress; memory only
          begun       \* downloads begun, for the bound

vars == <<coverage, rows, job, begun>>

Interval == [start : Nat \ {0}, end : Nat]
Microsecond(r) == r.at \div NanosPerMicro
Nanosecond(us) == us * NanosPerMicro
Within(us, i) == i.start <= us /\ us <= i.end

-----------------------------------------------------------------------------
(* The coverage table. *)

Overlapping(claims, start, end) == {i \in claims : i.end >= start /\ i.start <= end}

Invalidated_LeftOnly(claims, start, end) ==
  LET touched == Overlapping(claims, start, end)
  IN (claims \ touched)
     \cup {[start |-> i.start, end |-> start - 1] : i \in {j \in touched : j.start < start}}

\* InvalidateCoverage: the range is withdrawn and what is on its sides stays.
Invalidated(claims, start, end) ==
  LET touched == Overlapping(claims, start, end)
  IN (claims \ touched)
     \cup {[start |-> i.start, end |-> start - 1] : i \in {j \in touched : j.start < start}}
     \cup {[start |-> end + 1, end |-> i.end] : i \in {j \in touched : j.end > end}}

Clipped(i, start, end) ==
  [start |-> IF i.start < start THEN start ELSE i.start,
   end   |-> IF i.end > end THEN end ELSE i.end]

Merged_TakesLatest(merged, i) ==
  IF merged = <<>> \/ i.start > Last(merged).end + 1 THEN Append(merged, i)
  ELSE [merged EXCEPT ![Len(merged)].end = i.end]

\* CoverageIntervals: the claims in order of start and end, clipped to the range
\* and merged when they overlap or touch.
Merged(merged, i) ==
  IF merged = <<>> \/ i.start > Last(merged).end + 1 THEN Append(merged, i)
  ELSE IF i.end > Last(merged).end THEN [merged EXCEPT ![Len(merged)].end = i.end]
  ELSE merged

CoveredIn(claims, start, end) ==
  LET touched == Overlapping(claims, start, end)
      before == {p \in touched \X touched :
                   \/ p[1].start < p[2].start
                   \/ p[1].start = p[2].start /\ p[1].end < p[2].end}
      ordered == InOrder(touched, before)
      upto[n \in 0 .. Len(ordered)] ==
        IF n = 0 THEN <<>> ELSE Merged(upto[n - 1], Clipped(ordered[n], start, end))
  IN upto[Len(ordered)]

\* CoverageIntervals: what lies between the covered intervals.
Passed(walk, i) ==
  [next    |-> IF i.end >= walk.next THEN i.end + 1 ELSE walk.next,
   missing |-> IF i.start > walk.next
               THEN Append(walk.missing, [start |-> walk.next, end |-> i.start - 1])
               ELSE walk.missing]

MissingIn(covered, start, end) ==
  LET upto[n \in 0 .. Len(covered)] ==
        IF n = 0 THEN [next |-> start, missing |-> <<>>] ELSE Passed(upto[n - 1], covered[n])
      walked == upto[Len(covered)]
  IN IF walked.next <= end
     THEN Append(walked.missing, [start |-> walked.next, end |-> end])
     ELSE walked.missing

-----------------------------------------------------------------------------
(* The download. *)

JobSteps == {"idle", "invalidate", "delete", "fetch", "upsert", "mark"}

Nothing == [start |-> 1, end |-> 0, rth |-> FALSE, via |-> "direct"]

Idle == [step |-> "idle", request |-> Nothing, kind |-> "trades", left |-> {}, resume |-> 0,
         seen |-> {}, buffer |-> <<>>, failures |-> 0, claims |-> {}]

Job == [step : JobSteps, request : Requests \cup {Nothing}, kind : Kinds, left : SUBSET Record,
        resume : Nat, seen : SUBSET Record, buffer : Seq(Record), failures : 0 .. MaxRetries,
        claims : SUBSET Interval]

Regular(r) == \E d \in Trading : Nanosecond(d.open) <= r.at /\ r.at < Nanosecond(d.close)
Kept(q, r) == q.rth => Regular(r)

\* What the provider answers to a request of q resumed at a nanosecond.
Answer(q, k, from) == {r \in Provided[k] : from <= r.at /\ r.at <= Nanosecond(q.end)}

Earliest(left) == {r \in left : \A o \in left : r.at <= o.at}

\* regularSessionIntervals
SessionIntervals(q) ==
  {[start |-> i.start, end |-> i.end - 1] :
     i \in {j \in {Clipped([start |-> d.open, end |-> d.close], q.start, q.end) : d \in Trading}
             : j.start < j.end}}

\* markDownloadCoverage: what a completed request claims.
Claims(q) == IF q.rth THEN SessionIntervals(q) ELSE {[start |-> q.start, end |-> q.end]}

Copies(batch, r) == Cardinality({n \in DOMAIN batch : batch[n] = r})

Inserted(stored, k, batch) ==
  [stored EXCEPT ![k] = [r \in Provided[k] |-> stored[k][r] + Copies(batch, r)]]

\* A request is about to be read from its start.
Fetching(q, k) ==
  [step |-> "fetch", request |-> q, kind |-> k, left |-> Answer(q, k, Nanosecond(q.start)),
   resume |-> Nanosecond(q.start), seen |-> {}, buffer |-> <<>>, failures |-> 0, claims |-> {}]

DownloadsInit ==
  /\ coverage = [k \in Kinds |-> {}]
  /\ rows = [k \in Kinds |-> [r \in Provided[k] |-> 0]]
  /\ job = Idle
  /\ begun = 0

Begin(q) ==
  /\ job.step = "idle" /\ begun < MaxDownloads
  /\ begun' = begun + 1
  /\ job' = [Idle EXCEPT !.step = IF q.via = "bars" THEN "upsert" ELSE "invalidate",
                         !.request = q,
                         !.kind = IF q.via = "bars" THEN "minute_bars" ELSE "trades"]
  /\ UNCHANGED <<coverage, rows>>

\* A transaction for the trades, then one for the quotes.
Invalidate ==
  /\ job.step = "invalidate"
  /\ coverage' = [coverage EXCEPT ![job.kind] =
                    Invalidated(@, job.request.start, job.request.end)]
  /\ job' = IF job.kind = "trades" THEN [job EXCEPT !.kind = "quotes"]
            ELSE [job EXCEPT !.step = "delete"]
  /\ UNCHANGED <<rows, begun>>

\* DeleteRange: both tables in one transaction.
DeleteRange ==
  /\ job.step = "delete"
  /\ rows' = [k \in Kinds |-> [r \in Provided[k] |->
                IF k \in TickKinds /\ Within(Microsecond(r), job.request) THEN 0
                ELSE rows[k][r]]]
  /\ job' = Fetching(job.request, "trades")
  /\ UNCHANGED <<coverage, begun>>

\* (*massiveResumePoint).accept: older than the resume point, or seen at it.
Suppressed_OnlyOlder(r) == r.at < job.resume
Suppressed(r) == r.at < job.resume \/ (r.at = job.resume /\ r \in job.seen)

SkipRecord_ForgetsFailures(r) ==
  /\ job.step = "fetch" /\ job.request.via = "direct"
  /\ r \in Earliest(job.left) /\ Suppressed(r)
  /\ job' = [job EXCEPT !.left = @ \ {r}, !.failures = 0]
  /\ UNCHANGED <<coverage, rows, begun>>

\* The iterator returns a record that an earlier attempt has processed.
SkipRecord(r) ==
  /\ job.step = "fetch" /\ job.request.via = "direct"
  /\ r \in Earliest(job.left) /\ Suppressed(r)
  /\ job' = [job EXCEPT !.left = @ \ {r}]
  /\ UNCHANGED <<coverage, rows, begun>>

\* The iterator returns a new record: it is the new resume point, and it is
\* gathered unless it is outside the sessions asked for.
TakeRecord(r) ==
  LET gathered == IF Kept(job.request, r) THEN Append(job.buffer, r) ELSE job.buffer
      full == Len(gathered) >= BatchSize
  IN /\ job.step = "fetch" /\ job.request.via = "direct"
     /\ r \in Earliest(job.left) /\ ~Suppressed(r)
     /\ rows' = IF full THEN Inserted(rows, job.kind, gathered) ELSE rows
     /\ job' = [job EXCEPT !.left = @ \ {r}, !.failures = 0, !.resume = r.at,
                           !.seen = (IF r.at > job.resume THEN {} ELSE @) \cup {r},
                           !.buffer = IF full THEN <<>> ELSE gathered]
     /\ UNCHANGED <<coverage, begun>>

\* The request or the iterator fails: it is asked again from the resume point, or
\* the download is given up, and what it had gathered is lost.
IteratorFails ==
  /\ job.step = "fetch" /\ job.request.via = "direct"
  /\ job' = IF job.failures + 1 > MaxRetries THEN Idle
            ELSE [job EXCEPT !.failures = @ + 1,
                             !.left = Answer(job.request, job.kind, job.resume)]
  /\ UNCHANGED <<coverage, rows, begun>>

\* A page of the gateway: what it keeps is inserted at once.
NextPage(page) ==
  /\ job.step = "fetch" /\ job.request.via = "gateway"
  /\ page # {} /\ \A r \in page, o \in job.left \ page : r.at <= o.at
  /\ rows' = [rows EXCEPT ![job.kind] = [r \in Provided[job.kind] |->
                rows[job.kind][r] + IF r \in page /\ Kept(job.request, r) THEN 1 ELSE 0]]
  /\ job' = [job EXCEPT !.left = @ \ page]
  /\ UNCHANGED <<coverage, begun>>

\* The provider has no more: the last batch is inserted.
EndOfAnswer ==
  /\ job.step = "fetch" /\ job.left = {}
  /\ rows' = Inserted(rows, job.kind, job.buffer)
  /\ job' = [job EXCEPT !.step = "mark", !.buffer = <<>>, !.claims = Claims(job.request)]
  /\ UNCHANGED <<coverage, begun>>

\* UpsertMinuteBars: each bar replaces the one of its minute, in one transaction.
UpsertBars ==
  /\ job.step = "upsert"
  /\ rows' = [rows EXCEPT !["minute_bars"] = [r \in Provided["minute_bars"] |->
                IF Within(Microsecond(r), job.request) THEN 1 ELSE rows["minute_bars"][r]]]
  /\ job' = [job EXCEPT !.step = "mark", !.claims = Claims(job.request)]
  /\ UNCHANGED <<coverage, begun>>

\* MarkCoverage: one interval, in a transaction of its own.
MarkCoverage(i) ==
  /\ job.step = "mark"
  /\ \A o \in job.claims : i.start <= o.start
  /\ coverage' = [coverage EXCEPT ![job.kind] = @ \cup {i}]
  /\ job' = [job EXCEPT !.claims = @ \ {i}]
  /\ UNCHANGED <<rows, begun>>

\* All is claimed: the quotes come after the trades.
NextKind ==
  /\ job.step = "mark" /\ job.claims = {}
  /\ job' = IF job.kind = "trades" THEN Fetching(job.request, "quotes") ELSE Idle
  /\ UNCHANGED <<coverage, rows, begun>>

\* An error, a cancellation or a crash, anywhere: what is in memory is lost.
Abandon ==
  /\ job.step # "idle"
  /\ job' = Idle
  /\ UNCHANGED <<coverage, rows, begun>>

JobStep ==
  \/ Invalidate \/ DeleteRange
  \/ \E r \in job.left : SkipRecord(r) \/ TakeRecord(r)
  \/ IteratorFails
  \/ \E page \in SUBSET job.left : NextPage(page)
  \/ EndOfAnswer \/ UpsertBars
  \/ \E i \in job.claims : MarkCoverage(i)
  \/ NextKind

DownloadsNext == (\E q \in Requests : Begin(q)) \/ JobStep \/ Abandon

\* A download that has begun goes on, or fails: it does not stop for ever.
DownloadsSpec == DownloadsInit /\ [][DownloadsNext]_vars /\ WF_vars(JobStep)

-----------------------------------------------------------------------------
(* Properties. *)

\* Type invariant of the coverage table, the stored rows and the download.
DownloadsTypeOK ==
  /\ coverage \in [Kinds -> SUBSET Interval]
  /\ DOMAIN rows = Kinds /\ \A k \in Kinds : rows[k] \in [Provided[k] -> Nat]
  /\ job \in Job
  /\ job.step = "fetch" => /\ job.left \subseteq Provided[job.kind]
                           /\ job.seen \subseteq Provided[job.kind]
                           /\ job.buffer \in Seq(Provided[job.kind])
                           /\ Len(job.buffer) < BatchSize
  /\ begun \in 0 .. MaxDownloads

\* Coverage tells the truth at every moment, in the middle of a download, after
\* its failure and across retries and overlapping requests: up to the instant at
\* which a covered interval ends, every record of the provider is stored, once.
CoveredIsStoredOnce ==
  \A k \in Kinds : \A i \in coverage[k], r \in Provided[k] :
    Nanosecond(i.start) <= r.at /\ r.at <= Nanosecond(i.end) => rows[k][r] = 1

\* CoverageIntervals partitions any range into what is covered and what is
\* missing, as maximal intervals in order, whatever claims overlap or touch.
Instants == UNION {q.start .. q.end : q \in Requests}
InstantsOf(list) == UNION {list[n].start .. list[n].end : n \in DOMAIN list}
Maximal(list) ==
  \A n \in DOMAIN list : /\ list[n].start <= list[n].end
                         /\ n > 1 => list[n - 1].end + 1 < list[n].start

CoverageIntervalsExact ==
  \A k \in Kinds : \A start \in Instants : \A end \in {e \in Instants : start <= e} :
    LET covered == CoveredIn(coverage[k], start, end)
        missing == MissingIn(covered, start, end)
    IN /\ InstantsOf(covered) = {us \in start .. end : \E i \in coverage[k] : Within(us, i)}
       /\ InstantsOf(missing) = (start .. end) \ InstantsOf(covered)
       /\ Maximal(covered) /\ Maximal(missing)

\* A download changes nothing outside its range, whatever becomes of it: neither
\* the rows nor the coverage on its sides, and nothing of another kind.
OutsideKept ==
  [][/\ \A k \in Kinds : \A r \in Provided[k] :
          rows'[k][r] # rows[k][r] => job.step # "idle" /\ Within(Microsecond(r), job.request)
     /\ \A k \in Kinds : \A us \in Instants :
          (\E i \in coverage'[k] : Within(us, i)) # (\E i \in coverage[k] : Within(us, i))
            => job.step # "idle" /\ k = job.kind /\ Within(us, job.request)]_vars

\* Every download ends, however often the provider fails and whatever it repeats
\* when it is asked again.
DownloadEnds == job.step # "idle" ~> job.step = "idle"
=============================================================================
