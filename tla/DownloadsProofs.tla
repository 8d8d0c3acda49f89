---------------------------- MODULE DownloadsProofs ----------------------------
(***************************************************************************)
(* Theorems about Downloads, for every provider, every set of requests and    *)
(* sessions, and every batch size and number of retries: coverage never       *)
(* claims what is not stored, a download changes nothing outside its range, and   *)
(* what CoverageIntervals answers of the claims is exact.                     *)
(*                                                                         *)
(* The inductive invariant follows the life of a download.  While it           *)
(* replaces a range, the range is withdrawn from the coverage                 *)
(* (RangeIsWithdrawn), so that no row it deletes or inserts is covered.  While  *)
(* it reads, each record asked for is stored or gathered exactly once if the    *)
(* iterator has processed it, and not at all if it has not (FetchIsExact), so    *)
(* that at the end of the answer all is there (ClaimsAreStored).  The claims     *)
(* themselves are finitely many and none is empty (CoverageIsSound): that is    *)
(* what the scan of CoverageIntervals needs, and its two loops are followed     *)
(* row by row (MergedTo, Walked).                                            *)
(***************************************************************************)
EXTENDS Downloads, OrdersProofs, SequenceTheorems

-----------------------------------------------------------------------------
(* Microseconds and nanoseconds.                                             *)

\* Whole microseconds keep their order in nanoseconds.
LEMMA NanosecondKeepsOrder ==
  ASSUME NEW a \in Nat, NEW b \in Nat
  PROVE  /\ Nanosecond(a) \in Nat
         /\ a <= b => Nanosecond(a) <= Nanosecond(b)
         /\ a < b => Nanosecond(a) < Nanosecond(b)
<1>1. NanosPerMicro \in Nat \ {0}
  BY DownloadsAssumption
<1>2. QED
  BY <1>1, SMT DEF Nanosecond

\* A record between two whole microseconds is stored between them.
LEMMA MicrosecondWithin ==
  ASSUME NEW r \in Record, NEW i, i.start \in Nat, i.end \in Nat,
         Nanosecond(i.start) <= r.at, r.at <= Nanosecond(i.end)
  PROVE  Within(Microsecond(r), i)
<1>1. NanosPerMicro \in Nat \ {0} /\ r.at \in Nat
  BY DownloadsAssumption DEF Record
<1>2. ASSUME NEW x \in Nat, NEW n \in Nat \ {0}
      PROVE  x \div n \in Nat /\ (x \div n) * n <= x /\ x < (x \div n + 1) * n
  BY SMT
<1>3. ASSUME NEW x \in Nat, NEW n \in Nat \ {0}, NEW a \in Nat, NEW b \in Nat,
             a * n <= x, x <= b * n
      PROVE  a <= x \div n /\ x \div n <= b
  BY <1>2, <1>3, SMTT(30)
<1>4. QED
  BY <1>1, <1>3 DEF Nanosecond, Microsecond, Within

-----------------------------------------------------------------------------
(* Copies of a record in a batch.                                            *)

LEMMA CopiesInBatch ==
  ASSUME NEW S, NEW batch \in Seq(S), NEW r \in S, NEW o \in S
  PROVE  /\ Copies(batch, o) \in Nat
         /\ Copies(<<>>, o) = 0
         /\ Copies(Append(batch, r), o) = Copies(batch, o) + (IF o = r THEN 1 ELSE 0)
<1> DEFINE places == {n \in DOMAIN batch : batch[n] = o}
           more == {n \in DOMAIN Append(batch, r) : Append(batch, r)[n] = o}
           next == Len(batch) + 1
<1>1. IsFiniteSet(places) /\ Cardinality(places) \in Nat
  <2>1. DOMAIN batch = 1 .. Len(batch) /\ Len(batch) \in Nat
    OBVIOUS
  <2>2. IsFiniteSet(1 .. Len(batch))
    BY <2>1, FS_Interval
  <2>3. IsFiniteSet(places)
    BY <2>1, <2>2, FS_Subset
  <2>4. QED
    BY <2>3, FS_CardinalityType
<1>2. Copies(<<>>, o) = 0
  <2>1. {n \in DOMAIN <<>> : <<>>[n] = o} = {}
    OBVIOUS
  <2>2. QED
    BY <2>1, FS_EmptySet DEF Copies
<1>. /\ Copies(batch, o) = Cardinality(places)
     /\ Copies(Append(batch, r), o) = Cardinality(more)
  BY DEF Copies
<1>3. CASE o = r
  <2>1. more = places \cup {next} /\ next \notin places
    BY <1>3
  <2>2. Cardinality(places \cup {next}) = Cardinality(places) + 1
    BY <1>1, <2>1, FS_AddElement
  <2>3. QED
    BY <1>1, <1>2, <1>3, <2>1, <2>2
<1>4. CASE o # r
  <2>1. more = places
    BY <1>4
  <2>. HIDE DEF places, more
  <2>2. QED
    BY <1>1, <1>2, <1>4, <2>1
<1>5. QED
  BY <1>3, <1>4

-----------------------------------------------------------------------------
(* Types.                                                                    *)

LEMMA RequestType ==
  ASSUME NEW q \in Requests \cup {Nothing}
  PROVE  /\ q.start \in Nat \ {0} /\ q.end \in Nat /\ q.rth \in BOOLEAN
         /\ Nanosecond(q.start) \in Nat /\ Nanosecond(q.end) \in Nat
<1>1. q.start \in Nat \ {0} /\ q.end \in Nat /\ q.rth \in BOOLEAN
  <2>1. CASE q \in Requests
    <3>1. q \in Request
      BY <2>1, DownloadsAssumption
    <3>2. QED
      BY <3>1 DEF Request
  <2>2. CASE q = Nothing
    BY <2>2 DEF Nothing
  <2>3. QED
    BY <2>1, <2>2
<1>2. \A us \in Nat : Nanosecond(us) \in Nat
  BY NanosecondKeepsOrder
<1>3. QED
  BY <1>1, <1>2

\* Withdrawing a range leaves intervals.
LEMMA InvalidatedType ==
  ASSUME NEW claims \in SUBSET Interval, NEW start \in Nat \ {0}, NEW end \in Nat
  PROVE  Invalidated(claims, start, end) \in SUBSET Interval
  BY DEF Invalidated, Overlapping, Interval

\* A request claims intervals.
LEMMA ClaimsType ==
  ASSUME NEW q \in Requests \cup {Nothing}
  PROVE  Claims(q) \in SUBSET Interval
<1>1. ASSUME NEW d \in Trading
      PROVE  LET i == Clipped([start |-> d.open, end |-> d.close], q.start, q.end)
             IN i \in Interval /\ (i.start < i.end => [start |-> i.start, end |-> i.end - 1] \in Interval)
  BY <1>1, RequestType, DownloadsAssumption DEF Clipped, Interval
<1>2. SessionIntervals(q) \in SUBSET Interval
  BY <1>1 DEF SessionIntervals
<1>3. QED
  BY <1>2, RequestType DEF Claims, Interval

LEMMA IdleType == Idle \in Job
  BY DownloadsAssumption DEF Idle, Job, JobSteps, Kinds, TickKinds, Nothing

\* The answer of the provider is of the records it has.
LEMMA AnswerType ==
  ASSUME NEW q, NEW k \in Kinds, NEW from
  PROVE  /\ Answer(q, k, from) \subseteq Provided[k]
         /\ Provided[k] \subseteq Record
  BY DownloadsAssumption DEF Answer

LEMMA FetchingType ==
  ASSUME NEW q \in Requests \cup {Nothing}, NEW k \in Kinds
  PROVE  Fetching(q, k) \in Job
<1>1. Nanosecond(q.start) \in Nat
  BY RequestType
<1>2. Answer(q, k, Nanosecond(q.start)) \in SUBSET Record
  BY AnswerType
<1>3. "fetch" \in JobSteps /\ 0 \in 0 .. MaxRetries /\ <<>> \in Seq(Record)
  BY DownloadsAssumption DEF JobSteps
<1>4. QED
  BY <1>1, <1>2, <1>3 DEF Fetching, Job

\* An insertion adds copies of what the provider has.
LEMMA InsertedType ==
  ASSUME DOMAIN rows = Kinds, \A k \in Kinds : rows[k] \in [Provided[k] -> Nat],
         NEW kind \in Kinds, NEW batch \in Seq(Provided[kind])
  PROVE  LET after == Inserted(rows, kind, batch)
         IN /\ DOMAIN after = Kinds
            /\ \A k \in Kinds : after[k] \in [Provided[k] -> Nat]
            /\ \A k \in Kinds \ {kind} : after[k] = rows[k]
            /\ \A r \in Provided[kind] : after[kind][r] = rows[kind][r] + Copies(batch, r)
<1>1. \A r \in Provided[kind] : Copies(batch, r) \in Nat
  BY CopiesInBatch
<1>2. [r \in Provided[kind] |-> rows[kind][r] + Copies(batch, r)] \in [Provided[kind] -> Nat]
  BY <1>1
<1>3. QED
  BY <1>2 DEF Inserted

LEMMA TypeInit == DownloadsInit => DownloadsTypeOK
<1>1. Idle.step # "fetch"
  BY DEF Idle
<1>2. 0 \in 0 .. MaxDownloads
  BY DownloadsAssumption
<1>3. QED
  BY <1>1, <1>2, IdleType DEF DownloadsInit, DownloadsTypeOK

\* A download that is over is well typed.
LEMMA IdleStep ==
  ASSUME DownloadsTypeOK, job' = Idle, UNCHANGED <<coverage, rows, begun>>
  PROVE  DownloadsTypeOK'
<1>1. Idle.step # "fetch"
  BY DEF Idle
<1>2. QED
  BY <1>1, IdleType DEF DownloadsTypeOK

\* So is one that begins to read a kind.
LEMMA FetchingStep ==
  ASSUME DownloadsTypeOK, NEW k \in Kinds, job' = Fetching(job.request, k),
         UNCHANGED <<coverage, begun>>, DOMAIN rows' = Kinds,
         \A kind \in Kinds : rows'[kind] \in [Provided[kind] -> Nat]
  PROVE  DownloadsTypeOK'
<1>1. job.request \in Requests \cup {Nothing}
  BY DEF DownloadsTypeOK, Job
<1>2. job' \in Job
  BY <1>1, FetchingType
<1>3. /\ job'.kind = k /\ job'.seen = {} /\ job'.buffer = <<>>
      /\ job'.left \subseteq Provided[k]
  BY AnswerType DEF Fetching
<1>4. \A S : <<>> \in Seq(S) /\ Len(<<>>) = 0
  OBVIOUS
<1>5. 0 < BatchSize
  BY DownloadsAssumption
<1>6. QED
  BY <1>2, <1>3, <1>4, <1>5 DEF DownloadsTypeOK

\* What is known of a job.
LEMMA JobFields ==
  ASSUME DownloadsTypeOK
  PROVE  /\ job.step \in JobSteps /\ job.request \in Requests \cup {Nothing} /\ job.kind \in Kinds
         /\ job.resume \in Nat /\ job.failures \in 0 .. MaxRetries
         /\ job.claims \in SUBSET Interval
         /\ Provided[job.kind] \subseteq Record
         /\ rows[job.kind] \in [Provided[job.kind] -> Nat]
         /\ coverage[job.kind] \in SUBSET Interval
<1>1. job \in Job /\ job.kind \in Kinds
  BY DEF DownloadsTypeOK, Job
<1>2. Provided[job.kind] \subseteq Record
  BY <1>1, AnswerType
<1>3. QED
  BY <1>1, <1>2 DEF DownloadsTypeOK, Job

\* A record is taken: it is gathered or not, and the batch inserted or not.
\* A record is taken: it is gathered or not, and the batch inserted or not.
LEMMA TakenRecord ==
  ASSUME DownloadsTypeOK, NEW r \in job.left, TakeRecord(r)
  PROVE  LET gathered == IF Kept(job.request, r) THEN Append(job.buffer, r) ELSE job.buffer
             full == Len(gathered) >= BatchSize
         IN /\ r \in Provided[job.kind] /\ r \in Record /\ ~Suppressed(r)
            /\ job.step = "fetch"
            /\ gathered \in Seq(Provided[job.kind])
            /\ rows' = IF full THEN Inserted(rows, job.kind, gathered) ELSE rows
            /\ job'.step = "fetch" /\ job'.request = job.request /\ job'.kind = job.kind
            /\ job'.left = job.left \ {r} /\ job'.failures = 0 /\ job'.resume = r.at
            /\ job'.seen = (IF r.at > job.resume THEN {} ELSE job.seen) \cup {r}
            /\ job'.buffer = (IF full THEN <<>> ELSE gathered)
            /\ job'.claims = job.claims
<1>. DEFINE gathered == IF Kept(job.request, r) THEN Append(job.buffer, r) ELSE job.buffer
            full == Len(gathered) >= BatchSize
            seen == (IF r.at > job.resume THEN {} ELSE job.seen) \cup {r}
<1>1. job.step = "fetch" /\ ~Suppressed(r)
  BY DEF TakeRecord
<1>2. /\ r \in Provided[job.kind] /\ r \in Record
      /\ job.buffer \in Seq(Provided[job.kind])
  BY <1>1, JobFields DEF DownloadsTypeOK
<1>3. gathered \in Seq(Provided[job.kind])
  <2>1. \A S : \A batch \in Seq(S), o \in S : Append(batch, o) \in Seq(S)
    OBVIOUS
  <2>2. Append(job.buffer, r) \in Seq(Provided[job.kind])
    BY <1>2, <2>1
  <2>3. QED
    BY <1>2, <2>2
<1>4. rows' = IF full THEN Inserted(rows, job.kind, gathered) ELSE rows
  BY DEF TakeRecord
<1>5. job' = [job EXCEPT !.left = @ \ {r}, !.failures = 0, !.resume = r.at,
                         !.seen = seen, !.buffer = IF full THEN <<>> ELSE gathered]
  BY DEF TakeRecord
<1>6. job \in Job
  BY DEF DownloadsTypeOK
<1>. HIDE DEF gathered, full, seen
<1>7. /\ job'.step = job.step /\ job'.request = job.request /\ job'.kind = job.kind
      /\ job'.left = job.left \ {r} /\ job'.failures = 0 /\ job'.resume = r.at
      /\ job'.seen = seen /\ job'.buffer = (IF full THEN <<>> ELSE gathered)
      /\ job'.claims = job.claims
  BY <1>5, <1>6 DEF Job
<1>8. QED
  BY <1>1, <1>2, <1>3, <1>4, <1>7 DEF gathered, full, seen

LEMMA TypeStep ==
  ASSUME DownloadsTypeOK, [DownloadsNext]_vars
  PROVE  DownloadsTypeOK'
<1>. job \in Job
  BY DEF DownloadsTypeOK
<1>1. ASSUME NEW q \in Requests, Begin(q) PROVE DownloadsTypeOK'
  <2>1. \A step \in JobSteps, kind \in Kinds :
          [Idle EXCEPT !.step = step, !.request = q, !.kind = kind] \in Job
    BY IdleType DEF Job
  <2>2. job' \in Job /\ job'.step # "fetch"
    BY <1>1, <2>1 DEF Begin, JobSteps, Kinds, TickKinds, Idle
  <2>3. begun' \in 0 .. MaxDownloads
    BY <1>1, DownloadsAssumption DEF Begin, DownloadsTypeOK
  <2>4. QED
    BY <1>1, <2>2, <2>3 DEF Begin, DownloadsTypeOK
<1>2. ASSUME Invalidate PROVE DownloadsTypeOK'
  <2>1. coverage' \in [Kinds -> SUBSET Interval]
    BY <1>2, JobFields, RequestType, InvalidatedType DEF Invalidate, DownloadsTypeOK
  <2>2. job' \in Job /\ job'.step # "fetch"
    BY <1>2 DEF Invalidate, Job, JobSteps, Kinds, TickKinds
  <2>3. QED
    BY <1>2, <2>1, <2>2 DEF Invalidate, DownloadsTypeOK
<1>3. ASSUME DeleteRange PROVE DownloadsTypeOK'
  <2>1. DOMAIN rows' = Kinds /\ \A k \in Kinds : rows'[k] \in [Provided[k] -> Nat]
    BY <1>3 DEF DeleteRange, DownloadsTypeOK
  <2>2. QED
    BY <1>3, <2>1, FetchingStep DEF DeleteRange, Kinds, TickKinds
<1>4. ASSUME NEW r \in job.left, SkipRecord(r) PROVE DownloadsTypeOK'
  BY <1>4 DEF SkipRecord, DownloadsTypeOK, Job
<1>5. ASSUME NEW r \in job.left, TakeRecord(r) PROVE DownloadsTypeOK'
  <2>. DEFINE gathered == IF Kept(job.request, r) THEN Append(job.buffer, r) ELSE job.buffer
              full == Len(gathered) >= BatchSize
  <2>1. DOMAIN rows' = Kinds /\ \A k \in Kinds : rows'[k] \in [Provided[k] -> Nat]
    <3>1. gathered \in Seq(Provided[job.kind])
      BY <1>5, TakenRecord
    <3>2. rows' = IF full THEN Inserted(rows, job.kind, gathered) ELSE rows
      BY <1>5, TakenRecord
    <3>. HIDE DEF gathered, full
    <3>3. QED
      BY <3>1, <3>2, JobFields, InsertedType DEF DownloadsTypeOK
  <2>2. job'.left \subseteq Provided[job'.kind] /\ job'.seen \subseteq Provided[job'.kind]
    BY <1>5, TakenRecord DEF DownloadsTypeOK
  <2>3. job'.buffer \in Seq(Provided[job'.kind]) /\ Len(job'.buffer) < BatchSize
    <3>1. gathered \in Seq(Provided[job.kind])
      BY <1>5, TakenRecord
    <3>2. job'.buffer = (IF full THEN <<>> ELSE gathered) /\ job'.kind = job.kind
      BY <1>5, TakenRecord
    <3>3. \A S : <<>> \in Seq(S) /\ Len(<<>>) = 0
      OBVIOUS
    <3>4. BatchSize \in Nat /\ 0 < BatchSize /\ Len(gathered) \in Nat
      BY <3>1, DownloadsAssumption
    <3>. HIDE DEF gathered
    <3>5. CASE full
      <4>1. job'.buffer = <<>>
        BY <3>2, <3>5
      <4>2. QED
        BY <4>1, <3>3, <3>4
    <3>6. CASE ~full
      <4>1. job'.buffer = gathered /\ job'.kind = job.kind
        BY <3>2, <3>6
      <4>2. QED
        BY <4>1, <3>1, <3>4, <3>6
    <3>7. QED
      BY <3>5, <3>6
  <2>4. job' \in Job
    <3>. DEFINE seen == (IF r.at > job.resume THEN {} ELSE job.seen) \cup {r}
                batch == IF full THEN <<>> ELSE gathered
    <3>1. seen \in SUBSET Record /\ r.at \in Nat
      BY <1>5, TakenRecord DEF Job, Record
    <3>2. \A S \in SUBSET Record : Seq(S) \subseteq Seq(Record)
      OBVIOUS
    <3>3. batch \in Seq(Record)
      <4>1. gathered \in Seq(Provided[job.kind])
        BY <1>5, TakenRecord
      <4>. HIDE DEF gathered
      <4>2. Provided[job.kind] \in SUBSET Record
        BY JobFields
      <4>3. gathered \in Seq(Record)
        BY <4>1, <4>2, <3>2
      <4>4. <<>> \in Seq(Record)
        OBVIOUS
      <4>5. QED
        BY <4>3, <4>4
    <3>4. 0 \in 0 .. MaxRetries
      BY DownloadsAssumption
    <3>5. job' = [job EXCEPT !.left = @ \ {r}, !.failures = 0, !.resume = r.at,
                             !.seen = seen, !.buffer = batch]
      BY <1>5 DEF TakeRecord
    <3>. HIDE DEF seen, batch
    <3>6. QED
      BY <3>1, <3>3, <3>4, <3>5 DEF Job
  <2>5. coverage' = coverage /\ begun' = begun
    BY <1>5 DEF TakeRecord
  <2>6. QED
    BY <2>1, <2>2, <2>3, <2>4, <2>5 DEF DownloadsTypeOK
<1>6. ASSUME IteratorFails PROVE DownloadsTypeOK'
  <2>1. CASE job' = Idle
    BY <1>6, <2>1, IdleStep DEF IteratorFails
  <2>2. CASE job' # Idle
    <3>1. /\ job.step = "fetch" /\ job.failures + 1 <= MaxRetries
          /\ job' = [job EXCEPT !.failures = @ + 1,
                                !.left = Answer(job.request, job.kind, job.resume)]
      BY <1>6, <2>2, JobFields, DownloadsAssumption DEF IteratorFails
    <3>2. Answer(job.request, job.kind, job.resume) \subseteq Provided[job.kind]
      BY JobFields, AnswerType
    <3>3. job.failures + 1 \in 0 .. MaxRetries
      BY <3>1, JobFields
    <3>4. Answer(job.request, job.kind, job.resume) \in SUBSET Record
      BY <3>2, JobFields
    <3>5. job' \in Job
      BY <3>1, <3>3, <3>4 DEF Job
    <3>6. QED
      BY <1>6, <3>1, <3>2, <3>5 DEF IteratorFails, DownloadsTypeOK, Job
  <2>3. QED
    BY <2>1, <2>2
<1>7. ASSUME NEW page \in SUBSET job.left, NextPage(page) PROVE DownloadsTypeOK'
  <2>1. DOMAIN rows' = Kinds /\ \A k \in Kinds : rows'[k] \in [Provided[k] -> Nat]
    BY <1>7, JobFields DEF NextPage, DownloadsTypeOK
  <2>2. QED
    BY <1>7, <2>1 DEF NextPage, DownloadsTypeOK, Job
<1>8. ASSUME EndOfAnswer PROVE DownloadsTypeOK'
  <2>1. job.buffer \in Seq(Provided[job.kind])
    BY <1>8 DEF EndOfAnswer, DownloadsTypeOK
  <2>2. DOMAIN rows' = Kinds /\ \A k \in Kinds : rows'[k] \in [Provided[k] -> Nat]
    BY <1>8, <2>1, JobFields, InsertedType DEF EndOfAnswer, DownloadsTypeOK
  <2>3. Claims(job.request) \in SUBSET Interval /\ "mark" \in JobSteps /\ <<>> \in Seq(Record)
    BY JobFields, ClaimsType DEF JobSteps
  <2>4. job' \in Job /\ job'.step = "mark"
    BY <1>8, <2>3 DEF EndOfAnswer, Job
  <2>5. QED
    BY <1>8, <2>2, <2>4 DEF EndOfAnswer, DownloadsTypeOK
<1>9. ASSUME UpsertBars PROVE DownloadsTypeOK'
  <2>1. DOMAIN rows' = Kinds /\ \A k \in Kinds : rows'[k] \in [Provided[k] -> Nat]
    BY <1>9 DEF UpsertBars, DownloadsTypeOK, Kinds
  <2>2. Claims(job.request) \in SUBSET Interval /\ "mark" \in JobSteps
    BY JobFields, ClaimsType DEF JobSteps
  <2>3. job' \in Job /\ job'.step = "mark"
    BY <1>9, <2>2 DEF UpsertBars, Job
  <2>4. QED
    BY <1>9, <2>1, <2>3 DEF UpsertBars, DownloadsTypeOK
<1>10. ASSUME NEW i \in job.claims, MarkCoverage(i) PROVE DownloadsTypeOK'
  <2>1. coverage' \in [Kinds -> SUBSET Interval]
    BY <1>10, JobFields DEF MarkCoverage, DownloadsTypeOK
  <2>2. job' \in Job /\ job'.step = "mark"
    BY <1>10 DEF MarkCoverage, Job
  <2>3. QED
    BY <1>10, <2>1, <2>2 DEF MarkCoverage, DownloadsTypeOK
<1>11. ASSUME NextKind PROVE DownloadsTypeOK'
  <2>1. UNCHANGED <<coverage, rows, begun>>
    BY <1>11 DEF NextKind
  <2>2. DOMAIN rows' = Kinds /\ \A k \in Kinds : rows'[k] \in [Provided[k] -> Nat]
    BY <2>1 DEF DownloadsTypeOK
  <2>3. job' = Fetching(job.request, "quotes") \/ job' = Idle
    BY <1>11 DEF NextKind
  <2>4. QED
    BY <2>1, <2>2, <2>3, FetchingStep, IdleStep DEF Kinds, TickKinds
<1>12. ASSUME Abandon PROVE DownloadsTypeOK'
  BY <1>12, IdleStep DEF Abandon
<1>13. ASSUME UNCHANGED vars PROVE DownloadsTypeOK'
  BY <1>13 DEF vars, DownloadsTypeOK
<1>14. QED
  BY <1>1, <1>2, <1>3, <1>4, <1>5, <1>6, <1>7, <1>8, <1>9, <1>10, <1>11, <1>12, <1>13
     DEF DownloadsNext, JobStep

\* A record is gathered and stored only in the kinds and with the types the
\* database has (DownloadsTypeOK), whatever fails.
THEOREM DownloadTypesHold == DownloadsSpec => []DownloadsTypeOK
BY TypeInit, TypeStep, PTL DEF DownloadsSpec

-----------------------------------------------------------------------------
(* The inductive invariant.                                                  *)

\* The request asks the provider for r, in nanoseconds.
Asked(r) == /\ Nanosecond(job.request.start) <= r.at
            /\ r.at <= Nanosecond(job.request.end)

\* The download has read r in this answer or an earlier one.
Processed(r) == IF job.request.via = "direct" THEN Suppressed(r) ELSE r \notin job.left

Held(r) == rows[job.kind][r] + Copies(job.buffer, r)

Withdrawn(k) == \A i \in coverage[k] : ~(i.end >= job.request.start /\ i.start <= job.request.end)
Emptied(k) == \A r \in Provided[k] : Within(Microsecond(r), job.request) => rows[k][r] = 0

\* A download under way has a request, and reads ticks or replaces bars.
RequestIsOpen ==
  job.step # "idle" =>
    /\ job.request \in Requests
    /\ job.step = "upsert" => job.kind = "minute_bars"
    /\ job.request.via = "bars" <=> job.kind = "minute_bars"
    /\ job.step \in {"invalidate", "delete", "fetch"} => job.kind # "minute_bars"

\* The range is withdrawn before it is touched, and the quotes of the range are
\* gone while the trades are read.
RangeIsWithdrawn ==
  /\ job.step = "invalidate" /\ job.kind = "quotes" => Withdrawn("trades")
  /\ job.step = "delete" => Withdrawn("trades") /\ Withdrawn("quotes")
  /\ job.step = "fetch" => Withdrawn(job.kind)
  /\ job.step \in {"fetch", "mark"} /\ job.kind = "trades" => Withdrawn("quotes") /\ Emptied("quotes")

\* What has been read is held once, what has not is still to come.
FetchIsExact ==
  job.step = "fetch" =>
    /\ Nanosecond(job.request.start) <= job.resume
    /\ job.request.via # "direct" => job.buffer = <<>>
    /\ \A r \in job.left : Asked(r)
    /\ job.buffer \in Seq({r \in Provided[job.kind] : Asked(r)})
    /\ \A r \in Provided[job.kind] : Asked(r) =>
         /\ ~Processed(r) => r \in job.left /\ Held(r) = 0
         /\ Processed(r) /\ Kept(job.request, r) => Held(r) = 1

\* What is about to be claimed is stored.
ClaimsAreStored ==
  job.step = "mark" =>
    \A i \in job.claims : \A r \in Provided[job.kind] :
      Nanosecond(i.start) <= r.at /\ r.at <= Nanosecond(i.end) => rows[job.kind][r] = 1

DownloadInv ==
  RequestIsOpen /\ RangeIsWithdrawn /\ FetchIsExact /\ ClaimsAreStored /\ CoveredIsStoredOnce

-----------------------------------------------------------------------------
(* What the coverage claims.                                                 *)

\* A record asked for is in the range in microseconds too.
LEMMA AskedIsWithin ==
  ASSUME DownloadsTypeOK, NEW r \in Record, Asked(r)
  PROVE  Within(Microsecond(r), job.request)
<1>1. job.request.start \in Nat /\ job.request.end \in Nat
  BY JobFields, RequestType
<1>2. QED
  BY <1>1, MicrosecondWithin DEF Asked

\* No covered record is in a range that is withdrawn.
LEMMA WithdrawnIsNotCovered ==
  ASSUME DownloadsTypeOK, NEW k \in Kinds, Withdrawn(k),
         NEW i \in coverage[k], NEW r \in Provided[k],
         Nanosecond(i.start) <= r.at, r.at <= Nanosecond(i.end)
  PROVE  ~Within(Microsecond(r), job.request)
<1>1. i.start \in Nat /\ i.end \in Nat
  BY DEF DownloadsTypeOK, Interval
<1>2. r \in Record /\ r.at \in Nat
  BY AnswerType DEF Record
<1>3. Within(Microsecond(r), i)
  BY <1>1, <1>2, MicrosecondWithin
<1>4. Microsecond(r) \in Nat
  <2>1. \A x \in Nat, n \in Nat \ {0} : x \div n \in Nat
    BY SMT
  <2>2. QED
    BY <1>2, <2>1, DownloadsAssumption DEF Microsecond
<1>5. job.request.start \in Nat /\ job.request.end \in Nat
  BY JobFields, RequestType
<1>6. QED
  BY <1>1, <1>3, <1>4, <1>5 DEF Withdrawn, Within

\* Rows may change in a withdrawn range: coverage stays true.
LEMMA WithdrawnMayChange ==
  ASSUME DownloadsTypeOK, CoveredIsStoredOnce, coverage' = coverage,
         \A k \in Kinds : \A r \in Provided[k] :
           rows'[k][r] # rows[k][r] => Within(Microsecond(r), job.request) /\ Withdrawn(k)
  PROVE  CoveredIsStoredOnce'
<1>1. SUFFICES ASSUME NEW k \in Kinds, NEW i \in coverage[k], NEW r \in Provided[k],
                      Nanosecond(i.start) <= r.at, r.at <= Nanosecond(i.end)
               PROVE  rows'[k][r] = 1
  BY DEF CoveredIsStoredOnce
<1>2. rows[k][r] = 1
  BY <1>1 DEF CoveredIsStoredOnce
<1>3. rows'[k][r] = rows[k][r]
  BY <1>1, WithdrawnIsNotCovered
<1>4. QED
  BY <1>2, <1>3

\* InvalidateCoverage leaves nothing of the range and adds nothing.
LEMMA InvalidatedRange ==
  ASSUME NEW claims \in SUBSET Interval, NEW start \in Nat \ {0}, NEW end \in Nat,
         start <= end, NEW i \in Invalidated(claims, start, end)
  PROVE  /\ ~(i.end >= start /\ i.start <= end)
         /\ \E j \in claims : j.start <= i.start /\ i.end <= j.end
  BY DEF Invalidated, Overlapping, Interval

\* What a request claims, it asked for and kept.
LEMMA ClaimedIsAsked ==
  ASSUME NEW q \in Requests, NEW i \in Claims(q), NEW r \in Record,
         Nanosecond(i.start) <= r.at, r.at <= Nanosecond(i.end)
  PROVE  Nanosecond(q.start) <= r.at /\ r.at <= Nanosecond(q.end) /\ Kept(q, r)
<1>1. q.start \in Nat \ {0} /\ q.end \in Nat /\ q.rth \in BOOLEAN /\ r.at \in Nat
  BY RequestType DEF Record
<1>2. CASE ~q.rth
  BY <1>2 DEF Claims, Kept
<1>3. CASE q.rth
  <2>1. PICK d \in Trading :
          LET c == Clipped([start |-> d.open, end |-> d.close], q.start, q.end)
          IN c.start < c.end /\ i = [start |-> c.start, end |-> c.end - 1]
    BY <1>3 DEF Claims, SessionIntervals
  <2>2. d.open \in Nat /\ d.close \in Nat
    BY DownloadsAssumption
  <2>3. /\ i.start \in Nat /\ i.end \in Nat
        /\ q.start <= i.start /\ d.open <= i.start /\ i.end < q.end /\ i.end < d.close
    BY <1>1, <2>1, <2>2 DEF Clipped
  <2>4. /\ Nanosecond(q.start) <= Nanosecond(i.start) /\ Nanosecond(d.open) <= Nanosecond(i.start)
        /\ Nanosecond(i.end) < Nanosecond(q.end) /\ Nanosecond(i.end) < Nanosecond(d.close)
    BY <1>1, <2>2, <2>3, NanosecondKeepsOrder
  <2>5. /\ Nanosecond(q.start) \in Nat /\ Nanosecond(d.open) \in Nat /\ Nanosecond(i.start) \in Nat
        /\ Nanosecond(i.end) \in Nat /\ Nanosecond(q.end) \in Nat /\ Nanosecond(d.close) \in Nat
    BY <1>1, <2>2, <2>3, NanosecondKeepsOrder
  <2>6. QED
    BY <1>1, <2>4, <2>5 DEF Kept, Regular
<1>4. QED
  BY <1>1, <1>2, <1>3

-----------------------------------------------------------------------------
(* The steps of a download keep the invariant.                               *)

\* Nothing is asked of an idle download.
LEMMA IdleKeeps ==
  ASSUME DownloadInv, job' = Idle, UNCHANGED <<coverage, rows>>
  PROVE  DownloadInv'
<1>1. job'.step = "idle"
  BY DEF Idle
<1>2. CoveredIsStoredOnce'
  BY DEF DownloadInv, CoveredIsStoredOnce
<1>3. QED
  BY <1>1, <1>2
     DEF DownloadInv, RequestIsOpen, RangeIsWithdrawn, FetchIsExact, ClaimsAreStored

\* When a kind is about to be read, nothing of it is processed or held.
LEMMA FetchingIsExact ==
  ASSUME DownloadsTypeOK, NEW k \in Kinds, job.request \in Requests,
         job' = Fetching(job.request, k),
         \A r \in Provided[k] : Within(Microsecond(r), job.request) => rows'[k][r] = 0
  PROVE  FetchIsExact'
<1>1. /\ job'.request = job.request /\ job'.kind = k /\ job'.seen = {} /\ job'.buffer = <<>>
      /\ job'.resume = Nanosecond(job.request.start)
      /\ job'.left = Answer(job.request, k, Nanosecond(job.request.start))
  BY DEF Fetching
<1>2. Nanosecond(job.request.start) \in Nat
  BY RequestType
<1>3. Provided[k] \subseteq Record
  BY AnswerType
<1>4. ASSUME NEW r \in Provided[k], Asked(r)'
      PROVE  r \in job'.left /\ ~Processed(r)' /\ Held(r)' = 0
  <2>1. Asked(r) /\ r \in Record /\ r.at \in Nat
    BY <1>1, <1>3, <1>4 DEF Asked, Record
  <2>2. r \in job'.left
    BY <1>1, <2>1 DEF Answer, Asked
  <2>3. ~Suppressed(r)'
    BY <1>1, <1>2, <2>1 DEF Suppressed, Asked
  <2>4. rows'[k][r] = 0
    BY <2>1, AskedIsWithin
  <2>5. Copies(<<>>, r) = 0
    <3>1. <<>> \in Seq({r})
      OBVIOUS
    <3>2. QED
      BY <3>1, CopiesInBatch
  <2>6. Held(r)' = 0
    BY <1>1, <2>4, <2>5 DEF Held
  <2>7. QED
    BY <1>1, <2>2, <2>3, <2>6 DEF Processed
<1>5. Nanosecond(job'.request.start) <= job'.resume
  BY <1>1, <1>2
<1>6. \A r \in job'.left : Asked(r)'
  BY <1>1 DEF Answer, Asked
<1>7. \A S : <<>> \in Seq(S)
  OBVIOUS
<1>8. QED
  BY <1>1, <1>4, <1>5, <1>6, <1>7 DEF FetchIsExact

LEMMA BeginKeeps ==
  ASSUME DownloadsTypeOK, DownloadInv, NEW q \in Requests, Begin(q)
  PROVE  DownloadInv'
<1>1. /\ job'.request = q /\ job'.step = (IF q.via = "bars" THEN "upsert" ELSE "invalidate")
      /\ job'.kind = (IF q.via = "bars" THEN "minute_bars" ELSE "trades")
  BY DEF Begin, Idle
<1>2. CoveredIsStoredOnce'
  BY DEF Begin, DownloadInv, CoveredIsStoredOnce
<1>3. QED
  BY <1>1, <1>2
     DEF DownloadInv, RequestIsOpen, RangeIsWithdrawn, FetchIsExact, ClaimsAreStored

LEMMA InvalidateKeeps ==
  ASSUME DownloadsTypeOK, DownloadInv, Invalidate
  PROVE  DownloadInv'
<1>1. job.request \in Requests /\ job.kind \in TickKinds /\ job.request.via # "bars"
  BY JobFields DEF Invalidate, DownloadInv, RequestIsOpen, Kinds
<1>2. /\ job.request.start \in Nat \ {0} /\ job.request.end \in Nat
      /\ job.request.start <= job.request.end
  BY <1>1, RequestType, DownloadsAssumption
<1>3. /\ job'.request = job.request
      /\ job'.step = (IF job.kind = "trades" THEN "invalidate" ELSE "delete")
      /\ job'.kind = "quotes"
  BY <1>1 DEF Invalidate, TickKinds, DownloadsTypeOK, Job
<1>4. /\ coverage'[job.kind] = Invalidated(coverage[job.kind], job.request.start, job.request.end)
      /\ \A k \in Kinds \ {job.kind} : coverage'[k] = coverage[k]
  BY <1>1 DEF Invalidate, DownloadsTypeOK, Kinds
<1>5. coverage[job.kind] \in SUBSET Interval
  BY JobFields
<1>6. \A i \in coverage'[job.kind] :
        /\ ~(i.end >= job.request.start /\ i.start <= job.request.end)
        /\ \E j \in coverage[job.kind] : j.start <= i.start /\ i.end <= j.end
  BY <1>2, <1>4, <1>5, InvalidatedRange
<1>7. \A k \in TickKinds : k = job.kind => Withdrawn(k)'
  BY <1>3, <1>6 DEF Withdrawn
<1>8. job.kind = "quotes" => Withdrawn("trades")'
  BY <1>3, <1>4 DEF Invalidate, DownloadInv, RangeIsWithdrawn, Withdrawn, Kinds, TickKinds
<1>9. RangeIsWithdrawn'
  BY <1>1, <1>3, <1>7, <1>8 DEF RangeIsWithdrawn, TickKinds
<1>10. RequestIsOpen'
  BY <1>1, <1>3 DEF RequestIsOpen
<1>11. CoveredIsStoredOnce'
  <2>1. SUFFICES ASSUME NEW k \in Kinds, NEW i \in coverage'[k], NEW r \in Provided[k],
                        Nanosecond(i.start) <= r.at, r.at <= Nanosecond(i.end)
                 PROVE  rows[k][r] = 1
    BY DEF CoveredIsStoredOnce, Invalidate
  <2>2. CASE k # job.kind
    BY <1>4, <2>1, <2>2 DEF DownloadInv, CoveredIsStoredOnce
  <2>3. CASE k = job.kind
    <3>1. PICK j \in coverage[k] : j.start <= i.start /\ i.end <= j.end
      BY <1>6, <2>3
    <3>2. j.start \in Nat /\ j.end \in Nat
      BY <1>5, <2>3 DEF Interval
    <3>3. i \in Interval /\ r \in Record
      BY <1>2, <1>4, <1>5, <2>3, InvalidatedType, AnswerType
    <3>4. i.start \in Nat /\ i.end \in Nat /\ r.at \in Nat
      BY <3>3 DEF Interval, Record
    <3>5. /\ Nanosecond(j.start) <= Nanosecond(i.start) /\ Nanosecond(i.end) <= Nanosecond(j.end)
          /\ Nanosecond(j.start) \in Nat /\ Nanosecond(i.start) \in Nat
          /\ Nanosecond(j.end) \in Nat /\ Nanosecond(i.end) \in Nat
      BY <3>1, <3>2, <3>4, NanosecondKeepsOrder
    <3>6. Nanosecond(j.start) <= r.at /\ r.at <= Nanosecond(j.end)
      BY <2>1, <3>4, <3>5
    <3>7. QED
      BY <3>6 DEF DownloadInv, CoveredIsStoredOnce
  <2>4. QED
    BY <2>2, <2>3
<1>12. FetchIsExact' /\ ClaimsAreStored'
  BY <1>3 DEF FetchIsExact, ClaimsAreStored
<1>13. QED
  BY <1>9, <1>10, <1>11, <1>12 DEF DownloadInv

LEMMA DeleteRangeKeeps ==
  ASSUME DownloadsTypeOK, DownloadInv, DeleteRange
  PROVE  DownloadInv'
<1>1. job.request \in Requests /\ job.kind # "minute_bars" /\ job.request.via # "bars"
  BY DEF DeleteRange, DownloadInv, RequestIsOpen
<1>2. Withdrawn("trades") /\ Withdrawn("quotes")
  BY DEF DeleteRange, DownloadInv, RangeIsWithdrawn
<1>3. /\ job'.step = "fetch" /\ job'.request = job.request /\ job'.kind = "trades"
      /\ job' = Fetching(job.request, "trades") /\ coverage' = coverage
  BY DEF DeleteRange, Fetching
<1>4. \A k \in TickKinds : \A r \in Provided[k] :
        Within(Microsecond(r), job.request) => rows'[k][r] = 0
  BY DEF DeleteRange, Kinds
<1>5. FetchIsExact'
  BY <1>1, <1>3, <1>4, FetchingIsExact DEF Kinds, TickKinds
<1>6. \A k \in Kinds : \A r \in Provided[k] :
        rows'[k][r] # rows[k][r] => Within(Microsecond(r), job.request) /\ Withdrawn(k)
  BY <1>2 DEF DeleteRange, TickKinds
<1>7. CoveredIsStoredOnce'
  BY <1>3, <1>6, WithdrawnMayChange DEF DownloadInv
<1>8. RangeIsWithdrawn'
  BY <1>2, <1>3, <1>4 DEF RangeIsWithdrawn, Withdrawn, Emptied, TickKinds
<1>9. RequestIsOpen' /\ ClaimsAreStored'
  BY <1>1, <1>3 DEF RequestIsOpen, ClaimsAreStored
<1>10. QED
  BY <1>5, <1>7, <1>8, <1>9 DEF DownloadInv

\* A step of reading that inserts only what was asked for, and leaves the
\* reading exact, keeps the rest.
LEMMA ReadingKeeps ==
  ASSUME DownloadsTypeOK, DownloadInv, job.step = "fetch",
         job'.step = "fetch", job'.request = job.request, job'.kind = job.kind,
         coverage' = coverage,
         \A k \in Kinds \ {job.kind} : rows'[k] = rows[k],
         \A r \in Provided[job.kind] : rows'[job.kind][r] # rows[job.kind][r] => Asked(r),
         FetchIsExact'
  PROVE  DownloadInv'
<1>1. Withdrawn(job.kind)
  BY DEF DownloadInv, RangeIsWithdrawn
<1>2. \A k \in Kinds : \A r \in Provided[k] :
        rows'[k][r] # rows[k][r] => Within(Microsecond(r), job.request) /\ Withdrawn(k)
  BY <1>1, AskedIsWithin, JobFields
<1>3. CoveredIsStoredOnce'
  BY <1>2, WithdrawnMayChange DEF DownloadInv
<1>4. \A k \in Kinds : Withdrawn(k) => Withdrawn(k)'
  BY DEF Withdrawn
<1>5. job.kind = "trades" => Emptied("quotes")'
  BY DEF DownloadInv, RangeIsWithdrawn, Emptied, Kinds, TickKinds
<1>6. RangeIsWithdrawn'
  BY <1>1, <1>4, <1>5, JobFields DEF DownloadInv, RangeIsWithdrawn, Kinds, TickKinds
<1>7. RequestIsOpen' /\ ClaimsAreStored'
  BY DEF DownloadInv, RequestIsOpen, ClaimsAreStored
<1>8. QED
  BY <1>3, <1>6, <1>7 DEF DownloadInv

LEMMA SkipRecordKeeps ==
  ASSUME DownloadsTypeOK, DownloadInv, NEW r \in job.left, SkipRecord(r)
  PROVE  DownloadInv'
<1>1. /\ job.step = "fetch" /\ job.request.via = "direct" /\ Suppressed(r)
      /\ coverage' = coverage /\ rows' = rows
  BY DEF SkipRecord
<1>2. /\ job'.step = job.step /\ job'.request = job.request /\ job'.kind = job.kind
      /\ job'.left = job.left \ {r} /\ job'.resume = job.resume /\ job'.seen = job.seen
      /\ job'.buffer = job.buffer
  BY DEF SkipRecord, DownloadsTypeOK, Job
<1>3. \A o : /\ Asked(o)' <=> Asked(o)
             /\ Suppressed(o)' <=> Suppressed(o)
             /\ Held(o)' = Held(o)
  BY <1>1, <1>2 DEF Asked, Suppressed, Held
<1>4. FetchIsExact
  BY DEF DownloadInv
<1>5. FetchIsExact'
  BY <1>1, <1>2, <1>3, <1>4 DEF FetchIsExact, Processed
<1>6. QED
  BY <1>1, <1>2, <1>5, ReadingKeeps

\* Taking a record holds one more of it if it is kept, and no more of any other.
LEMMA TakenIsHeld ==
  ASSUME DownloadsTypeOK, NEW r \in job.left, TakeRecord(r), NEW o \in Provided[job.kind]
  PROVE  Held(o)' = Held(o) + (IF o = r /\ Kept(job.request, r) THEN 1 ELSE 0)
<1>. DEFINE gathered == IF Kept(job.request, r) THEN Append(job.buffer, r) ELSE job.buffer
            full == Len(gathered) >= BatchSize
<1>1. /\ r \in Provided[job.kind] /\ gathered \in Seq(Provided[job.kind])
      /\ rows' = (IF full THEN Inserted(rows, job.kind, gathered) ELSE rows)
      /\ job'.buffer = (IF full THEN <<>> ELSE gathered) /\ job'.kind = job.kind
  BY TakenRecord
<1>2. job.buffer \in Seq(Provided[job.kind])
  BY TakenRecord DEF DownloadsTypeOK
<1>3. Copies(gathered, o) = Copies(job.buffer, o) + (IF o = r /\ Kept(job.request, r) THEN 1 ELSE 0)
  <2>1. CASE Kept(job.request, r)
    BY <1>1, <1>2, <2>1, CopiesInBatch, SMTT(30)
  <2>2. CASE ~Kept(job.request, r)
    <3>1. Copies(job.buffer, o) \in Nat
      BY <1>1, <1>2, CopiesInBatch
    <3>2. QED
      BY <2>2, <3>1
  <2>3. QED
    BY <2>1, <2>2
<1>4. /\ Copies(gathered, o) \in Nat /\ Copies(job.buffer, o) \in Nat /\ Copies(<<>>, o) = 0
      /\ rows[job.kind][o] \in Nat
  BY <1>1, <1>2, CopiesInBatch, JobFields
<1>5. job.kind \in Kinds /\ DOMAIN rows = Kinds /\ \A k \in Kinds : rows[k] \in [Provided[k] -> Nat]
  BY JobFields DEF DownloadsTypeOK
<1>. HIDE DEF gathered
<1>6. CASE full
  <2>1. rows'[job.kind][o] = rows[job.kind][o] + Copies(gathered, o)
    BY <1>1, <1>5, <1>6, InsertedType
  <2>2. QED
    BY <1>1, <1>3, <1>4, <1>6, <2>1, SMTT(30) DEF Held
<1>7. CASE ~full
  BY <1>1, <1>3, <1>4, <1>7 DEF Held
<1>8. QED
  BY <1>6, <1>7

\* What is not in a batch has no copy in it.
LEMMA NoCopyOutside ==
  ASSUME NEW S, NEW batch \in Seq(S), NEW o, o \notin S
  PROVE  Copies(batch, o) = 0
<1>1. {n \in DOMAIN batch : batch[n] = o} = {}
  OBVIOUS
<1>2. QED
  BY <1>1, FS_EmptySet DEF Copies

\* What is gathered was asked for.
LEMMA GatheredIsAsked ==
  ASSUME DownloadsTypeOK, DownloadInv, NEW r \in job.left, TakeRecord(r)
  PROVE  (IF Kept(job.request, r) THEN Append(job.buffer, r) ELSE job.buffer)
           \in Seq({o \in Provided[job.kind] : Asked(o)})
<1>. DEFINE asked == {o \in Provided[job.kind] : Asked(o)}
<1>1. job.step = "fetch" /\ r \in Provided[job.kind]
  BY TakenRecord
<1>2. job.buffer \in Seq(asked) /\ r \in asked
  BY <1>1 DEF DownloadInv, FetchIsExact
<1>3. \A S : \A batch \in Seq(S), o \in S : Append(batch, o) \in Seq(S)
  OBVIOUS
<1>. HIDE DEF asked
<1>4. Append(job.buffer, r) \in Seq(asked)
  BY <1>2, <1>3
<1>5. (IF Kept(job.request, r) THEN Append(job.buffer, r) ELSE job.buffer) \in Seq(asked)
  BY <1>2, <1>4
<1>6. QED
  BY <1>5 DEF asked

\* Inserting what was asked for changes the rows of nothing else.
LEMMA InsertedIsAsked ==
  ASSUME DownloadsTypeOK, NEW batch \in Seq({o \in Provided[job.kind] : Asked(o)}),
         rows' = Inserted(rows, job.kind, batch)
  PROVE  /\ \A k \in Kinds \ {job.kind} : rows'[k] = rows[k]
         /\ \A o \in Provided[job.kind] : rows'[job.kind][o] = rows[job.kind][o] + Copies(batch, o)
         /\ \A o \in Provided[job.kind] : rows'[job.kind][o] # rows[job.kind][o] => Asked(o)
<1>. DEFINE asked == {o \in Provided[job.kind] : Asked(o)}
<1>1. batch \in Seq(Provided[job.kind])
  <2>1. \A S, T : S \subseteq T => Seq(S) \subseteq Seq(T)
    OBVIOUS
  <2>2. asked \subseteq Provided[job.kind]
    OBVIOUS
  <2>3. batch \in Seq(asked)
    OBVIOUS
  <2>. HIDE DEF asked
  <2>4. QED
    BY <2>1, <2>2, <2>3
<1>2. job.kind \in Kinds /\ DOMAIN rows = Kinds /\ \A k \in Kinds : rows[k] \in [Provided[k] -> Nat]
  BY JobFields DEF DownloadsTypeOK
<1>3. /\ \A k \in Kinds \ {job.kind} : rows'[k] = rows[k]
      /\ \A o \in Provided[job.kind] : rows'[job.kind][o] = rows[job.kind][o] + Copies(batch, o)
  BY <1>1, <1>2, InsertedType
<1>4. ASSUME NEW o \in Provided[job.kind], ~Asked(o) PROVE rows'[job.kind][o] = rows[job.kind][o]
  <2>1. o \notin asked /\ batch \in Seq(asked)
    BY <1>4
  <2>. HIDE DEF asked
  <2>2. Copies(batch, o) = 0
    BY <2>1, NoCopyOutside
  <2>3. rows[job.kind][o] \in Nat
    BY <1>2
  <2>4. QED
    BY <1>3, <2>2, <2>3
<1>5. QED
  BY <1>3, <1>4

LEMMA TakeRecordKeeps ==
  ASSUME DownloadsTypeOK, DownloadInv, NEW r \in job.left, TakeRecord(r)
  PROVE  DownloadInv'
<1>. DEFINE gathered == IF Kept(job.request, r) THEN Append(job.buffer, r) ELSE job.buffer
            full == Len(gathered) >= BatchSize
            asked == {o \in Provided[job.kind] : Asked(o)}
<1>1. /\ job.step = "fetch" /\ job.request.via = "direct"
      /\ r \in Earliest(job.left) /\ ~Suppressed(r) /\ coverage' = coverage
  BY DEF TakeRecord
<1>2. /\ r \in Provided[job.kind] /\ r \in Record
      /\ rows' = (IF full THEN Inserted(rows, job.kind, gathered) ELSE rows)
      /\ job'.step = "fetch" /\ job'.request = job.request /\ job'.kind = job.kind
      /\ job'.left = job.left \ {r} /\ job'.resume = r.at
      /\ job'.seen = (IF r.at > job.resume THEN {} ELSE job.seen) \cup {r}
      /\ job'.buffer = (IF full THEN <<>> ELSE gathered)
  BY TakenRecord
<1>3. /\ FetchIsExact /\ Nanosecond(job.request.start) <= job.resume
      /\ job.buffer \in Seq(asked) /\ \A o \in job.left : Asked(o)
      /\ \A o \in Provided[job.kind] : Asked(o) =>
           /\ ~Suppressed(o) => o \in job.left /\ Held(o) = 0
           /\ Suppressed(o) /\ Kept(job.request, o) => Held(o) = 1
  BY <1>1 DEF DownloadInv, FetchIsExact, Processed
<1>4. \A o : Asked(o)' <=> Asked(o)
  BY <1>2 DEF Asked
<1>5. gathered \in Seq(asked)
  BY GatheredIsAsked
<1>6. job'.buffer \in Seq(asked)
  <2>1. \A S : <<>> \in Seq(S)
    OBVIOUS
  <2>. HIDE DEF gathered, asked
  <2>2. QED
    BY <1>2, <1>5, <2>1
<1>7. job.resume \in Nat /\ r.at \in Nat /\ Provided[job.kind] \subseteq Record
      /\ Nanosecond(job.request.start) \in Nat
  BY <1>2, JobFields, RequestType DEF Record
<1>8. job.resume <= r.at
  BY <1>1, <1>7 DEF Suppressed
<1>9. ASSUME NEW o \in Provided[job.kind], Asked(o)
      PROVE  /\ ~Suppressed(o)' => o \in job'.left /\ Held(o)' = 0
             /\ Suppressed(o)' /\ Kept(job.request, o) => Held(o)' = 1
  <2>1. o.at \in Nat
    BY <1>7 DEF Record
  <2>2. Held(o)' = Held(o) + (IF o = r /\ Kept(job.request, r) THEN 1 ELSE 0)
    BY TakenIsHeld
  <2>3. Suppressed(o)' <=> o.at < r.at \/ (o.at = r.at /\ o \in job'.seen)
    BY <1>2 DEF Suppressed
  <2>4. CASE ~Suppressed(o)'
    <3>1. o # r /\ ~Suppressed(o)
      BY <1>2, <1>7, <1>8, <2>1, <2>3, <2>4 DEF Suppressed
    <3>2. QED
      BY <1>2, <1>3, <1>9, <2>2, <2>4, <3>1
  <2>5. CASE Suppressed(o)' /\ Kept(job.request, o) /\ o = r
    BY <1>1, <1>3, <1>9, <2>2, <2>5
  <2>6. CASE Suppressed(o)' /\ Kept(job.request, o) /\ o # r
    <3>1. Suppressed(o)
      <4>1. CASE o.at < r.at
        <5>1. o \notin job.left
          BY <1>1, <1>7, <2>1, <4>1 DEF Earliest
        <5>2. QED
          BY <1>3, <1>9, <5>1
      <4>2. CASE ~(o.at < r.at)
        BY <1>2, <1>7, <1>8, <2>1, <2>3, <2>6, <4>2 DEF Suppressed
      <4>3. QED
        BY <4>1, <4>2
    <3>2. Held(o) = 1
      BY <1>3, <1>9, <2>6, <3>1
    <3>3. QED
      BY <2>2, <2>6, <3>2
  <2>7. QED
    BY <2>4, <2>5, <2>6
<1>10. FetchIsExact'
  <2>1. asked = {o \in Provided[job'.kind] : Asked(o)'}
    BY <1>2, <1>4
  <2>2. Nanosecond(job'.request.start) <= job'.resume
    BY <1>2, <1>3, <1>7, <1>8
  <2>3. \A o \in job'.left : Asked(o)'
    BY <1>2, <1>3, <1>4
  <2>. HIDE DEF asked
  <2>4. \A o \in Provided[job'.kind] : Asked(o)' =>
          /\ ~Processed(o)' => o \in job'.left /\ Held(o)' = 0
          /\ Processed(o)' /\ Kept(job'.request, o) => Held(o)' = 1
    BY <1>1, <1>2, <1>4, <1>9 DEF Processed
  <2>5. job'.buffer \in Seq({o \in Provided[job'.kind] : Asked(o)'})
    BY <1>6, <2>1
  <2>6. QED
    BY <1>1, <1>2, <2>2, <2>3, <2>4, <2>5 DEF FetchIsExact
<1>11. /\ \A k \in Kinds \ {job.kind} : rows'[k] = rows[k]
       /\ \A o \in Provided[job.kind] : rows'[job.kind][o] # rows[job.kind][o] => Asked(o)
  <2>. HIDE DEF gathered
  <2>1. CASE full
    BY <1>2, <1>5, <2>1, InsertedIsAsked
  <2>2. CASE ~full
    BY <1>2, <2>2
  <2>3. QED
    BY <2>1, <2>2
<1>12. QED
  BY <1>1, <1>2, <1>10, <1>11, ReadingKeeps

LEMMA IteratorFailsKeeps ==
  ASSUME DownloadsTypeOK, DownloadInv, IteratorFails
  PROVE  DownloadInv'
<1>1. CASE job' = Idle
  BY <1>1, IdleKeeps DEF IteratorFails
<1>2. CASE job' # Idle
  <2>1. /\ job.step = "fetch" /\ job.request.via = "direct" /\ coverage' = coverage /\ rows' = rows
        /\ job' = [job EXCEPT !.failures = @ + 1,
                              !.left = Answer(job.request, job.kind, job.resume)]
    BY <1>2 DEF IteratorFails
  <2>2. /\ job'.step = job.step /\ job'.request = job.request /\ job'.kind = job.kind
        /\ job'.left = Answer(job.request, job.kind, job.resume)
        /\ job'.resume = job.resume /\ job'.seen = job.seen /\ job'.buffer = job.buffer
    BY <2>1 DEF DownloadsTypeOK, Job
  <2>3. \A r : /\ Asked(r)' <=> Asked(r)
               /\ Suppressed(r)' <=> Suppressed(r)
               /\ Held(r)' = Held(r)
    BY <2>1, <2>2 DEF Asked, Suppressed, Held
  <2>4. FetchIsExact
    BY DEF DownloadInv
  <2>5. job.resume \in Nat /\ Provided[job.kind] \subseteq Record
        /\ Nanosecond(job.request.start) \in Nat
    BY JobFields, RequestType
  <2>6. \A r \in Provided[job.kind] : Asked(r) /\ ~Suppressed(r) => r \in job'.left
    BY <2>2, <2>5 DEF Answer, Asked, Suppressed, Record
  <2>7. \A r \in job'.left : Asked(r)
    BY <2>1, <2>2, <2>4, <2>5 DEF Answer, Asked, FetchIsExact, Record
  <2>8. FetchIsExact'
    BY <2>1, <2>2, <2>3, <2>4, <2>6, <2>7 DEF FetchIsExact, Processed
  <2>9. QED
    BY <2>1, <2>2, <2>8, ReadingKeeps
<1>3. QED
  BY <1>1, <1>2

LEMMA NextPageKeeps ==
  ASSUME DownloadsTypeOK, DownloadInv, NEW page \in SUBSET job.left, NextPage(page)
  PROVE  DownloadInv'
<1>1. job.step = "fetch" /\ job.request.via = "gateway" /\ coverage' = coverage
  BY DEF NextPage
<1>2. /\ job'.step = job.step /\ job'.request = job.request /\ job'.kind = job.kind
      /\ job'.left = job.left \ page /\ job'.resume = job.resume /\ job'.buffer = job.buffer
  BY DEF NextPage, DownloadsTypeOK, Job
<1>3. /\ \A k \in Kinds \ {job.kind} : rows'[k] = rows[k]
      /\ \A r \in Provided[job.kind] : rows'[job.kind][r] =
            rows[job.kind][r] + (IF r \in page /\ Kept(job.request, r) THEN 1 ELSE 0)
  BY JobFields DEF NextPage, DownloadsTypeOK
<1>4. /\ Nanosecond(job.request.start) <= job.resume /\ job.buffer = <<>>
      /\ \A r \in job.left : Asked(r)
      /\ job.buffer \in Seq({r \in Provided[job.kind] : Asked(r)})
      /\ \A r \in Provided[job.kind] : Asked(r) =>
           /\ r \in job.left => Held(r) = 0
           /\ r \notin job.left /\ Kept(job.request, r) => Held(r) = 1
  BY <1>1 DEF DownloadInv, FetchIsExact, Processed
<1>5. \A r : Asked(r)' <=> Asked(r)
  BY <1>2 DEF Asked
<1>6. ASSUME NEW r \in Provided[job.kind]
      PROVE  Held(r)' = Held(r) + (IF r \in page /\ Kept(job.request, r) THEN 1 ELSE 0)
  <2>1. rows[job.kind][r] \in Nat
    BY JobFields
  <2>2. Copies(job.buffer, r) \in Nat
    BY <1>1, CopiesInBatch DEF DownloadsTypeOK
  <2>3. QED
    BY <1>2, <1>3, <2>1, <2>2 DEF Held
<1>7. \A r \in Provided[job.kind] : Asked(r) =>
        /\ r \in job'.left => Held(r)' = 0
        /\ r \notin job'.left /\ Kept(job.request, r) => Held(r)' = 1
  BY <1>2, <1>4, <1>6
<1>8. FetchIsExact'
  BY <1>1, <1>2, <1>4, <1>5, <1>7 DEF FetchIsExact, Processed
<1>9. \A r \in Provided[job.kind] : rows'[job.kind][r] # rows[job.kind][r] => Asked(r)
  BY <1>3, <1>4, JobFields
<1>10. QED
  BY <1>1, <1>2, <1>3, <1>8, <1>9, ReadingKeeps

\* At the end of the answer all that was asked for and kept is stored.
LEMMA EndOfAnswerKeeps ==
  ASSUME DownloadsTypeOK, DownloadInv, EndOfAnswer
  PROVE  DownloadInv'
<1>. DEFINE asked == {r \in Provided[job.kind] : Asked(r)}
<1>1. /\ job.step = "fetch" /\ job.left = {} /\ coverage' = coverage
      /\ rows' = Inserted(rows, job.kind, job.buffer) /\ job.request \in Requests
  BY DEF EndOfAnswer, DownloadInv, RequestIsOpen
<1>2. /\ job'.step = "mark" /\ job'.request = job.request /\ job'.kind = job.kind
      /\ job'.claims = Claims(job.request)
  BY DEF EndOfAnswer, DownloadsTypeOK, Job
<1>3. job.buffer \in Seq(Provided[job.kind]) /\ job.buffer \in Seq(asked)
  BY <1>1 DEF DownloadInv, FetchIsExact, DownloadsTypeOK
<1>4. /\ \A k \in Kinds \ {job.kind} : rows'[k] = rows[k]
      /\ \A r \in Provided[job.kind] :
           rows'[job.kind][r] = rows[job.kind][r] + Copies(job.buffer, r)
      /\ \A r \in Provided[job.kind] : rows'[job.kind][r] # rows[job.kind][r] => Asked(r)
  BY <1>1, <1>3, InsertedIsAsked
<1>5. \A r \in Provided[job.kind] : Asked(r) /\ Kept(job.request, r) => rows'[job.kind][r] = 1
  BY <1>1, <1>4 DEF DownloadInv, FetchIsExact, Held
<1>6. ClaimsAreStored'
  BY <1>1, <1>2, <1>5, ClaimedIsAsked, JobFields DEF ClaimsAreStored, Asked
<1>7. Withdrawn(job.kind)
  BY <1>1 DEF DownloadInv, RangeIsWithdrawn
<1>8. \A k \in Kinds : \A r \in Provided[k] :
         rows'[k][r] # rows[k][r] => Within(Microsecond(r), job.request) /\ Withdrawn(k)
  BY <1>4, <1>7, AskedIsWithin, JobFields
<1>9. CoveredIsStoredOnce'
  BY <1>1, <1>8, WithdrawnMayChange DEF DownloadInv
<1>10. RangeIsWithdrawn'
  BY <1>1, <1>2, <1>4
     DEF DownloadInv, RangeIsWithdrawn, Withdrawn, Emptied, Kinds, TickKinds
<1>11. RequestIsOpen' /\ FetchIsExact'
  BY <1>1, <1>2 DEF DownloadInv, RequestIsOpen, FetchIsExact
<1>12. QED
  BY <1>6, <1>9, <1>10, <1>11 DEF DownloadInv

LEMMA UpsertBarsKeeps ==
  ASSUME DownloadsTypeOK, DownloadInv, UpsertBars
  PROVE  DownloadInv'
<1>1. /\ job.step = "upsert" /\ job.request \in Requests /\ job.kind = "minute_bars"
      /\ job.request.via = "bars" /\ coverage' = coverage
  BY DEF UpsertBars, DownloadInv, RequestIsOpen
<1>2. /\ job'.step = "mark" /\ job'.request = job.request /\ job'.kind = job.kind
      /\ job'.claims = Claims(job.request)
  BY DEF UpsertBars, DownloadsTypeOK, Job
<1>3. /\ \A k \in Kinds \ {"minute_bars"} : rows'[k] = rows[k]
      /\ \A r \in Provided["minute_bars"] : rows'["minute_bars"][r] =
           IF Within(Microsecond(r), job.request) THEN 1 ELSE rows["minute_bars"][r]
  BY DEF UpsertBars, DownloadsTypeOK, Kinds
<1>4. ClaimsAreStored'
  <2>1. SUFFICES ASSUME NEW i \in Claims(job.request), NEW r \in Provided["minute_bars"],
                        Nanosecond(i.start) <= r.at, r.at <= Nanosecond(i.end)
                 PROVE  rows'["minute_bars"][r] = 1
    BY <1>1, <1>2 DEF ClaimsAreStored
  <2>2. r \in Record
    BY <1>1, JobFields
  <2>3. Asked(r)
    BY <1>1, <2>1, <2>2, ClaimedIsAsked DEF Asked
  <2>4. QED
    BY <1>3, <2>2, <2>3, AskedIsWithin
<1>5. CoveredIsStoredOnce'
  BY <1>1, <1>3 DEF DownloadInv, CoveredIsStoredOnce
<1>6. RequestIsOpen' /\ RangeIsWithdrawn' /\ FetchIsExact'
  BY <1>1, <1>2 DEF RequestIsOpen, RangeIsWithdrawn, FetchIsExact
<1>7. QED
  BY <1>4, <1>5, <1>6 DEF DownloadInv

LEMMA MarkCoverageKeeps ==
  ASSUME DownloadsTypeOK, DownloadInv, NEW i \in job.claims, MarkCoverage(i)
  PROVE  DownloadInv'
<1>1. job.step = "mark" /\ rows' = rows
  BY DEF MarkCoverage
<1>2. /\ job'.step = "mark" /\ job'.request = job.request /\ job'.kind = job.kind
      /\ job'.claims = job.claims \ {i}
  BY DEF MarkCoverage, DownloadsTypeOK, Job
<1>3. /\ coverage'[job.kind] = coverage[job.kind] \cup {i}
      /\ \A k \in Kinds \ {job.kind} : coverage'[k] = coverage[k]
  BY JobFields DEF MarkCoverage, DownloadsTypeOK
<1>4. CoveredIsStoredOnce'
  BY <1>1, <1>3 DEF DownloadInv, CoveredIsStoredOnce, ClaimsAreStored
<1>5. ClaimsAreStored'
  BY <1>1, <1>2 DEF DownloadInv, ClaimsAreStored
<1>6. RangeIsWithdrawn'
  BY <1>1, <1>2, <1>3 DEF DownloadInv, RangeIsWithdrawn, Withdrawn, Emptied, Kinds, TickKinds
<1>7. RequestIsOpen' /\ FetchIsExact'
  BY <1>1, <1>2 DEF DownloadInv, RequestIsOpen, FetchIsExact
<1>8. QED
  BY <1>4, <1>5, <1>6, <1>7 DEF DownloadInv

LEMMA NextKindKeeps ==
  ASSUME DownloadsTypeOK, DownloadInv, NextKind
  PROVE  DownloadInv'
<1>1. job.step = "mark" /\ coverage' = coverage /\ rows' = rows /\ job.request \in Requests
  BY DEF NextKind, DownloadInv, RequestIsOpen
<1>2. CASE job.kind # "trades"
  BY <1>1, <1>2, IdleKeeps DEF NextKind
<1>3. CASE job.kind = "trades"
  <2>1. /\ job' = Fetching(job.request, "quotes") /\ job'.step = "fetch"
        /\ job'.request = job.request /\ job'.kind = "quotes"
    BY <1>3 DEF NextKind, Fetching
  <2>2. Withdrawn("quotes") /\ Emptied("quotes")
    BY <1>1, <1>3 DEF DownloadInv, RangeIsWithdrawn
  <2>3. FetchIsExact'
    BY <1>1, <2>1, <2>2, FetchingIsExact DEF Emptied, Kinds, TickKinds
  <2>4. RangeIsWithdrawn'
    BY <1>1, <2>1, <2>2 DEF RangeIsWithdrawn, Withdrawn
  <2>5. RequestIsOpen' /\ ClaimsAreStored' /\ CoveredIsStoredOnce'
    BY <1>1, <1>3, <2>1
       DEF DownloadInv, RequestIsOpen, ClaimsAreStored, CoveredIsStoredOnce
  <2>6. QED
    BY <2>3, <2>4, <2>5 DEF DownloadInv
<1>4. QED
  BY <1>2, <1>3

-----------------------------------------------------------------------------

LEMMA DownloadInvInit == DownloadsInit => DownloadInv
BY DEF DownloadsInit, DownloadInv, RequestIsOpen, RangeIsWithdrawn, FetchIsExact,
       ClaimsAreStored, CoveredIsStoredOnce, Idle

LEMMA DownloadInvStep ==
  ASSUME DownloadsTypeOK, DownloadInv, [DownloadsNext]_vars
  PROVE  DownloadInv'
<1>1. CASE UNCHANGED vars
  BY <1>1 DEF vars, DownloadInv, RequestIsOpen, RangeIsWithdrawn, Withdrawn, Emptied,
              FetchIsExact, Asked, Processed, Suppressed, Held, ClaimsAreStored,
              CoveredIsStoredOnce
<1>2. CASE Abandon
  BY <1>2, IdleKeeps DEF Abandon
<1>3. CASE \E q \in Requests : Begin(q)
  BY <1>3, BeginKeeps
<1>4. CASE JobStep
  BY <1>4, InvalidateKeeps, DeleteRangeKeeps, SkipRecordKeeps, TakeRecordKeeps,
     IteratorFailsKeeps, NextPageKeeps, EndOfAnswerKeeps, UpsertBarsKeeps,
     MarkCoverageKeeps, NextKindKeeps DEF JobStep
<1>5. QED
  BY <1>1, <1>2, <1>3, <1>4 DEF DownloadsNext

\* Coverage is the truth at every moment: whatever downloads fail, are resumed,
\* abandoned or overlap, each record of the provider up to the end of a covered
\* interval is stored, exactly once.
THEOREM CoverageIsTrue == DownloadsSpec => []CoveredIsStoredOnce
<1>1. DownloadsInit => DownloadsTypeOK /\ DownloadInv
  BY TypeInit, DownloadInvInit
<1>2. DownloadsTypeOK /\ DownloadInv /\ [DownloadsNext]_vars => (DownloadsTypeOK /\ DownloadInv)'
  BY TypeStep, DownloadInvStep
<1>3. DownloadInv => CoveredIsStoredOnce
  BY DEF DownloadInv
<1>4. QED
  BY <1>1, <1>2, <1>3, PTL DEF DownloadsSpec

-----------------------------------------------------------------------------
(* What is outside the range.                                                *)

\* Whatever is about to be claimed lies in the range of the request.
ClaimsAreWithin ==
  job.step = "mark" =>
    \A i \in job.claims : job.request.start <= i.start /\ i.end <= job.request.end

LEMMA ClaimedIsWithin ==
  ASSUME NEW q \in Requests, NEW i \in Claims(q)
  PROVE  q.start <= i.start /\ i.end <= q.end
<1>1. q.start \in Nat \ {0} /\ q.end \in Nat
  BY RequestType
<1>2. CASE ~q.rth
  BY <1>1, <1>2 DEF Claims
<1>3. CASE q.rth
  <2>1. PICK d \in Trading :
          LET c == Clipped([start |-> d.open, end |-> d.close], q.start, q.end)
          IN c.start < c.end /\ i = [start |-> c.start, end |-> c.end - 1]
    BY <1>3 DEF Claims, SessionIntervals
  <2>2. d.open \in Nat /\ d.close \in Nat
    BY DownloadsAssumption
  <2>3. QED
    BY <1>1, <2>1, <2>2 DEF Clipped
<1>4. QED
  BY <1>2, <1>3

LEMMA ClaimsAreWithinStep ==
  ASSUME DownloadsTypeOK, DownloadInv, ClaimsAreWithin, [DownloadsNext]_vars
  PROVE  ClaimsAreWithin'
<1>. job \in Job
  BY DEF DownloadsTypeOK
<1>1. ASSUME EndOfAnswer \/ UpsertBars
      PROVE  ClaimsAreWithin'
  <2>1. job.request \in Requests
    BY <1>1 DEF EndOfAnswer, UpsertBars, DownloadInv, RequestIsOpen
  <2>2. job'.request = job.request /\ job'.claims = Claims(job.request)
    BY <1>1 DEF EndOfAnswer, UpsertBars, Job
  <2>3. QED
    BY <2>1, <2>2, ClaimedIsWithin DEF ClaimsAreWithin
<1>2. ASSUME NEW i \in job.claims, MarkCoverage(i)
      PROVE  ClaimsAreWithin'
  <2>1. job.step = "mark" /\ job'.request = job.request /\ job'.claims = job.claims \ {i}
    BY <1>2 DEF MarkCoverage, Job
  <2>2. QED
    BY <2>1 DEF ClaimsAreWithin
<1>3. CASE UNCHANGED vars
  BY <1>3 DEF vars, ClaimsAreWithin
<1>4. CASE Abandon \/ \E q \in Requests : Begin(q)
  <2>1. CASE Abandon
    BY <2>1 DEF Abandon, Idle, ClaimsAreWithin
  <2>2. ASSUME NEW q \in Requests, Begin(q) PROVE job'.step # "mark"
    <3>1. job'.step = IF q.via = "bars" THEN "upsert" ELSE "invalidate"
      BY <2>2 DEF Begin, Idle
    <3>2. QED
      BY <3>1
  <2>3. QED
    BY <1>4, <2>1, <2>2 DEF ClaimsAreWithin
<1>5. CASE Invalidate \/ DeleteRange \/ NextKind
  <2>1. job'.step # "mark"
    BY <1>5 DEF Invalidate, DeleteRange, NextKind, Fetching, Idle, Job
  <2>2. QED
    BY <2>1 DEF ClaimsAreWithin
<1>6. CASE \/ \E r \in job.left : SkipRecord(r) \/ TakeRecord(r)
           \/ IteratorFails \/ \E page \in SUBSET job.left : NextPage(page)
  <2>1. ASSUME NEW r \in job.left, SkipRecord(r) PROVE job'.step = "fetch"
    BY <2>1 DEF SkipRecord, Job
  <2>2. ASSUME NEW r \in job.left, TakeRecord(r) PROVE job'.step = "fetch"
    BY <2>2, TakenRecord
  <2>3. ASSUME IteratorFails PROVE job'.step # "mark"
    BY <2>3 DEF IteratorFails, Idle, Job
  <2>4. ASSUME NEW page \in SUBSET job.left, NextPage(page) PROVE job'.step = "fetch"
    BY <2>4 DEF NextPage, Job
  <2>5. job'.step # "mark"
    BY <1>6, <2>1, <2>2, <2>3, <2>4
  <2>6. QED
    BY <2>5 DEF ClaimsAreWithin
<1>7. QED
  BY <1>1, <1>2, <1>3, <1>4, <1>5, <1>6 DEF DownloadsNext, JobStep

\* Only rows of the range change.
LEMMA RowsOutsideStep ==
  ASSUME DownloadsTypeOK, DownloadInv, [DownloadsNext]_vars,
         NEW k \in Kinds, NEW r \in Provided[k], rows'[k][r] # rows[k][r]
  PROVE  job.step # "idle" /\ Within(Microsecond(r), job.request)
<1>1. r \in Record
  BY AnswerType
<1>2. CASE DeleteRange
  BY <1>2 DEF DeleteRange
<1>3. CASE UpsertBars
  BY <1>3 DEF UpsertBars, DownloadsTypeOK
<1>4. CASE EndOfAnswer
  <2>1. job.step = "fetch" /\ rows' = Inserted(rows, job.kind, job.buffer)
        /\ job.buffer \in Seq({o \in Provided[job.kind] : Asked(o)})
    BY <1>4 DEF EndOfAnswer, DownloadInv, FetchIsExact
  <2>2. k = job.kind /\ Asked(r)
    BY <2>1, InsertedIsAsked
  <2>3. QED
    BY <1>1, <2>1, <2>2, AskedIsWithin
<1>5. ASSUME NEW o \in job.left, TakeRecord(o)
      PROVE  job.step # "idle" /\ Within(Microsecond(r), job.request)
  <2>. DEFINE gathered == IF Kept(job.request, o) THEN Append(job.buffer, o) ELSE job.buffer
  <2>1. job.step = "fetch" /\ rows' = Inserted(rows, job.kind, gathered)
    BY <1>5 DEF TakeRecord
  <2>2. gathered \in Seq({a \in Provided[job.kind] : Asked(a)})
    BY <1>5, GatheredIsAsked
  <2>. HIDE DEF gathered
  <2>3. k = job.kind /\ Asked(r)
    BY <2>1, <2>2, InsertedIsAsked
  <2>4. QED
    BY <1>1, <2>1, <2>3, AskedIsWithin
<1>6. ASSUME NEW page \in SUBSET job.left, NextPage(page)
      PROVE  job.step # "idle" /\ Within(Microsecond(r), job.request)
  <2>1. job.step = "fetch" /\ \A o \in job.left : Asked(o)
    BY <1>6 DEF NextPage, DownloadInv, FetchIsExact
  <2>2. k = job.kind /\ rows'[k][r] = rows[k][r] + (IF r \in page /\ Kept(job.request, r) THEN 1 ELSE 0)
    BY <1>6, JobFields DEF NextPage, DownloadsTypeOK
  <2>3. rows[k][r] \in Nat
    BY DEF DownloadsTypeOK
  <2>4. r \in page
    BY <2>2, <2>3
  <2>5. QED
    BY <1>1, <2>1, <2>4, AskedIsWithin
<1>7. QED
  BY <1>2, <1>3, <1>4, <1>5, <1>6
     DEF DownloadsNext, JobStep, vars, Abandon, Begin, Invalidate, SkipRecord, IteratorFails,
         MarkCoverage, NextKind

\* What InvalidateCoverage leaves on the sides of a range is what was there.
LEMMA InvalidatedSides ==
  ASSUME NEW claims \in SUBSET Interval, NEW start \in Nat \ {0}, NEW end \in Nat,
         start <= end, NEW us \in Nat, ~(start <= us /\ us <= end)
  PROVE  (\E i \in Invalidated(claims, start, end) : Within(us, i)) <=> (\E i \in claims : Within(us, i))
<1>1. ASSUME NEW i \in Invalidated(claims, start, end), Within(us, i)
      PROVE  \E j \in claims : Within(us, j)
  BY <1>1 DEF Invalidated, Overlapping, Interval, Within
<1>2. ASSUME NEW i \in claims, Within(us, i)
      PROVE  \E j \in Invalidated(claims, start, end) : Within(us, j)
  <2>. DEFINE touched == Overlapping(claims, start, end)
  <2>1. i.start \in Nat /\ i.end \in Nat
    BY DEF Interval
  <2>2. CASE i \notin touched
    BY <1>2, <2>2 DEF Invalidated
  <2>3. CASE i \in touched /\ us < start
    <3>1. [start |-> i.start, end |-> start - 1] \in Invalidated(claims, start, end)
      BY <1>2, <2>1, <2>3 DEF Invalidated, Within
    <3>2. Within(us, [start |-> i.start, end |-> start - 1])
      BY <1>2, <2>1, <2>3 DEF Within
    <3>3. QED
      BY <3>1, <3>2
  <2>4. CASE i \in touched /\ us > end
    <3>1. [start |-> end + 1, end |-> i.end] \in Invalidated(claims, start, end)
      BY <1>2, <2>1, <2>4 DEF Invalidated, Within
    <3>2. Within(us, [start |-> end + 1, end |-> i.end])
      BY <1>2, <2>1, <2>4 DEF Within
    <3>3. QED
      BY <3>1, <3>2
  <2>5. QED
    BY <2>2, <2>3, <2>4
<1>3. QED
  BY <1>1, <1>2

\* Only the coverage of the range and of the kind under way changes.
LEMMA CoverageOutsideStep ==
  ASSUME DownloadsTypeOK, DownloadInv, ClaimsAreWithin, [DownloadsNext]_vars,
         NEW k \in Kinds, NEW us \in Nat,
         (\E i \in coverage'[k] : Within(us, i)) # (\E i \in coverage[k] : Within(us, i))
  PROVE  job.step # "idle" /\ k = job.kind /\ Within(us, job.request)
<1>1. coverage'[k] # coverage[k]
  OBVIOUS
<1>2. CASE Invalidate
  <2>1. job.step = "invalidate" /\ job.request \in Requests
    BY <1>2 DEF Invalidate, DownloadInv, RequestIsOpen
  <2>2. /\ job.request.start \in Nat \ {0} /\ job.request.end \in Nat
        /\ job.request.start <= job.request.end
    BY <2>1, RequestType, DownloadsAssumption
  <2>3. k = job.kind /\ coverage'[k] = Invalidated(coverage[k], job.request.start, job.request.end)
    BY <1>1, <1>2, JobFields DEF Invalidate, DownloadsTypeOK
  <2>4. coverage[k] \in SUBSET Interval
    BY DEF DownloadsTypeOK
  <2>5. job.request.start <= us /\ us <= job.request.end
    BY <2>2, <2>3, <2>4, InvalidatedSides
  <2>6. QED
    BY <2>1, <2>3, <2>5 DEF Within
<1>3. ASSUME NEW i \in job.claims, MarkCoverage(i)
      PROVE  job.step # "idle" /\ k = job.kind /\ Within(us, job.request)
  <2>1. job.step = "mark" /\ k = job.kind /\ coverage'[k] = coverage[k] \cup {i}
    BY <1>1, <1>3, JobFields DEF MarkCoverage, DownloadsTypeOK
  <2>2. Within(us, i)
    BY <2>1
  <2>3. job.request.start <= i.start /\ i.end <= job.request.end
    BY <2>1 DEF ClaimsAreWithin
  <2>4. job.request.start \in Nat /\ job.request.end \in Nat /\ i.start \in Nat /\ i.end \in Nat
    BY JobFields, RequestType DEF Interval
  <2>5. QED
    BY <2>1, <2>2, <2>3, <2>4 DEF Within
<1>4. QED
  BY <1>1, <1>2, <1>3
     DEF DownloadsNext, JobStep, vars, Abandon, Begin, DeleteRange, SkipRecord, TakeRecord,
         IteratorFails, NextPage, EndOfAnswer, UpsertBars, NextKind

\* A download changes nothing outside its range, whatever becomes of it: neither the
\* rows and the coverage on its sides nor, of the coverage, another kind.
THEOREM NothingOutsideChanges == DownloadsSpec => OutsideKept
<1>. DEFINE Safe == DownloadsTypeOK /\ DownloadInv /\ ClaimsAreWithin
            Inside ==
              /\ \A k \in Kinds : \A r \in Provided[k] :
                   rows'[k][r] # rows[k][r] => job.step # "idle" /\ Within(Microsecond(r), job.request)
              /\ \A k \in Kinds : \A us \in Instants :
                   (\E i \in coverage'[k] : Within(us, i)) # (\E i \in coverage[k] : Within(us, i))
                     => job.step # "idle" /\ k = job.kind /\ Within(us, job.request)
<1>1. DownloadsInit => Safe
  BY TypeInit, DownloadInvInit DEF DownloadsInit, Idle, ClaimsAreWithin
<1>2. Safe /\ [DownloadsNext]_vars => Safe'
  BY TypeStep, DownloadInvStep, ClaimsAreWithinStep
<1>3. Safe /\ [DownloadsNext]_vars => [Inside]_vars
  <2>1. Instants \subseteq Nat
    BY RequestType DEF Instants
  <2>2. QED
    BY <2>1, RowsOutsideStep, CoverageOutsideStep
<1>4. OutsideKept <=> [][Inside]_vars
  BY DEF OutsideKept
<1>. HIDE DEF Safe, Inside
<1>5. QED
  BY <1>1, <1>2, <1>3, <1>4, PTL DEF DownloadsSpec

-----------------------------------------------------------------------------
(* What CoverageIntervals makes of the claims. *)

\* Claims that the table may have: finitely many, and none is empty.
Sound(claims) == /\ claims \in SUBSET Interval /\ IsFiniteSet(claims)
                 /\ \A i \in claims : i.start <= i.end

\* The query answers every claim in the range, ordered by its start.
LEMMA ClaimsInOrder ==
  ASSUME NEW touched, touched \in SUBSET Interval, IsFiniteSet(touched)
  PROVE  LET before == {p \in touched \X touched :
                          \/ p[1].start < p[2].start
                          \/ p[1].start = p[2].start /\ p[1].end < p[2].end}
             f == InOrder(touched, before)
         IN /\ Len(f) \in Nat /\ DOMAIN f = 1 .. Len(f)
            /\ \A n \in 1 .. Len(f) : f[n] \in touched
            /\ \A m, n \in 1 .. Len(f) : m < n => f[m].start <= f[n].start
            /\ \A i \in touched : \E n \in 1 .. Len(f) : f[n] = i
<1> DEFINE before == {p \in touched \X touched :
                        \/ p[1].start < p[2].start
                        \/ p[1].start = p[2].start /\ p[1].end < p[2].end}
           f == InOrder(touched, before)
           N == Cardinality(touched)
<1>1. \A i \in touched : i.start \in Nat /\ i.end \in Nat
  BY DEF Interval
<1>2. \A i, j \in touched : i # j => i.start # j.start \/ i.end # j.end
  BY DEF Interval
<1>3. \A i, j \in touched : <<i, j>> \in before <=>
                              \/ i.start < j.start
                              \/ i.start = j.start /\ i.end < j.end
  OBVIOUS
<1> HIDE DEF before
<1>4. StrictOrder(touched, before)
  BY <1>1, <1>2, <1>3 DEF StrictOrder
<1>5. /\ N \in Nat /\ f \in [1 .. N -> touched]
      /\ \A m, n \in 1 .. N : m < n => <<f[m], f[n]>> \in before
      /\ \A i \in touched : \E n \in 1 .. N : f[n] = i
  BY <1>4, InOrderIsOrdered
<1> HIDE DEF f, N
<1>6. f \in Seq(touched) /\ Len(f) = N /\ DOMAIN f = 1 .. N
  BY <1>5
<1>7. \A m, n \in 1 .. N : m < n => f[m].start <= f[n].start
  <2> SUFFICES ASSUME NEW m \in 1 .. N, NEW n \in 1 .. N, m < n PROVE f[m].start <= f[n].start
    OBVIOUS
  <2>1. f[m] \in touched /\ f[n] \in touched /\ <<f[m], f[n]>> \in before
    BY <1>5
  <2> QED
    BY <2>1, <1>1, <1>3
<1> QED
  BY <1>5, <1>6, <1>7 DEF f, before

\* A time is in one of the first n intervals of a list.
InFirst(us, list, n) == \E m \in 1 .. n : Within(us, list[m])

\* Rows in the order of the query, clipped to the range.
Answers(list, start, end) ==
  /\ list \in Seq(Interval)
  /\ \A n \in 1 .. Len(list) : /\ start <= list[n].start /\ list[n].start <= list[n].end
                               /\ list[n].end <= end
  /\ \A m, n \in 1 .. Len(list) : m < n => list[m].start <= list[n].start

\* Merging n of them gives maximal intervals, the last of which may still grow.
MergedTo(merged, list, n, start, end) ==
  /\ merged \in Seq(Interval) /\ Maximal(merged)
  /\ \A m \in 1 .. Len(merged) : start <= merged[m].start /\ merged[m].end <= end
  /\ merged = <<>> <=> n = 0
  /\ n > 0 => merged[Len(merged)].start <= list[n].start
  /\ \A us \in Nat : InFirst(us, merged, Len(merged)) <=> InFirst(us, list, n)

\* The times of a list that has grown by one.
LEMMA InOneMore ==
  ASSUME NEW list, NEW n \in Nat \ {0}, NEW us
  PROVE  InFirst(us, list, n) <=> InFirst(us, list, n - 1) \/ Within(us, list[n])
<1>1. 1 .. n = (1 .. n - 1) \cup {n}
  OBVIOUS
<1> QED
  BY <1>1 DEF InFirst

\* One row more.
LEMMA MergedKeeps ==
  ASSUME NEW list, NEW start \in Nat \ {0}, NEW end \in Nat, Answers(list, start, end),
         NEW n \in 1 .. Len(list), NEW merged, MergedTo(merged, list, n - 1, start, end)
  PROVE  MergedTo(Merged(merged, list[n]), list, n, start, end)
<1> DEFINE i == list[n]
           L == Len(merged)
           next == Merged(merged, i)
<1>1. /\ n \in Nat \ {0} /\ i \in Interval /\ i.start \in Nat \ {0} /\ i.end \in Nat
      /\ start <= i.start /\ i.start <= i.end /\ i.end <= end
  <2>1. i \in Interval /\ n \in Nat \ {0}
    BY DEF Answers
  <2> QED
    BY <2>1 DEF Answers, Interval
<1>2. /\ merged \in Seq(Interval) /\ L \in Nat /\ DOMAIN merged = 1 .. L
      /\ \A m \in 1 .. L : /\ merged[m] \in Interval
                           /\ merged[m].start \in Nat \ {0} /\ merged[m].end \in Nat
                           /\ start <= merged[m].start /\ merged[m].end <= end
                           /\ merged[m].start <= merged[m].end
                           /\ m > 1 => merged[m - 1].end + 1 < merged[m].start
  <2>1. /\ merged \in Seq(Interval) /\ L \in Nat /\ DOMAIN merged = 1 .. L
        /\ \A m \in 1 .. L : merged[m] \in Interval
    BY DEF MergedTo
  <2>2. \A j \in Interval : j.start \in Nat \ {0} /\ j.end \in Nat
    BY DEF Interval
  <2>3. \A m \in 1 .. L : /\ start <= merged[m].start /\ merged[m].end <= end
                          /\ merged[m].start <= merged[m].end
                          /\ m > 1 => merged[m - 1].end + 1 < merged[m].start
    <3>1. Maximal(merged)
      BY DEF MergedTo
    <3>2. \A m \in 1 .. L : start <= merged[m].start /\ merged[m].end <= end
      BY DEF MergedTo
    <3> HIDE DEF L
    <3>3. \A m \in 1 .. L : /\ merged[m].start <= merged[m].end
                            /\ m > 1 => merged[m - 1].end + 1 < merged[m].start
      <4>1. DOMAIN merged = 1 .. L
        BY <2>1
      <4> QED
        BY <3>1, <4>1 DEF Maximal
    <3> QED
      BY <3>2, <3>3
  <2> QED
    BY <2>1, <2>2, <2>3
<1>3. \A us \in Nat : InFirst(us, merged, L) <=> InFirst(us, list, n - 1)
  BY DEF MergedTo
<1>4. L # 0 => n - 1 > 0 /\ merged[L].start <= i.start
  <2> SUFFICES ASSUME L # 0 PROVE n - 1 > 0 /\ merged[L].start <= i.start
    OBVIOUS
  <2>1. merged # <<>>
    BY <1>2
  <2>2. n - 1 # 0 /\ n - 1 \in 1 .. Len(list)
    BY <2>1, <1>1 DEF MergedTo, Answers
  <2>3. merged[L].start <= list[n - 1].start
    BY <2>2 DEF MergedTo
  <2>4. list[n - 1].start <= i.start
    BY <2>2, <1>1 DEF Answers
  <2>5. list[n - 1].start \in Nat
    <3>1. list[n - 1] \in Interval
      BY <2>2 DEF Answers
    <3> QED
      BY <3>1 DEF Interval
  <2>6. L \in 1 .. L
    BY <1>2
  <2> QED
    BY <2>2, <2>3, <2>4, <2>5, <2>6, <1>1, <1>2, SMTT(30)
<1> HIDE DEF L
<1>5. L = 0 <=> merged = <<>>
  BY <1>2 DEF L
<1>6. L # 0 => Last(merged) = merged[L]
  BY DEF Last, L
<1>7. CASE L = 0 \/ i.start > merged[L].end + 1
  <2>1. next = Append(merged, i)
    BY <1>5, <1>6, <1>7 DEF Merged
  <2>2. /\ next \in Seq(Interval) /\ Len(next) = L + 1 /\ next[L + 1] = i
        /\ \A m \in 1 .. L : next[m] = merged[m]
    BY <2>1, <1>1, <1>2 DEF L
  <2> HIDE DEF next, i
  <2>3. Maximal(next)
    <3> SUFFICES ASSUME NEW m \in 1 .. L + 1
                 PROVE  /\ next[m].start <= next[m].end
                        /\ m > 1 => next[m - 1].end + 1 < next[m].start
      BY <2>2 DEF Maximal
    <3>1. CASE m \in 1 .. L
      <4>1. m > 1 => m - 1 \in 1 .. L
        BY <3>1, <1>2
      <4> QED
        BY <3>1, <4>1, <2>2, <1>2
    <3>2. CASE m = L + 1
      <4>1. m > 1 => L \in 1 .. L /\ m - 1 = L /\ L # 0
        BY <3>2, <1>2
      <4> QED
        BY <3>2, <4>1, <2>2, <1>1, <1>2, <1>7
    <3> QED
      BY <3>1, <3>2, <1>2
  <2>4. \A m \in 1 .. L + 1 : start <= next[m].start /\ next[m].end <= end
    <3> SUFFICES ASSUME NEW m \in 1 .. L + 1 PROVE start <= next[m].start /\ next[m].end <= end
      OBVIOUS
    <3>1. m \in 1 .. L \/ m = L + 1
      BY <1>2
    <3> QED
      BY <3>1, <2>2, <1>1, <1>2
  <2>5. ASSUME NEW us \in Nat PROVE InFirst(us, next, L + 1) <=> InFirst(us, list, n)
    <3>1. InFirst(us, next, L + 1) <=> InFirst(us, next, L) \/ Within(us, next[L + 1])
      <4> DEFINE K == L + 1
      <4>1. K \in Nat \ {0} /\ K - 1 = L
        BY <1>2
      <4> HIDE DEF K
      <4>2. InFirst(us, next, K) <=> InFirst(us, next, K - 1) \/ Within(us, next[K])
        BY <4>1, InOneMore
      <4> QED
        BY <4>1, <4>2 DEF K
    <3>2. InFirst(us, next, L) <=> InFirst(us, merged, L)
      BY <2>2 DEF InFirst
    <3> QED
      BY <3>1, <3>2, <2>2, <1>1, <1>3, InOneMore DEF i
  <2>6. next # <<>> /\ next[Len(next)].start <= list[n].start /\ n > 0
    BY <2>2, <1>1, <1>2 DEF i
  <2> QED
    BY <2>2, <2>3, <2>4, <2>5, <2>6 DEF MergedTo, next, i
<1>8. CASE L # 0 /\ i.start <= merged[L].end + 1
  <2> DEFINE wide == IF i.end > merged[L].end THEN i.end ELSE merged[L].end
             grown == [start |-> merged[L].start, end |-> wide]
  <2>0. L \in 1 .. L /\ L \in Nat \ {0}
    BY <1>2, <1>8
  <2>1. /\ next \in Seq(Interval) /\ Len(next) = L /\ next[L] = grown
        /\ \A m \in 1 .. L - 1 : next[m] = merged[m]
    <3>1. ~(merged = <<>> \/ i.start > Last(merged).end + 1)
      BY <1>1, <1>2, <1>5, <1>6, <1>8, <2>0
    <3>2. CASE i.end > merged[L].end
      <4>1. next = [merged EXCEPT ![Len(merged)].end = i.end]
        BY <3>1, <3>2, <1>6, <1>8 DEF Merged
      <4>2. [merged[L] EXCEPT !.end = i.end] = grown /\ grown \in Interval
        <5>1. merged[L] \in Interval
          BY <2>0, <1>2
        <5> QED
          BY <5>1, <3>2, <1>1 DEF Interval
      <4>3. next = [merged EXCEPT ![L] = grown]
        BY <4>1, <4>2 DEF L
      <4> HIDE DEF next, grown
      <4> QED
        BY <4>2, <4>3, <1>2, <2>0 DEF L
    <3>3. CASE ~(i.end > merged[L].end)
      <4>1. next = merged
        BY <3>1, <3>3, <1>6, <1>8 DEF Merged
      <4>2. merged[L] = grown
        <5>1. merged[L] \in Interval
          BY <2>0, <1>2
        <5> QED
          BY <5>1, <3>3 DEF Interval
      <4> HIDE DEF next, grown
      <4> QED
        BY <4>1, <4>2, <1>2, <2>0 DEF L
    <3> QED
      BY <3>2, <3>3
  <2>2. /\ wide \in Nat /\ wide <= end /\ merged[L].start <= wide /\ merged[L].end <= wide
        /\ i.end <= wide
        /\ grown.start = merged[L].start /\ grown.end = wide
    BY <2>0, <1>1, <1>2
  <2>3. ASSUME NEW us \in Nat
        PROVE  Within(us, grown) <=> Within(us, merged[L]) \/ Within(us, i)
    <3>1. merged[L].start \in Nat /\ merged[L].end \in Nat /\ merged[L].start <= i.start
      BY <2>0, <1>2, <1>4
    <3> QED
      BY <3>1, <1>1, <1>8, SMTT(30) DEF Within
  <2> HIDE DEF next, i, wide, grown
  <2>4. Maximal(next)
    <3> SUFFICES ASSUME NEW m \in 1 .. L
                 PROVE  /\ next[m].start <= next[m].end
                        /\ m > 1 => next[m - 1].end + 1 < next[m].start
      BY <2>1 DEF Maximal
    <3>1. next[m].start = merged[m].start /\ next[m].start <= next[m].end
      <4>1. m \in 1 .. L - 1 \/ m = L
        BY <2>0
      <4> QED
        BY <4>1, <2>1, <2>2, <1>2
    <3>2. m > 1 => m - 1 \in 1 .. L - 1 /\ next[m - 1] = merged[m - 1]
      BY <2>0, <2>1
    <3> QED
      BY <3>1, <3>2, <1>2
  <2>5. \A m \in 1 .. L : start <= next[m].start /\ next[m].end <= end
    <3> SUFFICES ASSUME NEW m \in 1 .. L PROVE start <= next[m].start /\ next[m].end <= end
      OBVIOUS
    <3>1. m \in 1 .. L - 1 \/ m = L
      BY <2>0
    <3> QED
      BY <3>1, <2>1, <2>2, <1>2
  <2>6. ASSUME NEW us \in Nat PROVE InFirst(us, next, L) <=> InFirst(us, list, n)
    <3>1. InFirst(us, next, L) <=> InFirst(us, next, L - 1) \/ Within(us, grown)
      BY <2>0, <2>1, InOneMore
    <3>2. InFirst(us, next, L - 1) <=> InFirst(us, merged, L - 1)
      BY <2>1 DEF InFirst
    <3>3. InFirst(us, merged, L) <=> InFirst(us, merged, L - 1) \/ Within(us, merged[L])
      BY <2>0, InOneMore
    <3>4. InFirst(us, list, n) <=> InFirst(us, list, n - 1) \/ Within(us, i)
      BY <1>1, InOneMore DEF i
    <3> QED
      BY <3>1, <3>2, <3>3, <3>4, <2>3, <1>3
  <2>7. next # <<>> /\ next[Len(next)].start <= list[n].start /\ n > 0
    BY <2>0, <2>1, <2>2, <1>1, <1>4 DEF i
  <2> QED
    BY <2>1, <2>4, <2>5, <2>6, <2>7 DEF MergedTo, next, i
<1> QED
  <2>1. L = 0 \/ (L \in 1 .. L /\ merged[L].end \in Nat)
    BY <1>2
  <2> QED
    BY <2>1, <1>1, <1>7, <1>8

\* CoverageIntervals answers what the claims cover of the range, in maximal intervals.
LEMMA CoveredInIsExact ==
  ASSUME NEW claims, Sound(claims), NEW start \in Nat \ {0}, NEW end \in Nat, start <= end
  PROVE  LET covered == CoveredIn(claims, start, end)
         IN /\ covered \in Seq(Interval) /\ Maximal(covered)
            /\ \A m \in 1 .. Len(covered) : start <= covered[m].start /\ covered[m].end <= end
            /\ \A us \in Nat : InFirst(us, covered, Len(covered))
                                 <=> us \in start .. end /\ \E i \in claims : Within(us, i)
<1> DEFINE touched == Overlapping(claims, start, end)
           before == {p \in touched \X touched :
                        \/ p[1].start < p[2].start
                        \/ p[1].start = p[2].start /\ p[1].end < p[2].end}
           ordered == InOrder(touched, before)
           N == Len(ordered)
           S == Seq(Interval)
           list == [n \in 1 .. N |-> Clipped(ordered[n], start, end)]
           step == [ns \in (1 .. N) \X S |-> Merged(ns[2], Clipped(ordered[ns[1]], start, end))]
           Loop(f) == [n \in 0 .. N |-> IF n = 0 THEN <<>>
                                        ELSE Merged(f[n - 1], Clipped(ordered[n], start, end))]
           upto == CHOOSE f : f = Loop(f)
<1>1. touched \in SUBSET Interval /\ IsFiniteSet(touched)
  <2>1. touched \in SUBSET claims
    BY DEF Overlapping
  <2> HIDE DEF touched
  <2> QED
    BY <2>1, FS_Subset DEF Sound
<1>2. \A i \in touched : /\ i.start \in Nat \ {0} /\ i.end \in Nat /\ i.start <= i.end
                         /\ i.end >= start /\ i.start <= end
  BY DEF Overlapping, Sound, Interval
<1>3. /\ N \in Nat /\ DOMAIN ordered = 1 .. N
      /\ \A n \in 1 .. N : ordered[n] \in touched
      /\ \A m, n \in 1 .. N : m < n => ordered[m].start <= ordered[n].start
      /\ \A i \in touched : \E n \in 1 .. N : ordered[n] = i
  <2> HIDE DEF touched
  <2> QED
    BY <1>1, ClaimsInOrder
<1>4. ASSUME NEW i \in touched
      PROVE  LET c == Clipped(i, start, end)
             IN /\ c \in Interval /\ start <= c.start /\ c.start <= c.end /\ c.end <= end
                /\ c.start = IF i.start < start THEN start ELSE i.start
                /\ \A us \in Nat : Within(us, c) <=> us \in start .. end /\ Within(us, i)
  <2> HIDE DEF touched
  <2> QED
    BY <1>2 DEF Clipped, Interval, Within
<1>5. CoveredIn(claims, start, end) = upto[N]
  BY DEF CoveredIn, upto
<1> HIDE DEF touched, ordered, N, before
<1>6. list \in Seq(Interval) /\ Len(list) = N
      /\ \A n \in 1 .. N : list[n] = Clipped(ordered[n], start, end)
  BY <1>3, <1>4
<1>7. Answers(list, start, end)
  <2> HIDE DEF list
  <2>1. \A n \in 1 .. N : /\ start <= list[n].start /\ list[n].start <= list[n].end
                          /\ list[n].end <= end
    BY <1>3, <1>4, <1>6
  <2>2. ASSUME NEW m \in 1 .. N, NEW n \in 1 .. N, m < n PROVE list[m].start <= list[n].start
    <3>1. ordered[m] \in touched /\ ordered[n] \in touched /\ ordered[m].start <= ordered[n].start
      BY <2>2, <1>3
    <3>2. /\ list[m].start = IF ordered[m].start < start THEN start ELSE ordered[m].start
          /\ list[n].start = IF ordered[n].start < start THEN start ELSE ordered[n].start
      BY <3>1, <1>4, <1>6
    <3> QED
      BY <3>1, <3>2, <1>2
  <2> QED
    BY <1>6, <2>1, <2>2 DEF Answers
<1>8. ASSUME NEW n \in 1 .. N, NEW x \in S PROVE Merged(x, Clipped(ordered[n], start, end)) \in S
  <2> DEFINE i == Clipped(ordered[n], start, end)
  <2>1. i \in Interval
    BY <1>3, <1>4
  <2> HIDE DEF i
  <2>2. CASE x = <<>> \/ i.start > Last(x).end + 1
    <3>1. Append(x, i) \in S
      BY <2>1
    <3>2. Merged(x, i) = Append(x, i)
      BY <2>2 DEF Merged
    <3> QED
      BY <3>1, <3>2 DEF i
  <2>3. CASE x # <<>>
    <3>1. Len(x) \in 1 .. Len(x) /\ x[Len(x)] \in Interval
      BY <2>3
    <3> DEFINE grown == [x[Len(x)] EXCEPT !.end = i.end]
    <3>2. grown \in Interval
      BY <2>1, <3>1 DEF Interval
    <3>3. [x EXCEPT ![Len(x)].end = i.end] = [x EXCEPT ![Len(x)] = grown]
      OBVIOUS
    <3> HIDE DEF grown
    <3>4. [x EXCEPT ![Len(x)] = grown] \in S
      BY <3>1, <3>2
    <3>5. Append(x, i) \in S
      BY <2>1
    <3> HIDE DEF S
    <3> QED
      BY <3>3, <3>4, <3>5 DEF Merged, i
  <2> QED
    BY <2>2, <2>3 DEF i
<1>9. <<>> \in S
  OBVIOUS
<1> HIDE DEF S
<1>10. step \in Steps(N, S)
  BY <1>8 DEF Steps
<1>11. PICK f \in [0 .. N -> S] : f[0] = <<>> /\ \A n \in 1 .. N : f[n] = step[<<n, f[n - 1]>>]
  <2> HIDE DEF step
  <2>1. Recursions(N, S, <<>>, step) # {}
    BY <1>3, <1>9, <1>10, RecursionExists
  <2> QED
    BY <2>1 DEF Recursions
<1>12. f = Loop(f)
  <2>1. ASSUME NEW n \in 0 .. N
        PROVE  f[n] = IF n = 0 THEN <<>> ELSE Merged(f[n - 1], Clipped(ordered[n], start, end))
    <3>1. CASE n = 0
      BY <3>1, <1>11
    <3>2. CASE n # 0
      <4>1. n \in 1 .. N /\ n - 1 \in 0 .. N
        BY <3>2, <1>3
      <4>2. f[n - 1] \in S
        BY <4>1, <1>11
      <4>3. step[<<n, f[n - 1]>>] = Merged(f[n - 1], Clipped(ordered[n], start, end))
        BY <4>1, <4>2
      <4> HIDE DEF step
      <4> QED
        BY <4>1, <4>3, <3>2, <1>11
    <3> QED
      BY <3>1, <3>2
  <2> QED
    BY <2>1
<1>13. upto = Loop(upto)
  <2> HIDE DEF Loop
  <2> QED
    BY <1>12
<1> HIDE DEF upto, step
<1>14. upto[0] = <<>> /\ \A n \in 1 .. N : upto[n] = Merged(upto[n - 1], list[n])
  <2>1. \A n \in 0 .. N : upto[n] = IF n = 0 THEN <<>>
                                    ELSE Merged(upto[n - 1], Clipped(ordered[n], start, end))
    BY <1>13
  <2>2. 0 \in 0 .. N /\ \A n \in 1 .. N : n \in 0 .. N /\ n # 0
    BY <1>3
  <2> HIDE DEF list
  <2> QED
    BY <2>1, <2>2, <1>6
<1> HIDE DEF list
<1>15. MergedTo(upto[N], list, N, start, end)
  <2> DEFINE G == {n \in 0 .. N : MergedTo(upto[n], list, n, start, end)}
  <2>1. 0 \in G
    <3>1. MergedTo(<<>>, list, 0, start, end)
      BY DEF MergedTo, Maximal, InFirst
    <3> QED
      BY <3>1, <1>3, <1>14
  <2>2. ASSUME NEW n \in 1 .. N, n - 1 \in G PROVE n \in G
    <3>1. MergedTo(upto[n - 1], list, n - 1, start, end)
      BY <2>2
    <3>2. MergedTo(Merged(upto[n - 1], list[n]), list, n, start, end)
      BY <3>1, <1>6, <1>7, MergedKeeps
    <3>3. n \in 0 .. N
      BY <1>3
    <3> QED
      BY <3>2, <3>3, <1>14
  <2>3. 0 .. N \subseteq G
    <3> HIDE DEF G
    <3> QED
      BY <2>1, <2>2, <1>3, UpTo
  <2>4. N \in 0 .. N
    BY <1>3
  <2> QED
    BY <2>3, <2>4
<1>16. ASSUME NEW us \in Nat
       PROVE  InFirst(us, list, N) <=> us \in start .. end /\ \E i \in claims : Within(us, i)
  <2>1. ASSUME InFirst(us, list, N) PROVE us \in start .. end /\ \E i \in claims : Within(us, i)
    <3>1. PICK n \in 1 .. N : Within(us, list[n])
      BY <2>1 DEF InFirst
    <3>2. ordered[n] \in touched
      BY <1>3
    <3>3. us \in start .. end /\ Within(us, ordered[n])
      BY <3>1, <3>2, <1>4, <1>6
    <3> QED
      BY <3>2, <3>3 DEF touched, Overlapping
  <2>2. ASSUME us \in start .. end, NEW i \in claims, Within(us, i) PROVE InFirst(us, list, N)
    <3>1. i \in touched
      <4>1. i.start \in Nat /\ i.end \in Nat
        BY DEF Sound, Interval
      <4> QED
        BY <4>1, <2>2 DEF touched, Overlapping, Within
    <3>2. PICK n \in 1 .. N : ordered[n] = i
      BY <3>1, <1>3
    <3>3. Within(us, list[n])
      BY <3>1, <3>2, <2>2, <1>4, <1>6
    <3> QED
      BY <3>3 DEF InFirst
  <2> QED
    BY <2>1, <2>2
<1> QED
  BY <1>5, <1>15, <1>16 DEF MergedTo

\* What lies between the first n covered intervals, and where the walk stands.
Walked(walk, covered, n, start) ==
  /\ walk.missing \in Seq(Interval) /\ Maximal(walk.missing)
  /\ walk.next = IF n = 0 THEN start ELSE covered[n].end + 1
  /\ \A m \in 1 .. Len(walk.missing) : walk.missing[m].end + 1 < walk.next
  /\ \A us \in Nat : InFirst(us, walk.missing, Len(walk.missing))
                       <=> start <= us /\ us < walk.next /\ ~InFirst(us, covered, n)

\* Separate intervals are in order.
LEMMA MaximalIsOrdered ==
  ASSUME NEW list, list \in Seq(Interval), Maximal(list)
  PROVE  \A n \in 1 .. Len(list) : \A m \in 1 .. n - 1 : list[m].end + 1 < list[n].start
<1> DEFINE N == Len(list)
           G == {n \in 0 .. N : \A m \in 1 .. n - 1 : list[m].end + 1 < list[n].start}
<1>1. N \in Nat /\ DOMAIN list = 1 .. N /\ \A n \in 1 .. N : list[n].start \in Nat /\ list[n].end \in Nat
  <2>1. N \in Nat /\ DOMAIN list = 1 .. N /\ \A n \in 1 .. N : list[n] \in Interval
    OBVIOUS
  <2>2. \A j \in Interval : j.start \in Nat \ {0} /\ j.end \in Nat
    BY DEF Interval
  <2> QED
    BY <2>1, <2>2
<1>2. \A n \in 1 .. N : /\ list[n].start <= list[n].end
                        /\ n > 1 => list[n - 1].end + 1 < list[n].start
  <2> HIDE DEF N
  <2> QED
    BY <1>1 DEF Maximal
<1> HIDE DEF N
<1>3. 0 \in G
  BY <1>1
<1>4. ASSUME NEW n \in 1 .. N, n - 1 \in G PROVE n \in G
  <2> SUFFICES ASSUME NEW m \in 1 .. n - 1 PROVE list[m].end + 1 < list[n].start
    BY <1>1
  <2>1. n - 1 \in 1 .. N /\ n > 1 /\ m \in 1 .. N
    BY <1>1
  <2>2. list[n - 1].end + 1 < list[n].start /\ list[n - 1].start <= list[n - 1].end
    BY <2>1, <1>2
  <2>3. CASE m = n - 1
    BY <2>2, <2>3
  <2>4. CASE m # n - 1
    <3>1. m \in 1 .. n - 1 - 1
      BY <2>1, <2>4
    <3>2. list[m].end + 1 < list[n - 1].start
      BY <3>1, <1>4
    <3> QED
      BY <3>2, <2>1, <2>2, <1>1
  <2> QED
    BY <2>3, <2>4
<1>5. 0 .. N \subseteq G
  <2> HIDE DEF G
  <2> QED
    BY <1>1, <1>3, <1>4, UpTo
<1> QED
  BY <1>1, <1>5 DEF N

\* One covered interval more.
LEMMA PassedKeeps ==
  ASSUME NEW covered, covered \in Seq(Interval), Maximal(covered), NEW start \in Nat \ {0},
         \A m \in 1 .. Len(covered) : start <= covered[m].start,
         NEW n \in 1 .. Len(covered), NEW walk, Walked(walk, covered, n - 1, start)
  PROVE  Walked(Passed(walk, covered[n]), covered, n, start)
<1> DEFINE i == covered[n]
           w == walk.missing
           L == Len(w)
           from == walk.next
           passed == Passed(walk, i)
           hole == [start |-> from, end |-> i.start - 1]
<1>1. n \in Nat \ {0} /\ \A m \in 1 .. Len(covered) : /\ covered[m] \in Interval
                           /\ covered[m].start \in Nat \ {0} /\ covered[m].end \in Nat
  <2>1. n \in Nat \ {0} /\ \A m \in 1 .. Len(covered) : covered[m] \in Interval
    OBVIOUS
  <2>2. \A j \in Interval : j.start \in Nat \ {0} /\ j.end \in Nat
    BY DEF Interval
  <2> QED
    BY <2>1, <2>2
<1>2. /\ i.start \in Nat \ {0} /\ i.end \in Nat /\ start <= i.start /\ i.start <= i.end
      /\ n > 1 => n - 1 \in 1 .. Len(covered) /\ covered[n - 1].end + 1 < i.start
  BY <1>1 DEF Maximal
<1>3. /\ from = IF n - 1 = 0 THEN start ELSE covered[n - 1].end + 1
      /\ w \in Seq(Interval) /\ Maximal(w)
  BY DEF Walked
<1>3a. \A m \in 1 .. L : w[m].end + 1 < from
  BY DEF Walked
<1>3b. \A us \in Nat : InFirst(us, w, L) <=> start <= us /\ us < from /\ ~InFirst(us, covered, n - 1)
  BY DEF Walked
<1>4. L \in Nat /\ DOMAIN w = 1 .. L /\ \A m \in 1 .. L : w[m] \in Interval
  BY <1>3
<1>5. from \in Nat \ {0} /\ start <= from /\ from <= i.start /\ (n > 1 => from < i.start)
  <2>1. CASE n = 1
    BY <2>1, <1>2, <1>3
  <2>2. CASE n # 1
    <3>1. n > 1 /\ n - 1 # 0 /\ n - 1 \in 1 .. Len(covered)
      BY <2>2, <1>1, <1>2
    <3>2. covered[n - 1].end \in Nat /\ covered[n - 1].start <= covered[n - 1].end
          /\ start <= covered[n - 1].start /\ covered[n - 1].start \in Nat
      BY <3>1, <1>1 DEF Maximal
    <3> QED
      BY <3>1, <3>2, <1>2, <1>3, SMTT(30)
  <2> QED
    BY <2>1, <2>2
<1>6. passed.next = i.end + 1
      /\ passed.missing = IF i.start > from THEN Append(w, hole) ELSE w
  BY <1>2, <1>5 DEF Passed
<1>7. ASSUME NEW us \in Nat PROVE InFirst(us, covered, n) <=> InFirst(us, covered, n - 1) \/ Within(us, i)
  BY <1>1, InOneMore
<1>8. ASSUME NEW us \in Nat, us >= from PROVE ~InFirst(us, covered, n - 1)
  <2> SUFFICES ASSUME NEW m \in 1 .. n - 1, Within(us, covered[m]) PROVE FALSE
    BY DEF InFirst
  <2>1. n - 1 # 0 /\ n - 1 \in 1 .. Len(covered) /\ m \in 1 .. Len(covered)
    BY <1>1
  <2>2. from = covered[n - 1].end + 1
    BY <2>1, <1>3
  <2>3. covered[m].end <= covered[n - 1].end
    <3>1. CASE m = n - 1
      BY <3>1, <2>1, <1>1
    <3>2. CASE m # n - 1
      <4>1. m \in 1 .. n - 1 - 1
        BY <3>2, <1>1
      <4>2. covered[m].end + 1 < covered[n - 1].start
        BY <4>1, <2>1, MaximalIsOrdered
      <4>3. covered[n - 1].start <= covered[n - 1].end
        BY <2>1 DEF Maximal
      <4> QED
        BY <4>2, <4>3, <2>1, <1>1
    <3> QED
      BY <3>1, <3>2
  <2> QED
    BY <2>1, <2>2, <2>3, <1>1, <1>8 DEF Within
<1> HIDE DEF i, w, L, from, passed
<1>9. CASE i.start > from
  <2>1. hole \in Interval /\ hole.start = from /\ hole.end = i.start - 1 /\ hole.start <= hole.end
    BY <1>2, <1>5, <1>9 DEF Interval
  <2> HIDE DEF hole
  <2> DEFINE v == passed.missing
  <2>2. v \in Seq(Interval) /\ Len(v) = L + 1 /\ v[L + 1] = hole /\ \A m \in 1 .. L : v[m] = w[m]
    BY <2>1, <1>3, <1>4, <1>6, <1>9 DEF L
  <2> HIDE DEF v
  <2>3. Maximal(v)
    <3> SUFFICES ASSUME NEW m \in 1 .. L + 1
                 PROVE  /\ v[m].start <= v[m].end
                        /\ m > 1 => v[m - 1].end + 1 < v[m].start
      BY <2>2 DEF Maximal
    <3>1. CASE m \in 1 .. L
      <4>1. m > 1 => m - 1 \in 1 .. L
        BY <3>1, <1>4
      <4>2. w[m].start <= w[m].end /\ (m > 1 => w[m - 1].end + 1 < w[m].start)
        BY <3>1, <1>3, <1>4 DEF Maximal
      <4> QED
        BY <3>1, <4>1, <4>2, <2>2
    <3>2. CASE m = L + 1
      <4>1. m > 1 => L \in 1 .. L /\ m - 1 = L
        BY <3>2, <1>4
      <4>2. m > 1 => v[m - 1].end + 1 < from
        BY <4>1, <2>2, <1>3a
      <4> QED
        BY <3>2, <4>2, <2>1, <2>2
    <3> QED
      BY <3>1, <3>2, <1>4
  <2>4. \A m \in 1 .. L + 1 : v[m].end + 1 < i.end + 1
    <3> SUFFICES ASSUME NEW m \in 1 .. L + 1 PROVE v[m].end + 1 < i.end + 1
      OBVIOUS
    <3>1. CASE m \in 1 .. L
      <4>1. v[m].end + 1 < from /\ v[m].end \in Nat
        BY <3>1, <2>2, <1>3a, <1>4 DEF Interval
      <4> QED
        BY <4>1, <1>2, <1>5
    <3>2. CASE m = L + 1
      BY <3>2, <2>1, <2>2, <1>2
    <3> QED
      BY <3>1, <3>2, <1>4
  <2>5. ASSUME NEW us \in Nat
        PROVE  InFirst(us, v, L + 1) <=> start <= us /\ us < i.end + 1 /\ ~InFirst(us, covered, n)
    <3>1. InFirst(us, v, L + 1) <=> InFirst(us, v, L) \/ Within(us, hole)
      <4> DEFINE K == L + 1
      <4>1. K \in Nat \ {0} /\ K - 1 = L /\ v[K] = hole
        BY <1>4, <2>2
      <4> HIDE DEF K
      <4>2. InFirst(us, v, K) <=> InFirst(us, v, K - 1) \/ Within(us, v[K])
        BY <4>1, InOneMore
      <4> QED
        BY <4>1, <4>2 DEF K
    <3>2. InFirst(us, v, L) <=> InFirst(us, w, L)
      BY <2>2 DEF InFirst
    <3>3. Within(us, hole) <=> from <= us /\ us < i.start
      BY <2>1, <1>2, <1>5 DEF Within
    <3>4. Within(us, i) <=> i.start <= us /\ us < i.end + 1
      BY <1>2 DEF Within
    <3> QED
      BY <3>1, <3>2, <3>3, <3>4, <1>2, <1>3b, <1>5, <1>7, <1>8
  <2> QED
    BY <2>2, <2>3, <2>4, <2>5, <1>1, <1>6 DEF Walked, v, i, passed
<1>10. CASE ~(i.start > from)
  <2>1. passed.missing = w /\ from = i.start
    BY <1>2, <1>5, <1>6, <1>10
  <2>2. \A m \in 1 .. L : w[m].end + 1 < i.end + 1
    <3> SUFFICES ASSUME NEW m \in 1 .. L PROVE w[m].end + 1 < i.end + 1
      OBVIOUS
    <3>1. w[m].end + 1 < from /\ w[m].end \in Nat
      BY <1>3a, <1>4 DEF Interval
    <3> QED
      BY <3>1, <1>2, <1>5
  <2>3. ASSUME NEW us \in Nat
        PROVE  InFirst(us, w, L) <=> start <= us /\ us < i.end + 1 /\ ~InFirst(us, covered, n)
    <3>1. Within(us, i) <=> i.start <= us /\ us < i.end + 1
      BY <1>2 DEF Within
    <3> QED
      BY <3>1, <2>1, <1>2, <1>3b, <1>5, <1>7, <1>8
  <2> QED
    BY <2>1, <2>2, <2>3, <1>1, <1>3, <1>6 DEF Walked, i, passed, L
<1> QED
  BY <1>9, <1>10 DEF passed, i

\* CoverageIntervals answers the rest of the range as missing, in maximal intervals.
LEMMA MissingInIsExact ==
  ASSUME NEW covered, covered \in Seq(Interval), Maximal(covered),
         NEW start \in Nat \ {0}, NEW end \in Nat, start <= end,
         \A m \in 1 .. Len(covered) : start <= covered[m].start /\ covered[m].end <= end
  PROVE  LET missing == MissingIn(covered, start, end)
         IN /\ missing \in Seq(Interval) /\ Maximal(missing)
            /\ \A us \in Nat : InFirst(us, missing, Len(missing))
                                 <=> us \in start .. end /\ ~InFirst(us, covered, Len(covered))
<1> DEFINE N == Len(covered)
           S == [next : Nat \ {0}, missing : Seq(Interval)]
           begin == [next |-> start, missing |-> <<>>]
           step == [ns \in (1 .. N) \X S |-> Passed(ns[2], covered[ns[1]])]
           Loop(f) == [n \in 0 .. N |-> IF n = 0 THEN [next |-> start, missing |-> <<>>]
                                        ELSE Passed(f[n - 1], covered[n])]
           upto == CHOOSE f : f = Loop(f)
           walked == upto[N]
<1>1. N \in Nat /\ DOMAIN covered = 1 .. N
      /\ \A n \in 1 .. N : /\ covered[n] \in Interval
                           /\ covered[n].start \in Nat \ {0} /\ covered[n].end \in Nat
  <2>1. N \in Nat /\ DOMAIN covered = 1 .. N /\ \A n \in 1 .. N : covered[n] \in Interval
    OBVIOUS
  <2>2. \A j \in Interval : j.start \in Nat \ {0} /\ j.end \in Nat
    BY DEF Interval
  <2> QED
    BY <2>1, <2>2
<1>2. MissingIn(covered, start, end)
        = IF walked.next <= end THEN Append(walked.missing, [start |-> walked.next, end |-> end])
          ELSE walked.missing
  BY DEF MissingIn, upto
<1>3. ASSUME NEW n \in 1 .. N, NEW x \in S PROVE Passed(x, covered[n]) \in S
  <2> DEFINE i == covered[n]
             hole == [start |-> x.next, end |-> i.start - 1]
             more == IF i.start > x.next THEN Append(x.missing, hole) ELSE x.missing
             next == IF i.end >= x.next THEN i.end + 1 ELSE x.next
  <2>1. i.start \in Nat \ {0} /\ i.end \in Nat
    BY <1>1
  <2>2. x.next \in Nat \ {0} /\ x.missing \in Seq(Interval)
    OBVIOUS
  <2>3. hole \in Interval
    BY <2>1, <2>2, SMTT(30) DEF Interval
  <2>4. more \in Seq(Interval)
    BY <2>2, <2>3
  <2>5. next \in Nat \ {0}
    BY <2>1, <2>2
  <2>6. Passed(x, i) = [next |-> next, missing |-> more]
    BY DEF Passed
  <2> HIDE DEF next, more
  <2>7. [next |-> next, missing |-> more] \in S
    BY <2>4, <2>5
  <2> QED
    BY <2>6, <2>7
<1>4. begin \in S
  <2>1. <<>> \in Seq(Interval)
    OBVIOUS
  <2> QED
    BY <2>1
<1> HIDE DEF S, N
<1>5. step \in Steps(N, S)
  BY <1>3 DEF Steps
<1>6. PICK f \in [0 .. N -> S] : f[0] = begin /\ \A n \in 1 .. N : f[n] = step[<<n, f[n - 1]>>]
  <2> HIDE DEF step, begin
  <2>1. Recursions(N, S, begin, step) # {}
    BY <1>1, <1>4, <1>5, RecursionExists
  <2> QED
    BY <2>1 DEF Recursions
<1>7. f = Loop(f)
  <2>1. ASSUME NEW n \in 0 .. N
        PROVE  f[n] = IF n = 0 THEN [next |-> start, missing |-> <<>>]
                      ELSE Passed(f[n - 1], covered[n])
    <3>1. CASE n = 0
      BY <3>1, <1>6
    <3>2. CASE n # 0
      <4>1. n \in 1 .. N /\ n - 1 \in 0 .. N
        BY <3>2, <1>1
      <4>2. f[n - 1] \in S
        BY <4>1, <1>6
      <4>3. step[<<n, f[n - 1]>>] = Passed(f[n - 1], covered[n])
        BY <4>1, <4>2
      <4> HIDE DEF step
      <4> QED
        BY <4>1, <4>3, <3>2, <1>6
    <3> QED
      BY <3>1, <3>2
  <2> QED
    BY <2>1
<1>8. upto = Loop(upto)
  <2> HIDE DEF Loop
  <2> QED
    BY <1>7
<1> HIDE DEF upto, step
<1>9. upto[0] = begin /\ \A n \in 1 .. N : upto[n] = Passed(upto[n - 1], covered[n])
  <2>1. \A n \in 0 .. N : upto[n] = IF n = 0 THEN [next |-> start, missing |-> <<>>]
                                    ELSE Passed(upto[n - 1], covered[n])
    BY <1>8
  <2>2. 0 \in 0 .. N /\ \A n \in 1 .. N : n \in 0 .. N /\ n # 0
    BY <1>1
  <2> QED
    BY <2>1, <2>2
<1>10. Walked(walked, covered, N, start)
  <2> DEFINE G == {n \in 0 .. N : Walked(upto[n], covered, n, start)}
  <2>1. 0 \in G
    <3>1. Walked(begin, covered, 0, start)
      BY DEF Walked, Maximal, InFirst
    <3> QED
      BY <3>1, <1>1, <1>9
  <2>2. ASSUME NEW n \in 1 .. N, n - 1 \in G PROVE n \in G
    <3>1. Walked(upto[n - 1], covered, n - 1, start)
      BY <2>2
    <3>2. n \in 1 .. Len(covered)
      BY DEF N
    <3>3. Walked(Passed(upto[n - 1], covered[n]), covered, n, start)
      BY <3>1, <3>2, PassedKeeps
    <3>4. n \in 0 .. N
      BY <1>1
    <3> QED
      BY <3>3, <3>4, <1>9
  <2>3. 0 .. N \subseteq G
    <3> HIDE DEF G
    <3> QED
      BY <2>1, <2>2, <1>1, UpTo
  <2>4. N \in 0 .. N
    BY <1>1
  <2> QED
    BY <2>3, <2>4
<1> HIDE DEF walked, begin
<1> DEFINE w == walked.missing
           L == Len(w)
           from == walked.next
           rest == [start |-> from, end |-> end]
<1>11. /\ w \in Seq(Interval) /\ Maximal(w) /\ L \in Nat /\ DOMAIN w = 1 .. L
       /\ \A m \in 1 .. L : w[m].end + 1 < from
  BY <1>10 DEF Walked
<1>12. \A us \in Nat : InFirst(us, w, L) <=> start <= us /\ us < from /\ ~InFirst(us, covered, N)
  BY <1>10 DEF Walked
<1>13. from = IF N = 0 THEN start ELSE covered[N].end + 1
  BY <1>10 DEF Walked
<1>14. from \in Nat \ {0} /\ start <= from /\ from <= end + 1
  <2>1. CASE N = 0
    BY <2>1, <1>13
  <2>2. CASE N # 0
    <3>1. N \in 1 .. N
      BY <2>2, <1>1
    <3>2. start <= covered[N].start /\ covered[N].start <= covered[N].end /\ covered[N].end <= end
      BY <3>1, <1>1 DEF N, Maximal
    <3> QED
      BY <2>2, <3>1, <3>2, <1>1, <1>13
  <2> QED
    BY <2>1, <2>2
<1>15. ASSUME NEW us \in Nat, us >= from PROVE ~InFirst(us, covered, N)
  <2> SUFFICES ASSUME NEW m \in 1 .. N, Within(us, covered[m]) PROVE FALSE
    BY DEF InFirst
  <2>1. N \in 1 .. N /\ N # 0
    BY <1>1
  <2>2. covered[m].end <= covered[N].end
    <3>1. CASE m = N
      BY <3>1, <2>1, <1>1
    <3>2. CASE m # N
      <4>1. m \in 1 .. N - 1
        BY <3>2, <1>1
      <4>2. covered[m].end + 1 < covered[N].start
        BY <4>1, <2>1, MaximalIsOrdered DEF N
      <4>3. covered[N].start <= covered[N].end
        BY <2>1, <1>1 DEF Maximal
      <4> QED
        BY <4>2, <4>3, <2>1, <1>1
    <3> QED
      BY <3>1, <3>2
  <2> QED
    BY <2>1, <2>2, <1>1, <1>13, <1>15 DEF Within
<1> DEFINE v == IF from <= end THEN Append(w, rest) ELSE w
<1>16. MissingIn(covered, start, end) = v
  BY <1>2
<1> HIDE DEF w, L, from
<1>17. CASE from <= end
  <2>1. rest \in Interval /\ rest.start = from /\ rest.end = end
    BY <1>14 DEF Interval
  <2> HIDE DEF rest
  <2>2. v \in Seq(Interval) /\ Len(v) = L + 1 /\ v[L + 1] = rest /\ \A m \in 1 .. L : v[m] = w[m]
    BY <2>1, <1>11, <1>17 DEF L
  <2> HIDE DEF v
  <2>3. Maximal(v)
    <3> SUFFICES ASSUME NEW m \in 1 .. L + 1
                 PROVE  /\ v[m].start <= v[m].end
                        /\ m > 1 => v[m - 1].end + 1 < v[m].start
      BY <2>2 DEF Maximal
    <3>1. CASE m \in 1 .. L
      <4>1. m > 1 => m - 1 \in 1 .. L
        BY <3>1, <1>11
      <4>2. w[m].start <= w[m].end /\ (m > 1 => w[m - 1].end + 1 < w[m].start)
        BY <3>1, <1>11 DEF Maximal
      <4> QED
        BY <3>1, <4>1, <4>2, <2>2
    <3>2. CASE m = L + 1
      <4>1. m > 1 => L \in 1 .. L /\ m - 1 = L
        BY <3>2, <1>11
      <4>2. m > 1 => v[m - 1].end + 1 < from
        BY <4>1, <2>2, <1>11
      <4> QED
        BY <3>2, <4>2, <2>1, <2>2, <1>17
    <3> QED
      BY <3>1, <3>2, <1>11
  <2>4. ASSUME NEW us \in Nat
        PROVE  InFirst(us, v, L + 1) <=> us \in start .. end /\ ~InFirst(us, covered, N)
    <3>1. InFirst(us, v, L + 1) <=> InFirst(us, v, L) \/ Within(us, rest)
      <4> DEFINE K == L + 1
      <4>1. K \in Nat \ {0} /\ K - 1 = L /\ v[K] = rest
        BY <1>11, <2>2
      <4> HIDE DEF K
      <4>2. InFirst(us, v, K) <=> InFirst(us, v, K - 1) \/ Within(us, v[K])
        BY <4>1, InOneMore
      <4> QED
        BY <4>1, <4>2 DEF K
    <3>2. InFirst(us, v, L) <=> InFirst(us, w, L)
      BY <2>2 DEF InFirst
    <3>3. Within(us, rest) <=> from <= us /\ us <= end
      BY <2>1 DEF Within
    <3> QED
      BY <3>1, <3>2, <3>3, <1>12, <1>14, <1>15, <1>17
  <2> QED
    BY <2>2, <2>3, <2>4, <1>16 DEF N
<1>18. CASE ~(from <= end)
  <2>1. v = w
    BY <1>18
  <2>2. ASSUME NEW us \in Nat
        PROVE  InFirst(us, w, L) <=> us \in start .. end /\ ~InFirst(us, covered, N)
    BY <1>12, <1>14, <1>18
  <2> HIDE DEF v
  <2> QED
    BY <2>1, <2>2, <1>11, <1>16 DEF N, L
<1> QED
  BY <1>17, <1>18

-----------------------------------------------------------------------------
(* The claims that the table comes to have. *)

CoverageIsSound ==
  /\ \A k \in Kinds : Sound(coverage[k])
  /\ job.step = "mark" => \A i \in job.claims : i.start <= i.end

\* A claim is not empty: a session's interval is what is left of it in the range.
LEMMA ClaimIsNotEmpty ==
  ASSUME NEW q \in Requests, NEW i \in Claims(q)
  PROVE  i.start <= i.end
<1>1. q.start \in Nat \ {0} /\ q.end \in Nat /\ q.start < q.end
  BY RequestType, DownloadsAssumption
<1>2. CASE ~q.rth
  BY <1>1, <1>2 DEF Claims
<1>3. CASE q.rth
  <2>1. PICK d \in Trading :
          LET c == Clipped([start |-> d.open, end |-> d.close], q.start, q.end)
          IN c.start < c.end /\ i = [start |-> c.start, end |-> c.end - 1]
    BY <1>3 DEF Claims, SessionIntervals
  <2>2. d.open \in Nat /\ d.close \in Nat
    BY DownloadsAssumption
  <2>3. QED
    BY <1>1, <2>1, <2>2 DEF Clipped
<1>4. QED
  BY <1>2, <1>3

\* One piece for each claim of a finite set: finitely many.
LEMMA PiecesAreFinite ==
  ASSUME NEW S, IsFiniteSet(S), NEW piece \in [S -> Interval]
  PROVE  IsFiniteSet({piece[i] : i \in S})
<1> DEFINE T == {piece[i] : i \in S}
<1>1. piece \in Surjection(S, T)
  BY DEF Surjection
<1> HIDE DEF T
<1>2. IsFiniteSet(T)
  BY <1>1, FS_Surjection
<1> QED
  BY <1>2 DEF T

\* InvalidateCoverage leaves finitely many claims, and none that is empty.
LEMMA InvalidatedIsSound ==
  ASSUME NEW claims, Sound(claims), NEW start \in Nat \ {0}, NEW end \in Nat
  PROVE  Sound(Invalidated(claims, start, end))
<1> DEFINE touched == Overlapping(claims, start, end)
           before == {j \in touched : j.start < start}
           after == {j \in touched : j.end > end}
           left == [i \in before |-> [start |-> i.start, end |-> start - 1]]
           right == [i \in after |-> [start |-> end + 1, end |-> i.end]]
<1>1. claims \ touched \in SUBSET claims /\ before \in SUBSET claims /\ after \in SUBSET claims
  BY DEF Overlapping
<1>2. IsFiniteSet(claims \ touched) /\ IsFiniteSet(before) /\ IsFiniteSet(after)
  <2> DEFINE others == claims \ touched
  <2> HIDE DEF before, after, others
  <2> QED
    BY <1>1, FS_Subset DEF Sound, others
<1>3. \A i \in claims : i.start \in Nat \ {0} /\ i.end \in Nat /\ i.start <= i.end
  BY DEF Sound, Interval
<1>4. left \in [before -> Interval] /\ right \in [after -> Interval]
  BY <1>1, <1>3 DEF Interval
<1>5. Invalidated(claims, start, end) =
        (claims \ touched) \cup {left[i] : i \in before} \cup {right[i] : i \in after}
  BY DEF Invalidated
<1>6. \A i \in before : left[i].start <= left[i].end
  BY <1>1, <1>3
<1>7. \A i \in after : right[i].start <= right[i].end
  BY <1>1, <1>3
<1> HIDE DEF before, after, left, right
<1>8. IsFiniteSet({left[i] : i \in before}) /\ IsFiniteSet({right[i] : i \in after})
  BY <1>2, <1>4, PiecesAreFinite
<1> DEFINE A == claims \ touched
           B == {left[i] : i \in before}
           C == {right[i] : i \in after}
<1>9. IsFiniteSet(A \cup B \cup C)
  <2> HIDE DEF A, B, C
  <2>1. IsFiniteSet(A) /\ IsFiniteSet(B) /\ IsFiniteSet(C)
    BY <1>2, <1>8 DEF A, B, C
  <2>2. IsFiniteSet(A \cup B)
    BY <2>1, FS_Union
  <2> QED
    BY <2>1, <2>2, FS_Union
<1>10. \A i \in A \cup B \cup C : i \in Interval /\ i.start <= i.end
  <2>1. \A i \in A : i \in Interval /\ i.start <= i.end
    BY <1>1 DEF Sound
  <2>2. \A i \in B : i \in Interval /\ i.start <= i.end
    BY <1>4, <1>6
  <2>3. \A i \in C : i \in Interval /\ i.start <= i.end
    BY <1>4, <1>7
  <2> HIDE DEF A, B, C
  <2> QED
    BY <2>1, <2>2, <2>3
<1> QED
  BY <1>5, <1>9, <1>10 DEF Sound

LEMMA CoverageIsSoundStep ==
  ASSUME DownloadsTypeOK, DownloadInv, CoverageIsSound, [DownloadsNext]_vars
  PROVE  CoverageIsSound'
<1>. job \in Job
  BY DEF DownloadsTypeOK
<1>1. ASSUME EndOfAnswer \/ UpsertBars
      PROVE  CoverageIsSound'
  <2>1. job.request \in Requests
    BY <1>1 DEF EndOfAnswer, UpsertBars, DownloadInv, RequestIsOpen
  <2>2. job'.claims = Claims(job.request) /\ coverage' = coverage
    BY <1>1 DEF EndOfAnswer, UpsertBars, Job
  <2>3. QED
    BY <2>1, <2>2, ClaimIsNotEmpty DEF CoverageIsSound
<1>2. ASSUME NEW i \in job.claims, MarkCoverage(i)
      PROVE  CoverageIsSound'
  <2>1. job.step = "mark" /\ job'.claims = job.claims \ {i} /\ i \in Interval
    BY <1>2 DEF MarkCoverage, Job
  <2>2. \A k \in Kinds : coverage'[k] = coverage[k] \/ coverage'[k] = coverage[k] \cup {i}
    BY <1>2 DEF MarkCoverage, DownloadsTypeOK
  <2>3. ASSUME NEW k \in Kinds PROVE Sound(coverage[k] \cup {i})
    <3>1. Sound(coverage[k]) /\ i.start <= i.end
      BY <2>1 DEF CoverageIsSound
    <3>2. IsFiniteSet(coverage[k] \cup {i})
      BY <3>1, FS_AddElement DEF Sound
    <3> QED
      BY <3>1, <3>2, <2>1 DEF Sound
  <2>4. QED
    BY <2>1, <2>2, <2>3 DEF CoverageIsSound
<1>3. CASE Invalidate
  <2>1. job.request \in Requests /\ job'.step # "mark"
    BY <1>3 DEF Invalidate, DownloadInv, RequestIsOpen, Job
  <2>2. job.request.start \in Nat \ {0} /\ job.request.end \in Nat
    BY <2>1, RequestType
  <2>3. \A k \in Kinds : \/ coverage'[k] = coverage[k]
                         \/ coverage'[k] = Invalidated(coverage[k], job.request.start, job.request.end)
    BY <1>3 DEF Invalidate, DownloadsTypeOK
  <2>4. \A k \in Kinds : Sound(coverage'[k])
    BY <2>2, <2>3, InvalidatedIsSound DEF CoverageIsSound
  <2>5. QED
    BY <2>1, <2>4 DEF CoverageIsSound
<1>4. CASE UNCHANGED vars
  BY <1>4 DEF vars, CoverageIsSound
<1>5. CASE Abandon \/ \E q \in Requests : Begin(q)
  <2>1. CASE Abandon
    BY <2>1 DEF Abandon, Idle, CoverageIsSound
  <2>2. ASSUME NEW q \in Requests, Begin(q) PROVE job'.step # "mark" /\ coverage' = coverage
    <3>1. job'.step = (IF q.via = "bars" THEN "upsert" ELSE "invalidate") /\ coverage' = coverage
      BY <2>2 DEF Begin, Idle
    <3>2. QED
      BY <3>1
  <2>3. QED
    BY <1>5, <2>1, <2>2 DEF CoverageIsSound
<1>6. CASE DeleteRange \/ NextKind
  <2>1. job'.step # "mark" /\ coverage' = coverage
    BY <1>6 DEF DeleteRange, NextKind, Fetching, Idle, Job
  <2>2. QED
    BY <2>1 DEF CoverageIsSound
<1>7. CASE \/ \E r \in job.left : SkipRecord(r) \/ TakeRecord(r)
           \/ IteratorFails \/ \E page \in SUBSET job.left : NextPage(page)
  <2>1. ASSUME NEW r \in job.left, SkipRecord(r) PROVE job'.step = "fetch" /\ coverage' = coverage
    BY <2>1 DEF SkipRecord, Job
  <2>2. ASSUME NEW r \in job.left, TakeRecord(r) PROVE job'.step = "fetch" /\ coverage' = coverage
    BY <2>2, TakenRecord DEF TakeRecord
  <2>3. ASSUME IteratorFails PROVE job'.step # "mark" /\ coverage' = coverage
    BY <2>3 DEF IteratorFails, Idle, Job
  <2>4. ASSUME NEW page \in SUBSET job.left, NextPage(page) PROVE job'.step = "fetch" /\ coverage' = coverage
    BY <2>4 DEF NextPage, Job
  <2>5. job'.step # "mark" /\ coverage' = coverage
    BY <1>7, <2>1, <2>2, <2>3, <2>4
  <2>6. QED
    BY <2>5 DEF CoverageIsSound
<1>8. QED
  BY <1>1, <1>2, <1>3, <1>4, <1>5, <1>6, <1>7 DEF DownloadsNext, JobStep

\* What CoverageIntervals makes of sound claims is exact.
LEMMA SoundIsExact ==
  ASSUME CoverageIsSound
  PROVE  CoverageIntervalsExact
<1> SUFFICES ASSUME NEW k \in Kinds, NEW start \in Instants, NEW end \in {e \in Instants : start <= e}
             PROVE  LET covered == CoveredIn(coverage[k], start, end)
                        missing == MissingIn(covered, start, end)
                    IN /\ InstantsOf(covered) = {us \in start .. end : \E i \in coverage[k] : Within(us, i)}
                       /\ InstantsOf(missing) = (start .. end) \ InstantsOf(covered)
                       /\ Maximal(covered) /\ Maximal(missing)
  BY DEF CoverageIntervalsExact
<1> DEFINE covered == CoveredIn(coverage[k], start, end)
           missing == MissingIn(covered, start, end)
<1>1. start \in Nat \ {0} /\ end \in Nat /\ start <= end
  BY RequestType DEF Instants
<1>2. Sound(coverage[k])
  BY DEF CoverageIsSound
<1>3. /\ covered \in Seq(Interval) /\ Maximal(covered)
      /\ \A m \in 1 .. Len(covered) : start <= covered[m].start /\ covered[m].end <= end
      /\ \A us \in Nat : InFirst(us, covered, Len(covered))
                           <=> us \in start .. end /\ \E i \in coverage[k] : Within(us, i)
  BY <1>1, <1>2, CoveredInIsExact
<1> HIDE DEF covered
<1>4. /\ missing \in Seq(Interval) /\ Maximal(missing)
      /\ \A us \in Nat : InFirst(us, missing, Len(missing))
                           <=> us \in start .. end /\ ~InFirst(us, covered, Len(covered))
  BY <1>1, <1>3, MissingInIsExact
<1> HIDE DEF missing
<1>5. ASSUME NEW list, list \in Seq(Interval), NEW us
      PROVE  us \in InstantsOf(list) <=> us \in Nat /\ InFirst(us, list, Len(list))
  <2>1. DOMAIN list = 1 .. Len(list) /\ \A n \in DOMAIN list : list[n] \in Interval
    BY <1>5
  <2>2. \A n \in DOMAIN list : list[n].start \in Nat /\ list[n].end \in Nat
    BY <2>1 DEF Interval
  <2> QED
    BY <2>1, <2>2 DEF InstantsOf, InFirst, Within
<1>6. ASSUME NEW us PROVE us \in start .. end => us \in Nat
  BY <1>1
<1>7. InstantsOf(covered) = {us \in start .. end : \E i \in coverage[k] : Within(us, i)}
  BY <1>3, <1>5, <1>6
<1>8. InstantsOf(missing) = (start .. end) \ InstantsOf(covered)
  BY <1>3, <1>4, <1>5, <1>6
<1> QED
  BY <1>3, <1>4, <1>7, <1>8 DEF covered, missing

\* For every set of requests, sessions and failures, whatever claims overlap, touch
\* or were cut by a withdrawal: CoverageIntervals partitions any range into what is
\* covered and what is missing, as maximal intervals in order.
THEOREM CoverageIntervalsStayExact == DownloadsSpec => []CoverageIntervalsExact
<1>. DEFINE Safe == DownloadsTypeOK /\ DownloadInv /\ CoverageIsSound
<1>1. DownloadsInit => Safe
  <2>1. Sound({})
    BY FS_EmptySet DEF Sound
  <2> QED
    BY <2>1, TypeInit, DownloadInvInit DEF DownloadsInit, Idle, CoverageIsSound
<1>2. Safe /\ [DownloadsNext]_vars => Safe'
  BY TypeStep, DownloadInvStep, CoverageIsSoundStep
<1>3. Safe => CoverageIntervalsExact
  BY SoundIsExact
<1>. HIDE DEF Safe
<1>4. QED
  BY <1>1, <1>2, <1>3, PTL DEF DownloadsSpec
=============================================================================
