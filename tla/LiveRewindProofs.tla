-------------------------- MODULE LiveRewindProofs --------------------------
(***************************************************************************)
(* Theorems about Live Rewind: what the recorder, the range endpoint and the        *)
(* browser's buffer say of the past is true, for every size of ring, queue, batch,  *)
(* buffer and answer, and however prints, deliveries, answers and restarts overlap. *)
(***************************************************************************)
EXTENDS LiveRewind, OrdersProofs, SequenceTheorems

-----------------------------------------------------------------------------
(* What holds of a buffer: its events ascend, its holes ascend and do not touch, and  *)
(* each number in view up to the top is either an event or in a hole.                *)

Ascends(events) == \A m, n \in DOMAIN events : m < n => events[m].seq < events[n].seq

Apart(gaps) ==
  /\ \A i \in DOMAIN gaps : gaps[i][1] <= gaps[i][2]
  /\ \A i, j \in DOMAIN gaps : i < j => gaps[i][2] < gaps[j][1]

\* Holes before the oldest of MaxGaps may have been forgotten.
InView(events, gaps, n) ==
  /\ events[1].seq <= n
  /\ Len(gaps) = MaxGaps => gaps[1][1] <= n

Lacks(gaps, n) == \E j \in DOMAIN gaps : gaps[j][1] <= n /\ n <= gaps[j][2]

Has(events, n) == \E i \in DOMAIN events : events[i].seq = n

Known(events, gaps, top) ==
  \A n \in Nat : n <= top /\ InView(events, gaps, n) => (Has(events, n) <=> ~Lacks(gaps, n))

Accounted(events, gaps, top) ==
  /\ events \in Seq(Event) /\ events # <<>> /\ gaps \in Seq(Hole) /\ Len(gaps) <= MaxGaps
  /\ Ascends(events) /\ Apart(gaps)
  /\ \A i \in DOMAIN events : events[i].seq <= top
  /\ \A j \in DOMAIN gaps : gaps[j][2] <= top
  /\ Known(events, gaps, top)

\* Holes that end before a number.
Below(gaps, last) == \A j \in DOMAIN gaps : gaps[j][2] < last

Totals(events, base) ==
  \A i \in DOMAIN events :
    events[i].volume = (IF i = 1 THEN base ELSE events[i - 1].volume) + events[i].seq

Buffer == [events : Seq(Event), printsAtHead : Nat \ {0}, base : [volume : Nat, prints : Nat],
           gaps : Seq(Hole)]

\* The buffer between two steps of the page.
BufferInv(b) ==
  /\ b \in Buffer /\ Len(b.events) <= Capacity
  /\ Totals(b.events, b.base.volume)
  /\ b.events = <<>> => b.gaps = <<>>
  /\ b.events # <<>> =>
       /\ Accounted(b.events, b.gaps, b.events[Len(b.events)].seq)
       /\ Below(b.gaps, b.events[Len(b.events)].seq)

IsPrint(p) == /\ p.symbol \in Symbols /\ p.run \in 1 .. MaxRuns
              /\ p.seq \in 1 .. MaxPrints /\ p.at \in 1 .. MaxPrints

-----------------------------------------------------------------------------
(* The steps of push. *)

\* r is gaps and a hole from from to to, without the first of gaps when d is 1.
HoleAdded(gaps, from, to, r, d) ==
  /\ r \in Seq(Hole) /\ Len(r) \in 1 .. MaxGaps
  /\ d \in {0, 1} /\ (d = 1 <=> Len(gaps) = MaxGaps)
  /\ Len(r) = Len(gaps) + 1 - d
  /\ r[Len(r)] = <<from, to>>
  /\ \A i \in 1 .. Len(r) - 1 : r[i] = gaps[i + d]

\* A jump notes a hole after the others; at the bound the oldest one is forgotten.
LEMMA NotedIsLast ==
  ASSUME NEW gaps \in Seq(Hole), Len(gaps) <= MaxGaps, NEW from \in Nat \ {0}, NEW to \in Nat,
         \A j \in DOMAIN gaps : gaps[j][2] + 1 < from
  PROVE  \E d : HoleAdded(gaps, from, to, Noted(gaps, from, to), d)
<1> DEFINE all == Append(gaps, <<from, to>>)
           k == Max({1, Len(all) - MaxGaps + 1})
           r == Noted(gaps, from, to)
<1>1. MaxGaps \in Nat \ {0} /\ Len(gaps) \in Nat /\ <<from, to>> \in Hole
  BY LiveRewindAssumption DEF Hole
<1>2. r = SubSeq(all, k, Len(all))
  <2>1. ~(gaps # <<>> /\ Last(gaps)[2] + 1 = from)
    <3> SUFFICES ASSUME gaps # <<>>, Last(gaps)[2] + 1 = from PROVE FALSE
      OBVIOUS
    <3>1. Len(gaps) \in DOMAIN gaps /\ Last(gaps) = gaps[Len(gaps)]
      BY DEF Last
    <3>2. gaps[Len(gaps)][2] \in Nat
      BY <3>1 DEF Hole
    <3> QED
      BY <3>1, <3>2
  <2> QED
    BY <2>1 DEF Noted
<1>3. /\ all \in Seq(Hole) /\ Len(all) = Len(gaps) + 1 /\ all[Len(gaps) + 1] = <<from, to>>
      /\ \A i \in 1 .. Len(gaps) : all[i] = gaps[i]
  BY <1>1
<1>4. k = IF Len(gaps) = MaxGaps THEN 2 ELSE 1
  <2>1. Len(all) - MaxGaps + 1 = Len(gaps) + 2 - MaxGaps
    BY <1>1, <1>3
  <2>2. CASE Len(gaps) = MaxGaps
    <3>1. {1, Len(all) - MaxGaps + 1} = {1, 2}
      BY <2>1, <2>2, <1>1
    <3>2. Max({1, 2}) = 2
      BY DEF Max
    <3> QED
      BY <3>1, <3>2, <2>2
  <2>3. CASE Len(gaps) # MaxGaps
    <3>1. Len(all) - MaxGaps + 1 \in Int /\ Len(all) - MaxGaps + 1 <= 1
      BY <2>1, <2>3, <1>1
    <3>2. Max({1, Len(all) - MaxGaps + 1}) = 1
      <4> HIDE DEF all
      <4> QED
        BY <3>1 DEF Max
    <3> QED
      BY <3>2, <2>3
  <2> QED
    BY <2>2, <2>3
<1> HIDE DEF all, k
<1>5. /\ r \in Seq(Hole) /\ Len(r) = Len(gaps) + 2 - k
      /\ \A i \in 1 .. Len(gaps) + 2 - k : r[i] = all[i + k - 1]
  <2>1. k \in 1 .. Len(all)
    BY <1>1, <1>3, <1>4
  <2> QED
    BY <1>1, <1>2, <1>3, <2>1
<1> HIDE DEF r
<1>6. Len(gaps) + 1 - Len(r) = k - 1 /\ k \in {1, 2} /\ (k = 2 <=> Len(gaps) = MaxGaps)
  BY <1>1, <1>4, <1>5
<1>7. r[Len(r)] = <<from, to>> /\ Len(r) \in 1 .. MaxGaps
  BY <1>1, <1>3, <1>4, <1>5, SMTT(30)
<1>8. \A i \in 1 .. Len(r) - 1 : r[i] = gaps[i + (k - 1)]
  <2> SUFFICES ASSUME NEW i \in 1 .. Len(r) - 1 PROVE r[i] = gaps[i + (k - 1)]
    OBVIOUS
  <2>1. i \in 1 .. Len(gaps) + 2 - k /\ i + k - 1 \in 1 .. Len(gaps)
    BY <1>1, <1>4, <1>5
  <2> QED
    BY <2>1, <1>3, <1>5, <1>4
<1>9. k - 1 \in {0, 1} /\ (k - 1 = 1 <=> Len(gaps) = MaxGaps) /\ Len(r) = Len(gaps) + 1 - (k - 1)
  BY <1>1, <1>5, <1>6
<1>10. HoleAdded(gaps, from, to, r, k - 1)
  BY <1>5, <1>7, <1>8, <1>9 DEF HoleAdded
<1> QED
  BY <1>10 DEF r

\* Adding a hole right after the last event: every number up to its end is known.
LEMMA HoleAddedAccounts ==
  ASSUME NEW events, NEW gaps, NEW last \in Nat, NEW to \in Nat, NEW r, NEW d, last < to,
         Accounted(events, gaps, last), Below(gaps, last), HoleAdded(gaps, last + 1, to, r, d)
  PROVE  Accounted(events, r, to)
<1>1. /\ events \in Seq(Event) /\ events # <<>> /\ gaps \in Seq(Hole) /\ Len(gaps) <= MaxGaps
      /\ Len(gaps) \in Nat /\ Len(events) \in Nat \ {0} /\ DOMAIN gaps = 1 .. Len(gaps)
      /\ MaxGaps \in Nat \ {0}
  BY LiveRewindAssumption DEF Accounted
<1>2. \A i \in DOMAIN events : events[i].seq \in Nat \ {0}
  <2>1. \A i \in DOMAIN events : events[i] \in Event
    BY <1>1
  <2> QED
    BY <2>1 DEF Event
<1>3. \A j \in DOMAIN gaps : gaps[j][1] \in Nat /\ gaps[j][2] \in Nat
  <2>1. \A j \in DOMAIN gaps : gaps[j] \in Hole
    BY <1>1
  <2> QED
    BY <2>1 DEF Hole
<1>4. d \in Int /\ (d = 0 \/ d = 1)
  BY DEF HoleAdded
<1>g. d = 1 <=> Len(gaps) = MaxGaps
  BY DEF HoleAdded
<1>5. /\ r \in Seq(Hole) /\ DOMAIN r = 1 .. Len(r) /\ Len(r) \in Nat /\ Len(r) \in 1 .. MaxGaps
      /\ Len(r) = Len(gaps) + 1 - d
      /\ r[Len(r)][1] = last + 1 /\ r[Len(r)][2] = to
  BY DEF HoleAdded
<1>f. \A i \in 1 .. Len(r) - 1 : i + d \in DOMAIN gaps /\ r[i] = gaps[i + d]
  <2>1. \A i \in 1 .. Len(r) - 1 : i + d \in DOMAIN gaps
    BY <1>1, <1>4, <1>5
  <2> QED
    BY <2>1 DEF HoleAdded
<1>b. \A j \in DOMAIN gaps : gaps[j][2] < last
  BY DEF Below
<1>a. /\ \A i \in DOMAIN gaps : gaps[i][1] <= gaps[i][2]
      /\ \A i, j \in DOMAIN gaps : i < j => gaps[i][2] < gaps[j][1]
  BY DEF Accounted, Apart
<1>6. Apart(r)
  <2>1. ASSUME NEW i \in DOMAIN r PROVE r[i][1] <= r[i][2]
    <3>1. CASE i = Len(r)
      BY <3>1, <1>5
    <3>2. CASE i # Len(r)
      <4>1. i \in 1 .. Len(r) - 1
        BY <3>2, <1>5
      <4> QED
        BY <4>1, <1>f, <1>a
    <3> QED
      BY <3>1, <3>2
  <2>2. ASSUME NEW i \in DOMAIN r, NEW j \in DOMAIN r, i < j PROVE r[i][2] < r[j][1]
    <3>1. i \in 1 .. Len(r) - 1 /\ i + d \in DOMAIN gaps /\ r[i] = gaps[i + d]
      <4>1. i \in 1 .. Len(r) - 1
        BY <2>2, <1>5
      <4> QED
        BY <4>1, <1>f
    <3>2. CASE j = Len(r)
      BY <3>1, <3>2, <1>3, <1>5, <1>b
    <3>3. CASE j # Len(r)
      <4>1. j \in 1 .. Len(r) - 1
        BY <3>3, <1>5
      <4>2. j + d \in DOMAIN gaps /\ r[j] = gaps[j + d] /\ i + d < j + d
        <5>1. j + d \in DOMAIN gaps /\ r[j] = gaps[j + d]
          BY <4>1, <1>f
        <5>2. i + d < j + d
          BY <2>2, <1>4, <1>5
        <5> QED
          BY <5>1, <5>2
      <4> QED
        BY <3>1, <4>2, <1>a
    <3> QED
      BY <3>2, <3>3
  <2> QED
    BY <2>1, <2>2 DEF Apart
<1>7. \A j \in DOMAIN r : r[j][2] <= to
  <2> SUFFICES ASSUME NEW j \in DOMAIN r PROVE r[j][2] <= to
    OBVIOUS
  <2>1. CASE j = Len(r)
    BY <2>1, <1>5
  <2>2. CASE j # Len(r)
    <3>1. j \in 1 .. Len(r) - 1
      BY <2>2, <1>5
    <3>2. r[j] = gaps[j + d] /\ j + d \in DOMAIN gaps
      BY <3>1, <1>f
    <3> QED
      BY <3>2, <1>3, <1>b
  <2> QED
    BY <2>1, <2>2
<1>8. \A i \in DOMAIN events : events[i].seq <= to
  BY <1>2 DEF Accounted
<1>9. Known(events, r, to)
  <2> SUFFICES ASSUME NEW n \in Nat, n <= to, InView(events, r, n)
               PROVE  Has(events, n) <=> ~Lacks(r, n)
    BY DEF Known
  <2>1. CASE last < n
    <3>1. Lacks(r, n)
      <4>1. Len(r) \in DOMAIN r /\ r[Len(r)][1] <= n /\ n <= r[Len(r)][2]
        BY <2>1, <1>5
      <4> QED
        BY <4>1 DEF Lacks
    <3>2. ~Has(events, n)
      BY <2>1, <1>2 DEF Has, Accounted
    <3> QED
      BY <3>1, <3>2
  <2>2. CASE n <= last
    <3>1. ASSUME Lacks(r, n) PROVE Lacks(gaps, n)
      <4>1. PICK j \in DOMAIN r : r[j][1] <= n /\ n <= r[j][2]
        BY <3>1 DEF Lacks
      <4>2. j # Len(r)
        BY <4>1, <1>5, <2>2
      <4>3. j \in 1 .. Len(r) - 1
        BY <4>2, <1>5
      <4> QED
        BY <4>1, <4>3, <1>f DEF Lacks
    <3>2. InView(events, gaps, n) /\ (d = 1 => gaps[1][2] < n)
      <4>1. CASE d = 0
        BY <4>1, <1>g DEF InView
      <4>2. CASE d = 1
        <5>1. Len(gaps) = MaxGaps /\ Len(r) = MaxGaps
          BY <4>2, <1>g, <1>5
        <5>2. r[1][1] <= n
          BY <5>1 DEF InView
        <5>3. Len(r) # 1
          BY <5>2, <1>5, <2>2
        <5>4. 1 \in 1 .. Len(r) - 1 /\ 1 \in DOMAIN gaps
          BY <5>1, <5>3, <1>1, <1>5
        <5>5. r[1] = gaps[2] /\ 2 \in DOMAIN gaps
          BY <5>4, <4>2, <1>f
        <5>6. gaps[1][1] <= gaps[1][2] /\ gaps[1][2] < gaps[2][1]
          BY <5>4, <5>5, <1>a
        <5> QED
          BY <5>2, <5>4, <5>5, <5>6, <1>3 DEF InView
      <4> QED
        BY <4>1, <4>2, <1>4
    <3>3. ASSUME Lacks(gaps, n) PROVE Lacks(r, n)
      <4>1. PICK j \in DOMAIN gaps : gaps[j][1] <= n /\ n <= gaps[j][2]
        BY <3>3 DEF Lacks
      <4>2. j - d \in 1 .. Len(r) - 1
        <5>1. d = 1 => j # 1
          BY <4>1, <3>2, <1>3
        <5> QED
          BY <5>1, <1>1, <1>4, <1>5
      <4>3. r[j - d] = gaps[j]
        <5>1. (j - d) + d = j
          BY <1>1, <1>4
        <5> QED
          BY <5>1, <4>2, <1>f
      <4> QED
        BY <4>1, <4>2, <4>3, <1>5 DEF Lacks
    <3> QED
      BY <3>1, <3>2, <3>3, <2>2 DEF Accounted, Known
  <2> QED
    BY <2>1, <2>2
<1>10. Len(r) <= MaxGaps
  BY <1>1, <1>5
<1> QED
  BY <1>1, <1>5, <1>6, <1>7, <1>8, <1>9, <1>10 DEF Accounted

LEMMA NotedAccounts ==
  ASSUME NEW events, NEW gaps, NEW to \in Nat, NEW last \in Nat, last < to,
         Accounted(events, gaps, last), Below(gaps, last)
  PROVE  Accounted(events, Noted(gaps, last + 1, to), to)
<1>1. gaps \in Seq(Hole) /\ Len(gaps) <= MaxGaps
  BY DEF Accounted
<1>2. \A j \in DOMAIN gaps : gaps[j][2] + 1 < last + 1
  BY <1>1 DEF Hole, Below
<1>3. \E d : HoleAdded(gaps, last + 1, to, Noted(gaps, last + 1, to), d)
  <2>1. last + 1 \in Nat \ {0}
    OBVIOUS
  <2> QED
    BY <1>1, <1>2, <2>1, NotedIsLast
<1> QED
  BY <1>3, HoleAddedAccounts

\* evictOldest takes the oldest events and the holes that end before the last of them.
LEMMA EvictedAccounts ==
  ASSUME NEW b \in Buffer, NEW top, Accounted(b.events, b.gaps, top),
         NEW k \in 1 .. Len(b.events) - 1
  PROVE  LET v == Evicted(b, k)
         IN /\ v.events = SubSeq(b.events, k + 1, Len(b.events))
            /\ v.base.volume = b.events[k].volume
            /\ v \in Buffer
            /\ Accounted(v.events, v.gaps, top)
            /\ \A last : Below(b.gaps, last) => Below(v.gaps, last)
<1> DEFINE events == b.events
           gaps == b.gaps
           oldest == events[k].seq
           I == {n \in DOMAIN gaps : gaps[n][2] > oldest}
           rest == SubSeq(events, k + 1, Len(events))
           kept == Filtered(gaps, I)
<1>1. /\ events \in Seq(Event) /\ events # <<>> /\ gaps \in Seq(Hole) /\ Len(gaps) <= MaxGaps
      /\ b.printsAtHead \in Nat \ {0} /\ b.base \in [volume : Nat, prints : Nat]
      /\ k \in Nat \ {0} /\ Len(events) \in Nat /\ k < Len(events)
      /\ DOMAIN events = 1 .. Len(events) /\ k \in DOMAIN events
  BY DEF Accounted, Buffer
<1>2. \A i \in DOMAIN events : events[i] \in Event /\ events[i].seq \in Nat \ {0}
                               /\ events[i].volume \in Nat
  <2>1. \A i \in DOMAIN events : events[i] \in Event
    BY <1>1
  <2> QED
    BY <2>1 DEF Event
<1>3. Evicted(b, k) = [b EXCEPT !.events = rest, !.printsAtHead = b.printsAtHead + k,
                                !.base = [volume |-> events[k].volume,
                                          prints |-> b.printsAtHead + k - 1],
                                !.gaps = kept]
  BY <1>1 DEF Evicted
<1>4. Evicted(b, k).events = rest /\ Evicted(b, k).gaps = kept
      /\ Evicted(b, k).base.volume = events[k].volume
  <2> HIDE DEF rest, kept
  <2> QED
    BY <1>3 DEF Buffer
<1>5. /\ rest \in Seq(Event) /\ Len(rest) = Len(events) - k
      /\ \A i \in 1 .. Len(events) - k : rest[i] = events[i + k]
  BY <1>1
<1>6. /\ kept \in Seq(Hole) /\ Len(kept) = Cardinality(I)
      /\ Cardinality(I) \in 0 .. Len(gaps)
      /\ \E place \in [1 .. Cardinality(I) -> I] :
           /\ \A m, n \in 1 .. Cardinality(I) : m < n => place[m] < place[n]
           /\ \A i \in I : \E n \in 1 .. Cardinality(I) : place[n] = i
           /\ \A n \in 1 .. Cardinality(I) : kept[n] = gaps[place[n]]
  <2>1. I \in SUBSET DOMAIN gaps
    OBVIOUS
  <2>2. gaps \in Seq(Hole)
    BY <1>1
  <2> HIDE DEF I, gaps
  <2> QED
    BY <2>1, <2>2, FilteredKeepsOrder
<1> HIDE DEF events, gaps, oldest, rest, kept
<1>7. PICK place \in [1 .. Cardinality(I) -> I] :
           /\ \A m, n \in 1 .. Cardinality(I) : m < n => place[m] < place[n]
           /\ \A i \in I : \E n \in 1 .. Cardinality(I) : place[n] = i
           /\ \A n \in 1 .. Cardinality(I) : kept[n] = gaps[place[n]]
  BY <1>6
<1>8. /\ Cardinality(I) \in Nat /\ DOMAIN kept = 1 .. Cardinality(I) /\ Len(kept) <= MaxGaps
      /\ DOMAIN gaps = 1 .. Len(gaps) /\ Len(gaps) \in Nat /\ MaxGaps \in Nat \ {0}
  BY <1>1, <1>6, LiveRewindAssumption
<1>9. \A j \in DOMAIN gaps : gaps[j][1] \in Nat /\ gaps[j][2] \in Nat
  <2>1. \A j \in DOMAIN gaps : gaps[j] \in Hole
    BY <1>1
  <2> QED
    BY <2>1 DEF Hole
<1>10. oldest \in Nat /\ oldest = events[k].seq
  BY <1>1, <1>2 DEF oldest
<1>11. \A n \in DOMAIN kept : place[n] \in DOMAIN gaps /\ kept[n] = gaps[place[n]]
                              /\ gaps[place[n]][2] > oldest
  BY <1>7, <1>8 DEF I
<1>12. Ascends(rest)
  <2> SUFFICES ASSUME NEW m \in DOMAIN rest, NEW n \in DOMAIN rest, m < n
               PROVE  rest[m].seq < rest[n].seq
    BY DEF Ascends
  <2>1. m \in 1 .. Len(events) - k /\ n \in 1 .. Len(events) - k
    BY <1>1, <1>5
  <2>2. m + k \in DOMAIN events /\ n + k \in DOMAIN events /\ m + k < n + k
    BY <2>1, <1>1, SMTT(30)
  <2>3. rest[m] = events[m + k] /\ rest[n] = events[n + k]
    BY <2>1, <1>5
  <2> QED
    BY <2>2, <2>3 DEF Accounted, Ascends, events
<1>13. Apart(kept)
  <2>1. ASSUME NEW i \in DOMAIN kept PROVE kept[i][1] <= kept[i][2]
    BY <1>11 DEF Accounted, Apart, gaps
  <2>2. ASSUME NEW i \in DOMAIN kept, NEW j \in DOMAIN kept, i < j PROVE kept[i][2] < kept[j][1]
    <3>1. place[i] < place[j]
      BY <2>2, <1>7, <1>8
    <3> QED
      BY <3>1, <1>11 DEF Accounted, Apart, gaps
  <2> QED
    BY <2>1, <2>2 DEF Apart
<1>14. Known(rest, kept, top)
  <2> SUFFICES ASSUME NEW n \in Nat, n <= top, InView(rest, kept, n)
               PROVE  Has(rest, n) <=> ~Lacks(kept, n)
    BY DEF Known
  <2>1. oldest < n /\ events[1].seq <= n
    <3>1. 1 \in 1 .. Len(events) - k /\ rest[1] = events[1 + k]
      BY <1>1, <1>5
    <3>2. 1 + k \in DOMAIN events /\ 1 \in DOMAIN events /\ k < 1 + k
      BY <1>1
    <3>3. oldest < events[1 + k].seq
      BY <1>1, <1>10, <3>2 DEF Accounted, Ascends, events
    <3>4. events[1].seq <= oldest
      <4>1. CASE k = 1
        BY <4>1, <1>1, <1>2, <1>10
      <4>2. CASE k # 1
        <5>1. 1 < k
          BY <4>2, <1>1
        <5>2. events[1].seq < events[k].seq
          BY <5>1, <3>2, <1>1 DEF Accounted, Ascends, events
        <5> QED
          BY <5>2, <3>2, <1>1, <1>2, <1>10, SMTT(30)
      <4> QED
        BY <4>1, <4>2
    <3>5. events[1 + k].seq <= n
      BY <3>1 DEF InView
    <3>6. events[1].seq \in Nat /\ events[1 + k].seq \in Nat
      BY <3>2, <1>2
    <3> QED
      BY <3>3, <3>4, <3>5, <3>6, <1>10
  <2>2. Has(rest, n) <=> Has(events, n)
    <3>1. ASSUME Has(rest, n) PROVE Has(events, n)
      <4>1. PICK i \in DOMAIN rest : rest[i].seq = n
        BY <3>1 DEF Has
      <4>2. i \in 1 .. Len(events) - k
        BY <1>1, <1>5
      <4>3. i + k \in DOMAIN events /\ rest[i] = events[i + k]
        BY <4>2, <1>1, <1>5
      <4> QED
        BY <4>1, <4>3 DEF Has
    <3>2. ASSUME Has(events, n) PROVE Has(rest, n)
      <4>1. PICK i \in DOMAIN events : events[i].seq = n
        BY <3>2 DEF Has
      <4>2. k < i
        <5>1. i < k => events[i].seq < events[k].seq
          BY <1>1 DEF Accounted, Ascends, events
        <5> QED
          BY <5>1, <4>1, <2>1, <1>1, <1>2, <1>10
      <4>3. i - k \in 1 .. Len(events) - k /\ (i - k) + k = i
        BY <4>2, <1>1
      <4>4. i - k \in DOMAIN rest /\ rest[i - k] = events[i]
        BY <4>3, <1>5
      <4> QED
        BY <4>1, <4>4 DEF Has
    <3> QED
      BY <3>1, <3>2
  <2>3. Lacks(kept, n) <=> Lacks(gaps, n)
    <3>1. ASSUME Lacks(kept, n) PROVE Lacks(gaps, n)
      BY <3>1, <1>11 DEF Lacks
    <3>2. ASSUME Lacks(gaps, n) PROVE Lacks(kept, n)
      <4>1. PICK j \in DOMAIN gaps : gaps[j][1] <= n /\ n <= gaps[j][2]
        BY <3>2 DEF Lacks
      <4>2. j \in I
        BY <4>1, <2>1, <1>9, <1>10
      <4>3. PICK m \in 1 .. Cardinality(I) : place[m] = j
        BY <4>2, <1>7
      <4> QED
        BY <4>1, <4>3, <1>8, <1>11 DEF Lacks
    <3> QED
      BY <3>1, <3>2
  <2>4. InView(events, gaps, n)
    <3> SUFFICES ASSUME Len(gaps) = MaxGaps PROVE gaps[1][1] <= n
      BY <2>1 DEF InView
    <3>1. 1 \in DOMAIN gaps
      BY <1>8
    <3>2. \A j \in DOMAIN gaps : gaps[1][1] <= gaps[j][1] /\ gaps[1][1] <= gaps[j][2]
      <4>1. /\ \A i \in DOMAIN gaps : gaps[i][1] <= gaps[i][2]
            /\ \A i, j \in DOMAIN gaps : i < j => gaps[i][2] < gaps[j][1]
        BY DEF Accounted, Apart, gaps
      <4> SUFFICES ASSUME NEW j \in DOMAIN gaps
                   PROVE  gaps[1][1] <= gaps[j][1] /\ gaps[1][1] <= gaps[j][2]
        OBVIOUS
      <4>2. CASE j = 1
        BY <4>1, <4>2, <1>9
      <4>3. CASE j # 1
        <5>1. 1 < j
          BY <4>3, <1>8
        <5> QED
          BY <5>1, <3>1, <4>1, <1>9
      <4> QED
        BY <4>2, <4>3
    <3>3. CASE I = DOMAIN gaps
      <4>1. Cardinality(I) = Len(gaps)
        <5> DEFINE N == Len(gaps)
        <5>1. N \in Nat
          BY <1>8
        <5> HIDE DEF N
        <5>2. Cardinality(1 .. N) = N
          BY <5>1, FS_Interval
        <5> QED
          BY <5>2, <3>3, <1>8 DEF N
      <4>2. Len(kept) = MaxGaps /\ 1 \in DOMAIN kept
        BY <4>1, <1>6, <1>8
      <4>3. kept[1][1] <= n
        BY <4>2 DEF InView
      <4>4. place[1] \in DOMAIN gaps /\ kept[1] = gaps[place[1]]
        BY <4>2, <1>11
      <4>5. gaps[1][1] <= gaps[place[1]][1]
        BY <4>4, <3>2
      <4>6. gaps[place[1]][1] \in Nat /\ gaps[1][1] \in Nat
        BY <4>4, <3>1, <1>9
      <4> QED
        BY <4>3, <4>4, <4>5, <4>6
    <3>4. CASE I # DOMAIN gaps
      <4>1. PICK j \in DOMAIN gaps : ~(gaps[j][2] > oldest)
        BY <3>4
      <4> QED
        BY <4>1, <3>1, <3>2, <2>1, <1>9, <1>10, SMTT(30)
    <3> QED
      BY <3>3, <3>4
  <2> QED
    BY <2>2, <2>3, <2>4 DEF Accounted, Known, events, gaps
<1>15. \A i \in DOMAIN rest : rest[i].seq <= top
  <2> SUFFICES ASSUME NEW i \in DOMAIN rest PROVE rest[i].seq <= top
    OBVIOUS
  <2>1. i \in 1 .. Len(events) - k
    BY <1>1, <1>5
  <2>2. i + k \in DOMAIN events /\ rest[i] = events[i + k]
    BY <2>1, <1>1, <1>5
  <2> QED
    BY <2>2 DEF Accounted, events
<1>16. \A j \in DOMAIN kept : kept[j][2] <= top
  BY <1>11 DEF Accounted, gaps
<1>17. rest # <<>>
  BY <1>1, <1>5
<1>18. Accounted(rest, kept, top)
  BY <1>5, <1>6, <1>8, <1>12, <1>13, <1>14, <1>15, <1>16, <1>17 DEF Accounted
<1>19. Evicted(b, k) \in Buffer
  <2>1. b.printsAtHead + k \in Nat \ {0} /\ b.printsAtHead + k - 1 \in Nat
    BY <1>1
  <2>2. events[k].volume \in Nat
    BY <1>1, <1>2
  <2> DEFINE base == [volume |-> events[k].volume, prints |-> b.printsAtHead + k - 1]
             head == b.printsAtHead + k
  <2>3. base \in [volume : Nat, prints : Nat] /\ head \in Nat \ {0}
    BY <2>1, <2>2
  <2>4. Evicted(b, k) = [b EXCEPT !.events = rest, !.printsAtHead = head, !.base = base,
                                  !.gaps = kept]
    BY <1>3
  <2> HIDE DEF base, head
  <2> QED
    BY <2>3, <2>4, <1>5, <1>6 DEF Buffer
<1>20. \A last : Below(gaps, last) => Below(kept, last)
  BY <1>11 DEF Below
<1> QED
  BY <1>4, <1>18, <1>19, <1>20 DEF rest, events, gaps

\* A sequence without its first k entries.
LEMMA RestOfSequence ==
  ASSUME NEW T, NEW s \in Seq(T), NEW k \in Nat, k < Len(s)
  PROVE  LET rest == SubSeq(s, k + 1, Len(s))
         IN /\ rest \in Seq(T) /\ Len(rest) = Len(s) - k
            /\ \A i \in 1 .. Len(s) - k : rest[i] = s[i + k]
OBVIOUS

\* Evicting moves the base of the totals with the oldest event.
LEMMA EvictedTotals ==
  ASSUME NEW b \in Buffer, NEW top, Accounted(b.events, b.gaps, top),
         Totals(b.events, b.base.volume), NEW k \in 1 .. Len(b.events) - 1
  PROVE  LET v == Evicted(b, k)
         IN /\ Totals(v.events, v.base.volume)
            /\ Len(v.events) = Len(b.events) - k
            /\ v.events[Len(v.events)] = b.events[Len(b.events)]
<1> DEFINE v == Evicted(b, k)
           events == b.events
<1>1. v.events = SubSeq(events, k + 1, Len(events)) /\ v.base.volume = events[k].volume
  BY EvictedAccounts
<1>2. /\ events \in Seq(Event) /\ k \in Nat \ {0} /\ Len(events) \in Nat /\ k < Len(events)
      /\ DOMAIN events = 1 .. Len(events)
  BY DEF Accounted
<1> HIDE DEF v, events
<1>3. /\ v.events \in Seq(Event) /\ Len(v.events) = Len(events) - k
      /\ DOMAIN v.events = 1 .. Len(events) - k
      /\ \A i \in 1 .. Len(events) - k : v.events[i] = events[i + k]
  <2> DEFINE rest == SubSeq(events, k + 1, Len(events))
  <2>1. /\ rest \in Seq(Event) /\ Len(rest) = Len(events) - k
        /\ \A i \in 1 .. Len(events) - k : rest[i] = events[i + k]
    <3>1. events \in Seq(Event) /\ k \in Nat /\ k < Len(events)
      BY <1>2
    <3> QED
      BY <3>1, RestOfSequence
  <2> HIDE DEF rest
  <2>2. v.events = rest
    BY <1>1 DEF rest
  <2> QED
    BY <2>1, <2>2
<1>4. v.events[Len(v.events)] = events[Len(events)]
  <2>1. Len(events) - k \in 1 .. Len(events) - k /\ (Len(events) - k) + k = Len(events)
    BY <1>2
  <2> QED
    BY <2>1, <1>3
<1>5. Totals(v.events, v.base.volume)
  <2> SUFFICES ASSUME NEW i \in DOMAIN v.events
               PROVE  v.events[i].volume
                        = (IF i = 1 THEN v.base.volume ELSE v.events[i - 1].volume)
                          + v.events[i].seq
    BY DEF Totals
  <2>0. i \in 1 .. Len(events) - k
    BY <1>3
  <2>1. i \in 1 .. Len(events) - k /\ i + k \in DOMAIN events /\ i + k # 1
    BY <2>0, <1>2
  <2>2. events[i + k].volume = events[i + k - 1].volume + events[i + k].seq
    BY <2>1 DEF Totals, events
  <2>3. v.events[i] = events[i + k]
    BY <2>1, <1>3
  <2>4. CASE i = 1
    <3>1. i + k - 1 = k
      BY <2>4, <1>2
    <3> QED
      BY <2>2, <2>3, <2>4, <3>1, <1>1
  <2>5. CASE i # 1
    <3>1. i - 1 \in 1 .. Len(events) - k /\ (i - 1) + k = i + k - 1
      BY <2>1, <2>5, <1>2
    <3>2. v.events[i - 1] = events[i + k - 1]
      BY <3>1, <1>3
    <3> QED
      BY <2>2, <2>3, <2>5, <3>2
  <2> QED
    BY <2>4, <2>5
<1> QED
  BY <1>3, <1>4, <1>5 DEF v, events

\* A buffer with room takes the next event.
TakesEvent(room, e, before) ==
  /\ room \in Buffer /\ Len(room.events) < Capacity
  /\ Totals(room.events, room.base.volume)
  /\ room.events = <<>> => room.gaps = <<>>
  /\ room.events # <<>> => Accounted(room.events, room.gaps, e.seq - 1)
  /\ e \in Event /\ e.volume = before + e.seq
  /\ before = IF room.events = <<>> THEN room.base.volume
              ELSE room.events[Len(room.events)].volume

LEMMA AppendAccounts ==
  ASSUME NEW room, NEW e, NEW before, TakesEvent(room, e, before)
  PROVE  LET a == [room EXCEPT !.events = Append(room.events, e)]
         IN /\ a \in Buffer /\ Len(a.events) \in 1 .. Capacity
            /\ a.events[Len(a.events)] = e
            /\ Totals(a.events, a.base.volume)
            /\ Accounted(a.events, a.gaps, e.seq) /\ Below(a.gaps, e.seq)
<1> DEFINE events == room.events
           gaps == room.gaps
           longer == Append(events, e)
           a == [room EXCEPT !.events = longer]
<1>1. /\ room \in Buffer /\ events \in Seq(Event) /\ gaps \in Seq(Hole) /\ e \in Event
      /\ Len(events) \in Nat /\ DOMAIN events = 1 .. Len(events) /\ Len(events) < Capacity
      /\ Capacity \in Nat /\ DOMAIN gaps = 1 .. Len(gaps)
  BY LiveRewindAssumption DEF TakesEvent, Buffer
<1>2. /\ a.events = longer /\ a.gaps = gaps /\ a.base = room.base
      /\ longer \in Seq(Event) /\ a \in Buffer
  <2>1. longer \in Seq(Event)
    BY <1>1
  <2> HIDE DEF longer
  <2> QED
    BY <2>1, <1>1 DEF Buffer
<1>3. /\ Len(longer) = Len(events) + 1 /\ longer[Len(events) + 1] = e
      /\ DOMAIN longer = 1 .. Len(events) + 1
      /\ \A i \in 1 .. Len(events) : longer[i] = events[i]
  BY <1>1
<1>4. \A i \in DOMAIN events : events[i] \in Event
  BY <1>1
<1> HIDE DEF events, gaps, longer, a
<1>5. e.seq \in Nat \ {0} /\ \A i \in DOMAIN events : events[i].seq \in Nat \ {0}
  BY <1>1, <1>4, SMTT(30) DEF Event
<1>6. \A i \in DOMAIN events : events[i].seq < e.seq
  <2>1. CASE events = <<>>
    BY <2>1
  <2>2. CASE events # <<>>
    <3>1. \A i \in DOMAIN events : events[i].seq <= e.seq - 1
      BY <2>2 DEF TakesEvent, Accounted, events
    <3> QED
      BY <3>1, <1>5
  <2> QED
    BY <2>1, <2>2
<1>7. \A j \in DOMAIN gaps : gaps[j][2] < e.seq
  <2>1. CASE events = <<>>
    BY <2>1 DEF TakesEvent, events, gaps
  <2>2. CASE events # <<>>
    <3>1. \A j \in DOMAIN gaps : gaps[j][2] <= e.seq - 1
      BY <2>2 DEF TakesEvent, Accounted, events, gaps
    <3>2. \A j \in DOMAIN gaps : gaps[j] \in Hole
      BY <1>1
    <3> QED
      BY <3>1, <3>2, <1>5 DEF Hole
  <2> QED
    BY <2>1, <2>2
<1>8. Ascends(longer)
  <2> SUFFICES ASSUME NEW m \in DOMAIN longer, NEW n \in DOMAIN longer, m < n
               PROVE  longer[m].seq < longer[n].seq
    BY DEF Ascends
  <2>1. m \in DOMAIN events /\ longer[m] = events[m]
    BY <1>1, <1>3
  <2>2. CASE n = Len(events) + 1
    BY <2>1, <2>2, <1>3, <1>6
  <2>3. CASE n # Len(events) + 1
    <3>1. n \in DOMAIN events /\ longer[n] = events[n]
      BY <2>3, <1>1, <1>3
    <3>2. events # <<>>
      BY <3>1, <1>1
    <3> QED
      BY <2>1, <3>1, <3>2 DEF TakesEvent, Accounted, Ascends, events
  <2> QED
    BY <2>2, <2>3
<1>9. Apart(gaps) /\ Len(gaps) <= MaxGaps
  <2>1. CASE events = <<>>
    <3>1. gaps = <<>>
      BY <2>1 DEF TakesEvent, events, gaps
    <3>2. MaxGaps \in Nat
      BY LiveRewindAssumption
    <3> QED
      BY <3>1, <3>2 DEF Apart
  <2>2. CASE events # <<>>
    BY <2>2 DEF TakesEvent, Accounted, events, gaps
  <2> QED
    BY <2>1, <2>2
<1>10. \A i \in DOMAIN longer : longer[i].seq <= e.seq
  <2> SUFFICES ASSUME NEW i \in DOMAIN longer PROVE longer[i].seq <= e.seq
    OBVIOUS
  <2>1. CASE i = Len(events) + 1
    BY <2>1, <1>3, <1>5
  <2>2. CASE i # Len(events) + 1
    <3>1. i \in DOMAIN events /\ longer[i] = events[i]
      BY <2>2, <1>1, <1>3
    <3> QED
      BY <3>1, <1>5, <1>6
  <2> QED
    BY <2>1, <2>2
<1>11. \A j \in DOMAIN gaps : gaps[j][2] <= e.seq
  <2>1. \A j \in DOMAIN gaps : gaps[j] \in Hole
    BY <1>1
  <2> QED
    BY <2>1, <1>5, <1>7 DEF Hole
<1>12. Known(longer, gaps, e.seq)
  <2> SUFFICES ASSUME NEW n \in Nat, n <= e.seq, InView(longer, gaps, n)
               PROVE  Has(longer, n) <=> ~Lacks(gaps, n)
    BY DEF Known
  <2>1. CASE n = e.seq
    <3>1. Len(events) + 1 \in DOMAIN longer
      BY <1>1, <1>3
    <3>2. Has(longer, n)
      BY <2>1, <3>1, <1>3 DEF Has
    <3>3. ~Lacks(gaps, n)
      <4> SUFFICES ASSUME NEW j \in DOMAIN gaps, n <= gaps[j][2] PROVE FALSE
        BY DEF Lacks
      <4>1. gaps[j] \in Hole
        BY <1>1
      <4> QED
        BY <4>1, <2>1, <1>7, <1>5 DEF Hole
    <3> QED
      BY <3>2, <3>3
  <2>2. CASE n # e.seq
    <3>1. n <= e.seq - 1
      BY <2>2, <1>5
    <3>2. events # <<>>
      <4> SUFFICES ASSUME events = <<>> PROVE FALSE
        OBVIOUS
      <4>1. longer[1] = e
        BY <1>1, <1>3
      <4> QED
        BY <4>1, <3>1, <1>5 DEF InView
    <3>3. 1 \in DOMAIN events /\ longer[1] = events[1]
      BY <3>2, <1>1, <1>3
    <3>4. InView(events, gaps, n)
      BY <3>3 DEF InView
    <3>5. Has(events, n) <=> ~Lacks(gaps, n)
      BY <3>1, <3>2, <3>4 DEF TakesEvent, Accounted, Known, events, gaps
    <3>6. Has(longer, n) <=> Has(events, n)
      <4>1. ASSUME Has(longer, n) PROVE Has(events, n)
        <5>1. PICK i \in DOMAIN longer : longer[i].seq = n
          BY <4>1 DEF Has
        <5>2. i # Len(events) + 1
          BY <5>1, <2>2, <1>3
        <5>3. i \in DOMAIN events /\ longer[i] = events[i]
          BY <5>2, <1>1, <1>3
        <5> QED
          BY <5>1, <5>3 DEF Has
      <4>2. ASSUME Has(events, n) PROVE Has(longer, n)
        <5>1. PICK i \in DOMAIN events : events[i].seq = n
          BY <4>2 DEF Has
        <5>2. i \in DOMAIN longer /\ longer[i] = events[i]
          BY <1>1, <1>3
        <5> QED
          BY <5>1, <5>2 DEF Has
      <4> QED
        BY <4>1, <4>2
    <3> QED
      BY <3>5, <3>6
  <2> QED
    BY <2>1, <2>2
<1>13. longer # <<>>
  BY <1>1, <1>3
<1>14. Accounted(longer, gaps, e.seq)
  BY <1>1, <1>2, <1>8, <1>9, <1>10, <1>11, <1>12, <1>13 DEF Accounted
<1>15. Totals(longer, room.base.volume)
  <2> SUFFICES ASSUME NEW i \in DOMAIN longer
               PROVE  longer[i].volume
                        = (IF i = 1 THEN room.base.volume ELSE longer[i - 1].volume) + longer[i].seq
    BY DEF Totals
  <2>1. CASE i = Len(events) + 1
    <3>1. longer[i] = e
      BY <2>1, <1>3
    <3>2. before = IF i = 1 THEN room.base.volume ELSE longer[i - 1].volume
      <4>1. CASE events = <<>>
        <5>1. i = 1
          BY <4>1, <2>1
        <5> QED
          BY <5>1, <4>1 DEF TakesEvent, events
      <4>2. CASE events # <<>>
        <5>1. Len(events) \in 1 .. Len(events) /\ i # 1 /\ i - 1 = Len(events)
          BY <4>2, <2>1, <1>1
        <5>2. longer[i - 1] = events[Len(events)]
          BY <5>1, <1>3
        <5> QED
          BY <5>1, <5>2, <4>2 DEF TakesEvent, events
      <4> QED
        BY <4>1, <4>2
    <3>3. e.volume = before + e.seq
      BY DEF TakesEvent
    <3> QED
      BY <3>1, <3>2, <3>3
  <2>2. CASE i # Len(events) + 1
    <3>1. i \in DOMAIN events /\ longer[i] = events[i]
      BY <2>2, <1>1, <1>3
    <3>2. i # 1 => longer[i - 1] = events[i - 1]
      <4> SUFFICES ASSUME i # 1 PROVE longer[i - 1] = events[i - 1]
        OBVIOUS
      <4>1. i - 1 \in 1 .. Len(events)
        BY <3>1, <1>1
      <4> QED
        BY <4>1, <1>3
    <3>3. events[i].volume = (IF i = 1 THEN room.base.volume ELSE events[i - 1].volume) + events[i].seq
      BY <3>1 DEF TakesEvent, Totals, events
    <3> QED
      BY <3>1, <3>2, <3>3
  <2> QED
    BY <2>1, <2>2
<1>16. Len(longer) \in 1 .. Capacity /\ longer[Len(longer)] = e
  BY <1>1, <1>3
<1>17. Below(gaps, e.seq)
  BY <1>7 DEF Below
<1> QED
  BY <1>2, <1>14, <1>15, <1>16, <1>17 DEF a, longer, events, gaps

\* The greatest of a bounded set of numbers.
LEMMA MaxOfNumbers ==
  ASSUME NEW T, T \subseteq Nat, T # {}, NEW N \in Nat, \A x \in T : x <= N
  PROVE  Max(T) \in T /\ \A y \in T : y <= Max(T)
<1>1. \E x \in T : \A y \in T : y <= x
  BY GreatestNumber
<1>2. \E x \in T : \A y \in T : x >= y
  BY <1>1
<1>3. Max(T) \in T /\ \A y \in T : Max(T) >= y
  BY <1>2 DEF Max
<1> QED
  BY <1>3

\* The newest event is not older than the span before itself: it stays.
LEMMA ExpiredKeeps ==
  ASSUME NEW a, a \in Buffer, Len(a.events) \in 1 .. Capacity,
         NEW e \in Event, a.events[Len(a.events)] = e,
         Totals(a.events, a.base.volume), Accounted(a.events, a.gaps, e.seq), Below(a.gaps, e.seq)
  PROVE  BufferInv(Expired(a, e.at)) /\ Expired(a, e.at).events # <<>>
<1> DEFINE Old(n) == a.events[n].at + BufferSpan < e.at
           T == {k \in 0 .. Len(a.events) : \A n \in 1 .. k : Old(n)}
           k == Max(T)
<1>1. Len(a.events) \in Nat \ {0} /\ Capacity \in Nat /\ Len(a.events) <= Capacity
  BY LiveRewindAssumption
<1>2. k \in T
  <2>1. T \subseteq Nat /\ 0 \in T /\ \A x \in T : x <= Len(a.events)
    BY <1>1
  <2> HIDE DEF T
  <2> QED
    BY <2>1, <1>1, MaxOfNumbers
<1>3. ~Old(Len(a.events))
  <2>1. e.at \in Nat /\ BufferSpan \in Nat
    BY LiveRewindAssumption DEF Event
  <2> QED
    BY <2>1
<1>4. k \in 0 .. Len(a.events) - 1
  <2>1. k \in 0 .. Len(a.events) /\ \A n \in 1 .. k : Old(n)
    BY <1>2
  <2> HIDE DEF k, Old
  <2>2. k # Len(a.events)
    BY <2>1, <1>1, <1>3
  <2> QED
    BY <2>1, <2>2, <1>1
<1>5. Expired(a, e.at) = Evicted(a, k)
  BY DEF Expired
<1> HIDE DEF k
<1>6. CASE k = 0
  <2>1. Evicted(a, k) = a
    BY <1>6 DEF Evicted
  <2>2. a.events # <<>>
    BY <1>1
  <2> QED
    BY <2>1, <2>2, <1>1, <1>5 DEF BufferInv
<1>7. CASE k # 0
  <2> DEFINE v == Evicted(a, k)
  <2>1. k \in 1 .. Len(a.events) - 1
    BY <1>1, <1>4, <1>7
  <2>2. /\ v \in Buffer /\ Accounted(v.events, v.gaps, e.seq) /\ Below(v.gaps, e.seq)
    BY <2>1, EvictedAccounts
  <2>3. /\ Totals(v.events, v.base.volume)
        /\ Len(v.events) = Len(a.events) - k /\ v.events[Len(v.events)] = e
    BY <2>1, EvictedTotals
  <2> HIDE DEF v
  <2>4. v.events # <<>> /\ Len(v.events) <= Capacity
    <3>1. v.events # <<>>
      BY <2>2 DEF Accounted
    <3>2. Len(a.events) - k <= Capacity
      BY <2>1, <1>1
    <3> QED
      BY <3>1, <3>2, <2>3
  <2>5. BufferInv(v)
    BY <2>2, <2>3, <2>4 DEF BufferInv
  <2> QED
    BY <1>5, <2>4, <2>5 DEF v
<1> QED
  BY <1>6, <1>7

\* push: whatever number comes, the buffer knows what it lacks.
LEMMA PushedKeeps ==
  ASSUME NEW b, BufferInv(b), NEW p, IsPrint(p)
  PROVE  BufferInv(Pushed(b, p)) /\ Pushed(b, p).events # <<>>
<1> DEFINE last == IF b.events = <<>> THEN p.seq - 1 ELSE Last(b.events).seq
           noted == IF Skips(last, p) THEN [b EXCEPT !.gaps = Noted(b.gaps, last + 1, p.seq - 1)] ELSE b
           room == Room(noted)
           before == IF room.events = <<>> THEN room.base.volume ELSE Last(room.events).volume
           event == [symbol |-> p.symbol, run |-> p.run, seq |-> p.seq, at |-> p.at,
                     volume |-> before + Size(p)]
           longer == [room EXCEPT !.events = Append(room.events, event)]
<1>1. Pushed(b, p) = IF p.seq <= last THEN b ELSE Expired(longer, p.at)
  BY DEF Pushed
<1>2. /\ p.seq \in Nat \ {0} /\ Capacity \in Nat \ {0, 1} /\ MaxPrints \in Nat
      /\ p.seq <= MaxPrints
  BY LiveRewindAssumption DEF IsPrint
<1>3. /\ b \in Buffer /\ b.events \in Seq(Event) /\ Len(b.events) \in Nat /\ Len(b.events) <= Capacity
      /\ DOMAIN b.events = 1 .. Len(b.events)
  BY DEF BufferInv, Buffer
<1>4. b.events # <<>> => last = b.events[Len(b.events)].seq /\ last \in Nat
  <2> SUFFICES ASSUME b.events # <<>>
               PROVE  last = b.events[Len(b.events)].seq /\ last \in Nat
    OBVIOUS
  <2>1. Len(b.events) \in DOMAIN b.events
    BY <1>3
  <2>2. b.events[Len(b.events)] \in Event
    BY <2>1, <1>3
  <2> QED
    BY <2>2 DEF Event, Last
<1>5. CASE p.seq <= last
  <2>1. b.events # <<>>
    BY <1>2, <1>5
  <2> QED
    BY <2>1, <1>1, <1>5
<1>6. CASE ~(p.seq <= last)
  <2>1. /\ room \in Buffer /\ Len(room.events) < Capacity
        /\ Totals(room.events, room.base.volume)
        /\ room.events = <<>> => room.gaps = <<>>
        /\ room.events # <<>> => Accounted(room.events, room.gaps, p.seq - 1)
    <3>1. CASE b.events = <<>>
      <4>1. last = p.seq - 1
        BY <3>1
      <4>2. ~Skips(last, p)
        BY <4>1, <1>2 DEF Skips
      <4>3. noted = b
        BY <4>2
      <4>4. Len(b.events) # Capacity /\ Len(b.events) < Capacity
        BY <3>1, <1>2
      <4>5. room = b
        BY <4>3, <4>4 DEF Room
      <4> HIDE DEF room
      <4> QED
        BY <3>1, <4>4, <4>5 DEF BufferInv
    <3>2. CASE b.events # <<>>
      <4> HIDE DEF last
      <4>1. Accounted(b.events, b.gaps, last) /\ Below(b.gaps, last)
            /\ Totals(b.events, b.base.volume) /\ last \in Nat
        BY <3>2, <1>4 DEF BufferInv
      <4>2. /\ noted \in Buffer /\ noted.events = b.events /\ noted.base = b.base
            /\ Accounted(b.events, noted.gaps, p.seq - 1)
        <5>1. CASE Skips(last, p)
          <6> DEFINE gaps == Noted(b.gaps, last + 1, p.seq - 1)
          <6>1. p.seq - 1 \in Nat /\ last < p.seq - 1
            BY <5>1, <4>1, <1>2 DEF Skips
          <6>2. Accounted(b.events, gaps, p.seq - 1)
            BY <6>1, <4>1, NotedAccounts
          <6>3. gaps \in Seq(Hole) /\ noted = [b EXCEPT !.gaps = gaps]
            BY <6>2, <5>1 DEF Accounted
          <6> HIDE DEF gaps, noted
          <6> QED
            BY <6>2, <6>3, <1>3 DEF Buffer
        <5>2. CASE ~Skips(last, p)
          <6>1. last = p.seq - 1
            BY <5>2, <1>2, <1>6, <4>1 DEF Skips
          <6>2. noted = b
            BY <5>2
          <6> HIDE DEF noted
          <6> QED
            BY <6>1, <6>2, <4>1, <1>3
        <5> QED
          BY <5>1, <5>2
      <4> HIDE DEF noted
      <4>3. Totals(noted.events, noted.base.volume) /\ Accounted(noted.events, noted.gaps, p.seq - 1)
        BY <4>1, <4>2
      <4>4. CASE Len(noted.events) = Capacity
        <5>1. 1 \in 1 .. Len(noted.events) - 1
          BY <4>4, <1>2
        <5>2. room = Evicted(noted, 1)
          BY <4>4 DEF Room
        <5>3. /\ Evicted(noted, 1) \in Buffer
              /\ Accounted(Evicted(noted, 1).events, Evicted(noted, 1).gaps, p.seq - 1)
          BY <5>1, <4>2, <4>3, EvictedAccounts
        <5>4. /\ Totals(Evicted(noted, 1).events, Evicted(noted, 1).base.volume)
              /\ Len(Evicted(noted, 1).events) = Len(noted.events) - 1
          BY <5>1, <4>2, <4>3, EvictedTotals
        <5> HIDE DEF room
        <5>5. Len(noted.events) - 1 < Capacity
          BY <4>4, <1>2
        <5>6. room.events # <<>>
          BY <5>2, <5>3 DEF Accounted
        <5> QED
          BY <5>2, <5>3, <5>4, <5>5, <5>6
      <4>5. CASE Len(noted.events) # Capacity
        <5>1. room = noted
          BY <4>5 DEF Room
        <5>2. Len(noted.events) < Capacity
          BY <4>2, <4>5, <1>2, <1>3
        <5> HIDE DEF room
        <5> QED
          BY <5>1, <5>2, <4>2, <4>3, <3>2
      <4> QED
        BY <4>4, <4>5
    <3> QED
      BY <3>1, <3>2
  <2> HIDE DEF room
  <2>2. before \in Nat /\ (before = IF room.events = <<>> THEN room.base.volume
                                   ELSE room.events[Len(room.events)].volume)
    <3>1. CASE room.events = <<>>
      BY <3>1, <2>1 DEF Buffer
    <3>2. CASE room.events # <<>>
      <4>1. room.events \in Seq(Event)
        BY <2>1 DEF Buffer
      <4>2. room.events[Len(room.events)] \in Event
        BY <4>1, <3>2
      <4> QED
        BY <4>2, <3>2 DEF Event, Last
    <3> QED
      BY <3>1, <3>2
  <2> HIDE DEF before
  <2>3. event \in Event /\ event.seq = p.seq /\ event.volume = before + event.seq /\ event.at = p.at
    <3>1. before + p.seq \in Nat
      BY <2>2, <1>2
    <3> QED
      BY <3>1 DEF Event, IsPrint, Size
  <2> HIDE DEF event
  <2>4. TakesEvent(room, event, before)
    BY <2>1, <2>2, <2>3 DEF TakesEvent
  <2>5. /\ longer \in Buffer /\ Len(longer.events) \in 1 .. Capacity
        /\ longer.events[Len(longer.events)] = event
        /\ Totals(longer.events, longer.base.volume)
        /\ Accounted(longer.events, longer.gaps, event.seq) /\ Below(longer.gaps, event.seq)
    BY <2>4, AppendAccounts
  <2> HIDE DEF longer
  <2>6. BufferInv(Expired(longer, event.at)) /\ Expired(longer, event.at).events # <<>>
    BY <2>5, <2>3, ExpiredKeeps
  <2> QED
    BY <2>6, <2>3, <1>1, <1>6
<1> QED
  BY <1>5, <1>6

-----------------------------------------------------------------------------
(* Snapshots and backfills push a whole sequence. *)

LEMMA PushedAllKeeps ==
  ASSUME NEW b, BufferInv(b), NEW prints, Len(prints) \in Nat,
         \A n \in 1 .. Len(prints) : IsPrint(prints[n])
  PROVE  BufferInv(PushedAll(b, prints))
<1> DEFINE N == Len(prints)
           S == {x \in Buffer : BufferInv(x)}
           step == [ns \in (1 .. N) \X S |-> Pushed(ns[2], prints[ns[1]])]
           Loop(f) == [n \in 0 .. N |-> IF n = 0 THEN b ELSE Pushed(f[n - 1], prints[n])]
           upto == CHOOSE f : f = Loop(f)
<1>1. ASSUME NEW n \in 1 .. N, NEW x \in S PROVE Pushed(x, prints[n]) \in S
  <2>1. BufferInv(x)
    OBVIOUS
  <2>2. BufferInv(Pushed(x, prints[n]))
    BY <2>1, PushedKeeps
  <2> QED
    BY <2>2 DEF BufferInv
<1>2. b \in S
  BY DEF BufferInv
<1> HIDE DEF S
<1>3. step \in Steps(N, S)
  BY <1>1 DEF Steps
<1>4. PICK f \in [0 .. N -> S] : f[0] = b /\ \A n \in 1 .. N : f[n] = step[<<n, f[n - 1]>>]
  <2>1. N \in Nat
    OBVIOUS
  <2> HIDE DEF step, N
  <2>2. Recursions(N, S, b, step) # {}
    BY <2>1, <1>2, <1>3, RecursionExists
  <2> QED
    BY <2>2 DEF Recursions
<1>5. f = Loop(f)
  <2>1. ASSUME NEW n \in 0 .. N PROVE f[n] = IF n = 0 THEN b ELSE Pushed(f[n - 1], prints[n])
    <3>1. CASE n = 0
      BY <3>1, <1>4
    <3>2. CASE n # 0
      <4>1. n \in 1 .. N /\ n - 1 \in 0 .. N
        BY <3>2
      <4>2. f[n - 1] \in S
        BY <4>1, <1>4
      <4>3. step[<<n, f[n - 1]>>] = Pushed(f[n - 1], prints[n])
        BY <4>1, <4>2
      <4> HIDE DEF step
      <4> QED
        BY <4>1, <4>3, <3>2, <1>4
    <3> QED
      BY <3>1, <3>2
  <2> QED
    BY <2>1
<1>6. upto = Loop(upto)
  <2> HIDE DEF Loop
  <2> QED
    BY <1>5
<1> HIDE DEF upto
<1>7. upto[0] = b /\ \A n \in 1 .. N : upto[n] = Pushed(upto[n - 1], prints[n])
  <2>1. \A n \in 0 .. N : upto[n] = IF n = 0 THEN b ELSE Pushed(upto[n - 1], prints[n])
    BY <1>6
  <2>2. 0 \in 0 .. N /\ \A n \in 1 .. N : n \in 0 .. N /\ n # 0
    OBVIOUS
  <2> QED
    BY <2>1, <2>2
<1>8. upto[N] \in S
  <2> DEFINE G == {n \in 0 .. N : upto[n] \in S}
  <2>1. 0 \in G
    BY <1>2, <1>7
  <2>2. ASSUME NEW n \in 1 .. N, n - 1 \in G PROVE n \in G
    <3>1. upto[n - 1] \in S
      BY <2>2
    <3>2. Pushed(upto[n - 1], prints[n]) \in S
      BY <3>1, <1>1
    <3> QED
      BY <3>2, <1>7
  <2>3. 0 .. N \subseteq G
    <3> HIDE DEF G
    <3> QED
      BY <2>1, <2>2, UpTo
  <2>4. N \in 0 .. N
    OBVIOUS
  <2> QED
    BY <2>3, <2>4
<1>9. PushedAll(b, prints) = upto[N]
  BY DEF PushedAll, upto
<1> QED
  BY <1>8, <1>9 DEF S

LEMMA MaxWithOne ==
  ASSUME NEW m \in Int
  PROVE  Max({1, m}) \in Nat \ {0}
<1>1. CASE m <= 1
  <2>1. \A y \in {1, m} : 1 >= y
    BY <1>1
  <2> QED
    BY <2>1 DEF Max
<1>2. CASE 1 < m
  <2>1. \A y \in {1, m} : m >= y
    BY <1>2
  <2> QED
    BY <2>1, <1>2 DEF Max
<1> QED
  BY <1>1, <1>2

LEMMA MaxOfTwo ==
  ASSUME NEW x \in Nat, NEW y \in Nat
  PROVE  /\ Max({x, y}) \in Nat /\ x <= Max({x, y}) /\ y <= Max({x, y})
         /\ Max({x, y}) \in {x, y}
<1>1. \E m \in {x, y} : \A n \in {x, y} : m >= n
  OBVIOUS
<1>2. Max({x, y}) \in {x, y} /\ \A n \in {x, y} : Max({x, y}) >= n
  BY <1>1 DEF Max
<1> QED
  BY <1>2

LEMMA EventsArePrints ==
  ASSUME NEW e \in Event
  PROVE  IsPrint(e)
BY DEF Event, IsPrint

\* merge rebuilds the buffer from its own events and what has come.
LEMMA MergeKeeps ==
  ASSUME NEW b, BufferInv(b), NEW incoming \in Seq(Trade)
  PROVE  BufferInv(Merge(b, incoming))
<1> DEFINE numbers == {p.seq : p \in ToSet(b.events) \cup ToSet(incoming)}
           place == Ascending(numbers)
           merged == [n \in DOMAIN place |-> Numbered(b, incoming, place[n])]
           filled == Len(merged) - Len(b.events)
           head == Max({1, b.printsAtHead - filled})
           emptied == [Reset(b) EXCEPT !.printsAtHead = head,
                                       !.base = [volume |-> b.base.volume, prints |-> head - 1]]
<1>1. /\ b \in Buffer /\ b.events \in Seq(Event) /\ Len(b.events) \in Nat
      /\ b.printsAtHead \in Nat \ {0} /\ b.base.volume \in Nat
  BY DEF BufferInv, Buffer
<1>2. /\ \A e \in ToSet(b.events) : IsPrint(e)
      /\ \A p \in ToSet(incoming) : IsPrint(p)
  <2>1. \A e \in ToSet(b.events) : e \in Event
    BY <1>1 DEF ToSet
  <2>2. \A p \in ToSet(incoming) : p \in Trade
    BY DEF ToSet
  <2>3. \A p \in Trade : IsPrint(p)
    BY DEF Trade, IsPrint
  <2> QED
    BY <2>1, <2>2, <2>3, EventsArePrints
<1>3. numbers \subseteq 1 .. MaxPrints
  BY <1>2 DEF IsPrint
<1>4. IsFiniteSet(numbers) /\ numbers \subseteq Int
  <2>1. MaxPrints \in Int /\ 1 \in Int
    BY LiveRewindAssumption
  <2>2. IsFiniteSet(1 .. MaxPrints)
    BY <2>1, FS_Interval
  <2> HIDE DEF numbers
  <2>3. numbers \in SUBSET (1 .. MaxPrints)
    BY <1>3
  <2>4. IsFiniteSet(numbers)
    BY <2>2, <2>3, FS_Subset
  <2> QED
    BY <2>1, <2>3, <2>4
<1>5. Cardinality(numbers) \in Nat /\ place \in [1 .. Cardinality(numbers) -> numbers]
  <2> HIDE DEF numbers
  <2> QED
    BY <1>4, AscendingIsOrdered
<1>6. ASSUME NEW n \in numbers PROVE IsPrint(Numbered(b, incoming, n))
  <2>1. CASE \E e \in ToSet(b.events) : e.seq = n
    <3>1. Numbered(b, incoming, n) = CHOOSE e \in ToSet(b.events) : e.seq = n
      BY <2>1 DEF Numbered
    <3>2. (CHOOSE e \in ToSet(b.events) : e.seq = n) \in ToSet(b.events)
      BY <2>1
    <3> QED
      BY <3>1, <3>2, <1>2
  <2>2. CASE ~(\E e \in ToSet(b.events) : e.seq = n)
    <3> DEFINE First(i) == incoming[i].seq = n /\ \A j \in 1 .. i - 1 : incoming[j].seq # n
               first == CHOOSE i \in DOMAIN incoming : First(i)
    <3>1. Numbered(b, incoming, n) = incoming[first]
      BY <2>2 DEF Numbered
    <3>2. \E i \in DOMAIN incoming : First(i)
      <4> DEFINE I == {i \in DOMAIN incoming : incoming[i].seq = n}
      <4>1. I # {} /\ I \subseteq Nat
        BY <2>2 DEF ToSet
      <4>2. PICK i \in I : \A j \in I : i <= j
        <5> HIDE DEF I
        <5> QED
          BY <4>1, LeastNumber
      <4>3. ASSUME NEW j \in 1 .. i - 1 PROVE incoming[j].seq # n
        <5>1. j \in DOMAIN incoming /\ ~(i <= j)
          BY <4>2
        <5> QED
          BY <5>1, <4>2
      <4> QED
        BY <4>2, <4>3
    <3>3. first \in DOMAIN incoming
      <4> HIDE DEF First
      <4> QED
        BY <3>2
    <3> HIDE DEF first
    <3>4. incoming[first] \in ToSet(incoming)
      BY <3>3 DEF ToSet
    <3> QED
      BY <3>1, <3>4, <1>2
  <2> QED
    BY <2>1, <2>2
<1>7. Len(merged) \in Nat /\ \A n \in 1 .. Len(merged) : IsPrint(merged[n])
  <2> HIDE DEF numbers, place
  <2>1. DOMAIN merged = 1 .. Cardinality(numbers)
    BY <1>5
  <2>2. Len(merged) = Cardinality(numbers)
    BY <2>1, <1>5
  <2>3. \A n \in 1 .. Cardinality(numbers) : place[n] \in numbers
                                             /\ merged[n] = Numbered(b, incoming, place[n])
    BY <1>5
  <2> QED
    BY <2>2, <2>3, <1>5, <1>6
<1> HIDE DEF merged
<1>8. head \in Nat \ {0}
  <2>1. b.printsAtHead - filled \in Int
    BY <1>1, <1>7
  <2> QED
    BY <2>1, MaxWithOne
<1> HIDE DEF head
<1>9. BufferInv(emptied)
  <2> DEFINE base == [volume |-> b.base.volume, prints |-> head - 1]
  <2>1. base \in [volume : Nat, prints : Nat]
    BY <1>1, <1>8
  <2>2. emptied = [Reset(b) EXCEPT !.printsAtHead = head, !.base = base]
    OBVIOUS
  <2> HIDE DEF base
  <2>3. emptied \in Buffer /\ emptied.events = <<>> /\ emptied.gaps = <<>>
    <3>1. <<>> \in Seq(Event) /\ <<>> \in Seq(Hole)
      OBVIOUS
    <3> QED
      BY <2>1, <2>2, <3>1, <1>1, <1>8 DEF Reset, Buffer
  <2> HIDE DEF emptied
  <2>4. Len(emptied.events) <= Capacity /\ Totals(emptied.events, emptied.base.volume)
    <3>1. Capacity \in Nat
      BY LiveRewindAssumption
    <3> QED
      BY <2>3, <3>1 DEF Totals
  <2> QED
    BY <2>3, <2>4 DEF BufferInv
<1>10. Merge(b, incoming) = PushedAll(emptied, merged)
  BY DEF Merge, merged, head
<1> HIDE DEF emptied
<1> QED
  BY <1>7, <1>9, <1>10, PushedAllKeeps

\* A buffer that starts over.
LEMMA ResetKeeps ==
  ASSUME NEW b, BufferInv(b)
  PROVE  BufferInv(Reset(b))
<1>1. /\ b \in Buffer /\ Reset(b) \in Buffer /\ Reset(b).events = <<>> /\ Reset(b).gaps = <<>>
  <2>1. <<>> \in Seq(Event) /\ <<>> \in Seq(Hole) /\ b \in Buffer
    BY DEF BufferInv
  <2>2. Reset(b) = [b EXCEPT !.events = <<>>, !.printsAtHead = 1, !.gaps = <<>>]
    BY DEF Reset
  <2>3. Reset(b).events = <<>> /\ Reset(b).gaps = <<>>
    BY <2>1, <2>2 DEF Buffer
  <2>4. Reset(b) \in Buffer
    <3> DEFINE none == <<>>
               one == 1
    <3>1. none \in Seq(Event) /\ none \in Seq(Hole) /\ one \in Nat \ {0}
      BY <2>1
    <3>2. Reset(b) = [b EXCEPT !.events = none, !.printsAtHead = one, !.gaps = none]
      BY <2>2
    <3> HIDE DEF none, one
    <3> QED
      BY <2>1, <3>1, <3>2 DEF Buffer
  <2> QED
    BY <2>1, <2>3, <2>4
<1>2. Capacity \in Nat
  BY LiveRewindAssumption
<1> QED
  BY <1>1, <1>2 DEF BufferInv, Totals

-----------------------------------------------------------------------------
(* What the buffer shows. *)

\* The holes are exactly the numbers in view that are missing.
LEMMA BufferKnowsHoles ==
  ASSUME BufferInv(buffer)
  PROVE  HolesAreKnown
<1> DEFINE events == buffer.events
           gaps == buffer.gaps
           floor == IF Len(gaps) < MaxGaps THEN events[1].seq
                    ELSE Max({events[1].seq, gaps[1][1]})
           span == floor .. Last(events).seq
           top == events[Len(events)].seq
<1> SUFFICES ASSUME events # <<>>
             PROVE  /\ \A n \in 2 .. Len(events) : events[n - 1].seq < events[n].seq
                    /\ span \ {e.seq : e \in ToSet(events)}
                         = span \cap UNION {g[1] .. g[2] : g \in ToSet(gaps)}
  BY DEF HolesAreKnown
<1>1. Accounted(events, gaps, top)
  BY DEF BufferInv
<1>2. /\ events \in Seq(Event) /\ gaps \in Seq(Hole) /\ Len(gaps) <= MaxGaps
      /\ Len(events) \in Nat \ {0} /\ Len(gaps) \in Nat /\ MaxGaps \in Nat \ {0}
      /\ DOMAIN events = 1 .. Len(events) /\ DOMAIN gaps = 1 .. Len(gaps)
  BY <1>1, LiveRewindAssumption DEF Accounted
<1> HIDE DEF events, gaps
<1>3. \A i \in DOMAIN events : events[i].seq \in Nat
  <2>1. \A i \in DOMAIN events : events[i] \in Event
    BY <1>2
  <2> QED
    BY <2>1 DEF Event
<1>4. \A j \in DOMAIN gaps : gaps[j][1] \in Nat /\ gaps[j][2] \in Nat
  <2>1. \A j \in DOMAIN gaps : gaps[j] \in Hole
    BY <1>2
  <2> QED
    BY <2>1 DEF Hole
<1>5. ASSUME NEW n \in 2 .. Len(events) PROVE events[n - 1].seq < events[n].seq
  <2>1. n - 1 \in DOMAIN events /\ n \in DOMAIN events /\ n - 1 < n
    BY <1>2
  <2> QED
    BY <2>1, <1>1 DEF Accounted, Ascends
<1>6. Last(events).seq = top /\ top \in Nat
  <2>1. Len(events) \in DOMAIN events
    BY <1>2
  <2> QED
    BY <2>1, <1>3 DEF Last
<1>7. floor \in Nat /\ events[1].seq <= floor /\ (Len(gaps) = MaxGaps => gaps[1][1] <= floor)
  <2>1. events[1].seq \in Nat
    BY <1>2, <1>3
  <2>2. CASE Len(gaps) < MaxGaps
    <3>1. floor = events[1].seq
      BY <2>2
    <3>a. Len(gaps) \in Nat /\ MaxGaps \in Nat
      BY <1>2
    <3>2. Len(gaps) # MaxGaps
      <4> SUFFICES ASSUME Len(gaps) = MaxGaps PROVE FALSE
        OBVIOUS
      <4> QED
        BY <2>2, <3>a
    <3> HIDE DEF floor
    <3>3. floor \in Nat /\ events[1].seq <= floor
      BY <3>1, <2>1
    <3> QED
      BY <3>2, <3>3
  <2>3. CASE ~(Len(gaps) < MaxGaps)
    <3>1. 1 \in DOMAIN gaps
      BY <2>3, <1>2
    <3>2. gaps[1][1] \in Nat
      BY <3>1, <1>4
    <3> DEFINE x == events[1].seq
               y == gaps[1][1]
    <3>3. floor = Max({x, y})
      BY <2>3
    <3>4. x \in Nat /\ y \in Nat
      BY <2>1, <3>2
    <3> HIDE DEF x, y
    <3>5. Max({x, y}) \in Nat /\ x <= Max({x, y}) /\ y <= Max({x, y})
      BY <3>4, MaxOfTwo
    <3> QED
      BY <3>3, <3>5 DEF x, y
  <2> QED
    BY <2>2, <2>3
<1> HIDE DEF floor, top
<1>8. ASSUME NEW n \in span
      PROVE  n \in {e.seq : e \in ToSet(events)}
               <=> ~(n \in UNION {g[1] .. g[2] : g \in ToSet(gaps)})
  <2>1. n \in Nat /\ n <= top /\ floor <= n
    BY <1>6, <1>7
  <2>2. InView(events, gaps, n)
    <3>1. events[1].seq \in Nat
      <4>1. 1 \in DOMAIN events
        BY <1>2
      <4> QED
        BY <4>1, <1>3
    <3>2. events[1].seq <= n
      <4>1. events[1].seq <= floor /\ floor \in Nat
        BY <1>7
      <4> QED
        BY <2>1, <3>1, <4>1
    <3>3. ASSUME Len(gaps) = MaxGaps PROVE gaps[1][1] <= n
      <4>1. 1 \in DOMAIN gaps
        BY <3>3, <1>2
      <4>2. gaps[1][1] \in Nat
        BY <4>1, <1>4
      <4>3. gaps[1][1] <= floor /\ floor \in Nat
        BY <3>3, <1>7
      <4> QED
        BY <2>1, <4>2, <4>3
    <3> QED
      BY <3>2, <3>3 DEF InView
  <2>3. Has(events, n) <=> ~Lacks(gaps, n)
    BY <2>1, <2>2, <1>1 DEF Accounted, Known
  <2>4. Has(events, n) <=> n \in {e.seq : e \in ToSet(events)}
    BY DEF Has, ToSet
  <2>5. Lacks(gaps, n) <=> n \in UNION {g[1] .. g[2] : g \in ToSet(gaps)}
    <3>1. ASSUME NEW j \in DOMAIN gaps
          PROVE  (gaps[j][1] <= n /\ n <= gaps[j][2]) <=> n \in gaps[j][1] .. gaps[j][2]
      BY <2>1, <1>4
    <3> QED
      BY <3>1 DEF Lacks, ToSet
  <2> QED
    BY <2>3, <2>4, <2>5
<1> QED
  BY <1>5, <1>8

\* The sizes of consecutive events add up to the difference of two prefix totals.
LEMMA SizesAddUp ==
  ASSUME NEW events \in Seq(Event), NEW base \in Nat, Totals(events, base),
         NEW i \in DOMAIN events, NEW j \in i .. Len(events)
  PROVE  events[j].volume
           = (IF i = 1 THEN base ELSE events[i - 1].volume) + TotalSize(SubSeq(events, i, j))
<1> DEFINE before == IF i = 1 THEN base ELSE events[i - 1].volume
           prints == SubSeq(events, i, j)
           N == Len(prints)
           step == [ns \in (1 .. N) \X Nat |-> ns[2] + Size(prints[ns[1]])]
           Loop(f) == [n \in 0 .. N |-> IF n = 0 THEN 0 ELSE f[n - 1] + Size(prints[n])]
           upto == CHOOSE f : f = Loop(f)
<1>1. /\ Len(events) \in Nat /\ i \in 1 .. Len(events) /\ j \in 1 .. Len(events) /\ i <= j
      /\ i \in Int /\ j \in Int
  OBVIOUS
<1>2. /\ N = j - i + 1 /\ N \in Nat
      /\ \A n \in 1 .. N : prints[n] = events[i + n - 1] /\ i + n - 1 \in 1 .. Len(events)
  BY <1>1
<1>3. \A n \in 1 .. Len(events) : events[n].volume \in Nat /\ events[n].seq \in Nat
  <2> SUFFICES ASSUME NEW n \in 1 .. Len(events)
               PROVE  events[n].volume \in Nat /\ events[n].seq \in Nat
    OBVIOUS
  <2>1. events[n] \in Event
    BY <1>1
  <2>2. 1 .. MaxPrints \subseteq Nat
    BY LiveRewindAssumption
  <2> QED
    BY <2>1, <2>2 DEF Event
<1> HIDE DEF prints, N
<1>4. \A n \in 1 .. N : Size(prints[n]) \in Nat
  BY <1>2, <1>3 DEF Size
<1>5. step \in Steps(N, Nat)
  BY <1>4 DEF Steps
<1>6. PICK f \in [0 .. N -> Nat] : f[0] = 0 /\ \A n \in 1 .. N : f[n] = step[<<n, f[n - 1]>>]
  <2> HIDE DEF step
  <2>1. Recursions(N, Nat, 0, step) # {}
    BY <1>2, <1>5, RecursionExists
  <2> QED
    BY <2>1 DEF Recursions
<1>7. f = Loop(f)
  <2>1. ASSUME NEW n \in 0 .. N PROVE f[n] = IF n = 0 THEN 0 ELSE f[n - 1] + Size(prints[n])
    <3>1. CASE n = 0
      BY <3>1, <1>6
    <3>2. CASE n # 0
      <4>1. n \in 1 .. N /\ n - 1 \in 0 .. N
        BY <3>2, <1>2
      <4>2. f[n - 1] \in Nat
        BY <4>1, <1>6
      <4>3. step[<<n, f[n - 1]>>] = f[n - 1] + Size(prints[n])
        BY <4>1, <4>2
      <4> HIDE DEF step
      <4> QED
        BY <4>1, <4>3, <3>2, <1>6
    <3> QED
      BY <3>1, <3>2
  <2> QED
    BY <2>1
<1>8. upto = Loop(upto)
  <2> HIDE DEF Loop
  <2> QED
    BY <1>7
<1> HIDE DEF upto
<1>9. upto[0] = 0 /\ \A n \in 1 .. N : upto[n] = upto[n - 1] + Size(prints[n])
  <2>1. \A n \in 0 .. N : upto[n] = IF n = 0 THEN 0 ELSE upto[n - 1] + Size(prints[n])
    BY <1>8
  <2>2. 0 \in 0 .. N /\ \A n \in 1 .. N : n \in 0 .. N /\ n # 0
    BY <1>2
  <2> QED
    BY <2>1, <2>2
<1>10. \A n \in 1 .. N : upto[n] \in Nat /\ events[i + n - 1].volume = before + upto[n]
  <2> DEFINE Sums(n) == /\ upto[n] \in Nat
                        /\ n # 0 => events[i + n - 1].volume = before + upto[n]
             G == {n \in 0 .. N : Sums(n)}
  <2>0. before \in Nat
    <3>1. i # 1 => i - 1 \in 1 .. Len(events)
      BY <1>1
    <3> QED
      BY <3>1, <1>3
  <2>1. 0 \in G
    BY <1>2, <1>9
  <2>2. ASSUME NEW n \in 1 .. N, n - 1 \in G PROVE n \in G
    <3>1. upto[n - 1] \in Nat /\ (n # 1 => events[i + n - 2].volume = before + upto[n - 1])
      <4> DEFINE m == n - 1
      <4>0. m \in G
        BY <2>2
      <4>a. Sums(m)
        <5> HIDE DEF m, Sums
        <5> QED
          BY <4>0
      <4>1. upto[n - 1] \in Nat /\ (n - 1 # 0 => events[i + (n - 1) - 1].volume = before + upto[n - 1])
        BY <4>a
      <4>2. i + (n - 1) - 1 = i + n - 2 /\ (n # 1 => n - 1 # 0)
        BY <1>1, <1>2
      <4> QED
        BY <4>1, <4>2
    <3>2. upto[n] = upto[n - 1] + events[i + n - 1].seq
      BY <1>2, <1>9 DEF Size
    <3>3. i + n - 1 \in DOMAIN events /\ events[i + n - 1].seq \in Nat
      BY <1>1, <1>2, <1>3
    <3>4. events[i + n - 1].volume
            = (IF i + n - 1 = 1 THEN base ELSE events[i + n - 1 - 1].volume) + events[i + n - 1].seq
      BY <3>3 DEF Totals
    <3>5. (IF i + n - 1 = 1 THEN base ELSE events[i + n - 1 - 1].volume) = before + upto[n - 1]
      <4>1. CASE n = 1
        <5>1. i + n - 1 = i /\ i + n - 1 - 1 = i - 1
          BY <4>1, <1>1
        <5>2. upto[n - 1] = 0
          BY <4>1, <1>9
        <5> HIDE DEF before
        <5>3. (IF i + n - 1 = 1 THEN base ELSE events[i + n - 1 - 1].volume) = before
          BY <5>1 DEF before
        <5> QED
          BY <5>2, <5>3, <2>0
      <4>2. CASE n # 1
        <5>1. i + n - 1 # 1 /\ i + n - 1 - 1 = i + n - 2
          BY <4>2, <1>1, <1>2
        <5> QED
          BY <5>1, <4>2, <3>1
      <4> QED
        BY <4>1, <4>2
    <3> HIDE DEF before
    <3>6. events[i + n - 1].volume = before + upto[n]
      BY <3>1, <3>2, <3>3, <3>4, <3>5, <2>0
    <3>7. upto[n] \in Nat /\ n \in 0 .. N
      <4>1. \A a, b \in Nat : a + b \in Nat
        OBVIOUS
      <4>2. n \in 0 .. N
        BY <1>2
      <4> QED
        BY <3>1, <3>2, <3>3, <4>1, <4>2
    <3> QED
      BY <3>6, <3>7
  <2>3. 0 .. N \subseteq G
    <3> HIDE DEF G
    <3> QED
      BY <1>2, <2>1, <2>2, UpTo
  <2> HIDE DEF before
  <2> SUFFICES ASSUME NEW n \in 1 .. N
               PROVE  upto[n] \in Nat /\ events[i + n - 1].volume = before + upto[n]
    OBVIOUS
  <2>4. n \in 0 .. N /\ n # 0
    BY <1>2
  <2>5. Sums(n)
    <3> HIDE DEF Sums
    <3> QED
      BY <2>3, <2>4
  <2> QED
    BY <2>4, <2>5
<1>11. TotalSize(prints) = upto[N]
  BY DEF TotalSize, upto, N
<1>12. N \in 1 .. N /\ i + N - 1 = j
  BY <1>1, <1>2
<1> HIDE DEF before
<1> QED
  BY <1>10, <1>11, <1>12 DEF before, prints

\* The total of any window is the sum of its prints.
LEMMA BufferTotalsAreExact ==
  ASSUME BufferInv(buffer)
  PROVE  VolumesExact
<1> DEFINE events == buffer.events
           Before(i) == IF i = 1 THEN buffer.base.volume ELSE events[i - 1].volume
<1>1. events \in Seq(Event) /\ buffer.base.volume \in Nat /\ Totals(events, buffer.base.volume)
  BY DEF BufferInv, Buffer
<1> SUFFICES ASSUME NEW i \in DOMAIN events, NEW j \in i .. Len(events)
             PROVE  events[j].volume = Before(i) + TotalSize(SubSeq(events, i, j))
  BY DEF VolumesExact
<1> HIDE DEF events
<1> QED
  BY <1>1, SizesAddUp

LEMMA BufferInvIsExact ==
  ASSUME BufferInv(buffer)
  PROVE  BufferIsExact
BY BufferKnowsHoles, BufferTotalsAreExact DEF BufferIsExact

-----------------------------------------------------------------------------
(* The inductive invariant, in parts.                                         *)

Backfill == [step : {"idle", "asked", "query", "answered"}, holes : Seq(Hole), cursor : Nat,
             page : Nat, collected : Seq(Trade), symbol : Symbols \cup {NoSymbol},
             run : 0 .. MaxRuns, found : Seq(Trade), oldest : Nat, complete : BOOLEAN,
             next : Nat]

Stream == [up : BOOLEAN, symbol : Symbols \cup {NoSymbol}, run : 0 .. MaxRuns,
           seq : 0 .. MaxPrints]

\* A backfill that is under way asks for something.
UnderWay(e) == e.symbol \in Symbols /\ e.holes # <<>> /\ e.cursor # 0 /\ e.page < MaxPages

RecorderTypes ==
  /\ queue \in Seq(Trade) /\ items \in Seq(Trade) /\ stored \in Seq(Trade)
  /\ Len(queue) <= QueueSize /\ Len(items) < RecordBatch /\ dropped \in Nat
  /\ writer \in {"open", "closing", "stopped"}

ServerTypes ==
  /\ run \in 1 .. MaxRuns /\ printed \in 0 .. MaxPrints /\ active \in Symbols
  /\ tape \in [Symbols -> Seq(Trade)]

\* Before the first snapshot there is nothing to rewind.
BrowserTypes ==
  /\ stream \in Stream /\ unfillable \subseteq Hole /\ backfill \in [Rewinds -> Backfill]
  /\ stream.up => stream.symbol \in Symbols
  /\ buffer.events # <<>> => stream.symbol \in Symbols
  /\ \A b \in Rewinds : backfill[b].step # "idle" => stream.symbol \in Symbols
                                                     /\ UnderWay(backfill[b])

\* The tape of a symbol has the prints of this run, each at its number.
TapeInv ==
  \A s \in Symbols :
    /\ Len(tape[s]) <= printed
    /\ \A n \in 1 .. Len(tape[s]) :
         tape[s][n].symbol = s /\ tape[s][n].run = run /\ tape[s][n].seq = n
         /\ tape[s][n].at <= printed

\* A row is of this run as the tape has it, or of an earlier one.
Row(p, now, time, prints) ==
  /\ p.run <= now /\ p.at <= time
  /\ p.run = now => p.seq \in 1 .. Len(prints[p.symbol]) /\ p = prints[p.symbol][p.seq]
IsRow(p) == Row(p, run, printed, tape)

InReceipt(rows) == \A m, n \in 1 .. Len(rows) : m < n => rows[m].at < rows[n].at
Precedes(rows, later) ==
  \A m \in 1 .. Len(rows) : \A n \in 1 .. Len(later) : rows[m].at < later[n].at
AreRows(rows) == \A n \in 1 .. Len(rows) : IsRow(rows[n])
OfRun(rows) == {n \in DOMAIN rows : rows[n].run = run}

\* Rows that are stored, the batch, and the queue.
RowsOf(rows, batch, waiting) ==
  /\ AreRows(rows) /\ AreRows(batch) /\ AreRows(waiting)
  /\ InReceipt(rows) /\ InReceipt(batch) /\ InReceipt(waiting)
  /\ Precedes(rows, batch) /\ Precedes(rows, waiting) /\ Precedes(batch, waiting)

\* What waits is of this run; each print is stored, waits or is counted as lost.
Balanced(rows, batch, waiting, lost) ==
  /\ \A n \in 1 .. Len(batch) : batch[n].run = run
  /\ \A n \in 1 .. Len(waiting) : waiting[n].run = run
  /\ IsFiniteSet(Received)
  /\ Cardinality(OfRun(rows)) + Len(batch) + Len(waiting) + lost = Cardinality(Received)

RowsInv == RowsOf(stored, items, queue)
BooksInv == /\ Balanced(stored, items, queue, dropped)
            /\ writer = "stopped" => items = <<>> /\ queue = <<>>

\* Trades that answer a request: of its symbol and of this run, in its range, ascending.
ServesIn(e, trades, now) ==
  /\ \A n \in 1 .. Len(trades) :
       /\ trades[n].symbol = e.symbol /\ trades[n].run = now
       /\ e.cursor <= trades[n].seq /\ trades[n].seq <= Upto(e)
  /\ \A m, n \in 1 .. Len(trades) : m < n => trades[m].seq < trades[n].seq
Serves(e, trades) == ServesIn(e, trades, run)

\* Between the two reads, an answer has what the ring retained.
AnswersInv ==
  \A b \in Rewinds : LET e == backfill[b] IN
    /\ e.step = "query" => /\ Serves(e, e.found)
                           /\ \A n \in 1 .. Len(e.found) : e.oldest <= e.found[n].seq
    /\ e.step = "answered" => AnswerIsTrue(e)

RewindInv ==
  RecorderTypes /\ ServerTypes /\ BrowserTypes /\ TapeInv /\ RowsInv /\ BooksInv
    /\ AnswersInv /\ BufferInv(buffer)

-----------------------------------------------------------------------------
(* Pieces of sequences and bounds of small sets.                                *)

LEMMA MaxOfPair ==
  ASSUME NEW x \in Int, NEW y \in Int
  PROVE  Max({x, y}) \in {x, y} /\ x <= Max({x, y}) /\ y <= Max({x, y}) /\ Max({x, y}) \in Int
<1>1. \E m \in {x, y} : \A n \in {x, y} : m >= n
  OBVIOUS
<1>2. Max({x, y}) \in {x, y} /\ \A n \in {x, y} : Max({x, y}) >= n
  BY <1>1 DEF Max
<1> QED
  BY <1>2

LEMMA MinOfPair ==
  ASSUME NEW x \in Int, NEW y \in Int
  PROVE  Min({x, y}) \in {x, y} /\ Min({x, y}) <= x /\ Min({x, y}) <= y /\ Min({x, y}) \in Int
<1>1. \E m \in {x, y} : \A n \in {x, y} : m <= n
  OBVIOUS
<1>2. Min({x, y}) \in {x, y} /\ \A n \in {x, y} : Min({x, y}) <= n
  BY <1>1 DEF Min
<1> QED
  BY <1>2

LEMMA MaxOfThree ==
  ASSUME NEW x \in Int, NEW y \in Int, NEW z \in Int
  PROVE  /\ Max({x, y, z}) \in {x, y, z} /\ Max({x, y, z}) \in Int
         /\ x <= Max({x, y, z}) /\ y <= Max({x, y, z}) /\ z <= Max({x, y, z})
<1>1. \E m \in {x, y, z} : \A n \in {x, y, z} : m >= n
  OBVIOUS
<1>2. Max({x, y, z}) \in {x, y, z} /\ \A n \in {x, y, z} : Max({x, y, z}) >= n
  BY <1>1 DEF Max
<1> QED
  BY <1>2

\* A piece of a sequence, wherever its ends are.
LEMMA PieceOfSequence ==
  ASSUME NEW T, NEW s \in Seq(T), NEW from \in Int, NEW to \in Int, 1 <= from, to <= Len(s)
  PROVE  LET piece == SubSeq(s, from, to)
         IN /\ piece \in Seq(T) /\ Len(piece) = (IF from <= to THEN to - from + 1 ELSE 0)
            /\ \A n \in 1 .. Len(piece) : piece[n] = s[from + n - 1]
                                          /\ from + n - 1 \in from .. to
<1>1. \A i \in from .. to : s[i] \in T
  <2> SUFFICES ASSUME NEW i \in from .. to PROVE s[i] \in T
    OBVIOUS
  <2>1. i \in 1 .. Len(s)
    OBVIOUS
  <2> QED
    BY <2>1
<1> DEFINE piece == SubSeq(s, from, to)
<1>2. /\ piece \in Seq(T) /\ Len(piece) = (IF from <= to THEN to - from + 1 ELSE 0)
      /\ \A i \in 1 .. to - from + 1 : piece[i] = s[from + i - 1]
  BY <1>1, SubSeqProperties
<1> HIDE DEF piece
<1>3. ASSUME NEW n \in 1 .. Len(piece)
      PROVE  piece[n] = s[from + n - 1] /\ from + n - 1 \in from .. to
  <2>1. n \in 1 .. to - from + 1
    BY <1>2
  <2> QED
    BY <2>1, <1>2
<1> QED
  BY <1>2, <1>3 DEF piece

LEMMA AppendedSequence ==
  ASSUME NEW T, NEW s \in Seq(T), NEW t \in Seq(T)
  PROVE  /\ s \o t \in Seq(T) /\ Len(s \o t) = Len(s) + Len(t)
         /\ \A n \in 1 .. Len(s) + Len(t) : (s \o t)[n] = IF n <= Len(s) THEN s[n] ELSE t[n - Len(s)]
BY ConcatProperties

LEMMA RestAfterHead ==
  ASSUME NEW T, NEW s \in Seq(T), s # <<>>
  PROVE  /\ Head(s) \in T /\ Head(s) = s[1] /\ Tail(s) \in Seq(T) /\ Len(s) \in Nat \ {0}
         /\ Len(Tail(s)) = Len(s) - 1
         /\ \A n \in 1 .. Len(s) - 1 : Tail(s)[n] = s[n + 1]
OBVIOUS

LEMMA OneMore ==
  ASSUME NEW T, NEW s \in Seq(T), NEW x \in T
  PROVE  /\ Append(s, x) \in Seq(T) /\ Len(Append(s, x)) = Len(s) + 1 /\ Len(s) \in Nat
         /\ \A n \in 1 .. Len(s) : Append(s, x)[n] = s[n]
         /\ Append(s, x)[Len(s) + 1] = x
OBVIOUS

LEMMA PositiveConstants ==
  /\ RingSize \in Nat \ {0} /\ MaxBatch \in Nat \ {0} /\ SnapshotTrades \in Nat \ {0}
  /\ MaxPages \in Nat \ {0} /\ MaxPrints \in Nat /\ MaxRuns \in Nat \ {0}
  /\ NoSymbol \notin Symbols
BY LiveRewindAssumption

LEMMA FieldsOfTrade ==
  ASSUME NEW p \in Trade
  PROVE  p.symbol \in Symbols /\ p.run \in 1 .. MaxRuns /\ p.seq \in 1 .. MaxPrints
         /\ p.at \in 1 .. MaxPrints /\ p.seq \in Nat \ {0} /\ p.at \in Nat /\ p.run \in Nat
<1>1. p.symbol \in Symbols /\ p.run \in 1 .. MaxRuns /\ p.seq \in 1 .. MaxPrints
      /\ p.at \in 1 .. MaxPrints
  BY DEF Trade
<1> QED
  BY <1>1, PositiveConstants

LEMMA FieldsOfHole ==
  ASSUME NEW h \in Hole
  PROVE  h[1] \in Nat \ {0} /\ h[2] \in Nat
BY DEF Hole

-----------------------------------------------------------------------------
(* The answer of the server.                                                  *)

\* What the request has that the answer is judged by.
IsRequest(e) ==
  /\ e \in Backfill /\ UnderWay(e)

LEMMA UptoIsNumber ==
  ASSUME NEW e, IsRequest(e)
  PROVE  Upto(e) \in Int /\ 0 <= Upto(e) /\ Upto(e) <= Head(e.holes)[2]
         /\ Head(e.holes)[2] \in Nat /\ Head(e.holes)[1] \in Nat \ {0}
         /\ e.cursor \in Nat \ {0}
<1>1. e.holes \in Seq(Hole) /\ e.holes # <<>> /\ e.cursor \in Nat \ {0}
  BY DEF IsRequest, Backfill, UnderWay
<1>2. Head(e.holes) \in Hole
  BY <1>1, RestAfterHead
<1> DEFINE top == Head(e.holes)[2]
           last == e.cursor + MaxBatch - 1
<1>3. top \in Nat /\ Head(e.holes)[1] \in Nat \ {0} /\ last \in Nat
  BY <1>1, <1>2, FieldsOfHole, PositiveConstants
<1>4. Upto(e) = Min({top, last})
  BY DEF Upto
<1> HIDE DEF top, last
<1>5. Min({top, last}) \in {top, last} /\ Min({top, last}) <= top /\ Min({top, last}) \in Int
  <2>1. top \in Int /\ last \in Int
    BY <1>3
  <2> QED
    BY <2>1, MinOfPair
<1>6. Upto(e) \in Int /\ 0 <= Upto(e) /\ Upto(e) <= top
  BY <1>3, <1>4, <1>5
<1> QED
  BY <1>1, <1>3, <1>6 DEF top

\* How many trades lead: at least one, and the leading ones have consecutive numbers.
LEMMA LeadingIsConsecutive ==
  ASSUME NEW trades \in Seq(Trade)
  PROVE  /\ Leading(trades) \in 0 .. Len(trades)
         /\ trades # <<>> => Leading(trades) >= 1
         /\ \A n \in 2 .. Leading(trades) : trades[n].seq = trades[n - 1].seq + 1
<1> DEFINE K == {k \in 0 .. Len(trades) : \A n \in 2 .. k : trades[n].seq = trades[n - 1].seq + 1}
<1>1. Len(trades) \in Nat /\ (trades # <<>> => Len(trades) >= 1)
  OBVIOUS
<1>2. K \subseteq Nat /\ 0 \in K /\ \A k \in K : k <= Len(trades)
  BY <1>1
<1>3. trades # <<>> => 1 \in K
  BY <1>1
<1>4. Leading(trades) = Max(K)
  BY DEF Leading
<1>5. Max(K) \in K /\ \A k \in K : k <= Max(K)
  <2> HIDE DEF K
  <2> QED
    BY <1>1, <1>2, MaxOfNumbers
<1>6. Max(K) \in 0 .. Len(trades) /\ \A n \in 2 .. Max(K) : trades[n].seq = trades[n - 1].seq + 1
  <2> DEFINE top == Max(K)
  <2>1. top \in K
    BY <1>5
  <2> HIDE DEF top
  <2>2. top \in 0 .. Len(trades) /\ \A n \in 2 .. top : trades[n].seq = trades[n - 1].seq + 1
    BY <2>1
  <2> QED
    BY <2>2 DEF top
<1>7. trades # <<>> => Max(K) >= 1
  BY <1>3, <1>5
<1> HIDE DEF K
<1> QED
  BY <1>4, <1>6, <1>7

\* Trades without a jump count up from the first.
LEMMA CountingUp ==
  ASSUME NEW trades \in Seq(Trade), trades # <<>>,
         \A n \in 2 .. Len(trades) : trades[n].seq = trades[n - 1].seq + 1
  PROVE  \A n \in 1 .. Len(trades) : trades[n].seq = trades[1].seq + n - 1
<1> DEFINE first == trades[1].seq
           N == Len(trades) - 1
           G == {n \in 0 .. N : trades[n + 1].seq = first + n}
<1>1. Len(trades) \in Nat \ {0} /\ N \in Nat
  OBVIOUS
<1>2. first \in Nat
  <2>1. trades[1] \in Trade
    BY <1>1
  <2> QED
    BY <2>1, FieldsOfTrade
<1>3. 0 \in G
  <2>1. trades[0 + 1].seq = first + 0
    BY <1>2
  <2> QED
    BY <2>1, <1>1
<1>4. ASSUME NEW n \in 1 .. N, n - 1 \in G PROVE n \in G
  <2>1. trades[(n - 1) + 1].seq = first + (n - 1)
    BY <1>4
  <2>2. (n - 1) + 1 = n /\ (n + 1) - 1 = n /\ n + 1 \in 2 .. Len(trades) /\ n \in 0 .. N
    BY <1>1
  <2>3. trades[n + 1].seq = trades[n].seq + 1
    BY <2>2
  <2> HIDE DEF first
  <2>4. trades[n + 1].seq = first + n
    BY <2>1, <2>2, <2>3, <1>2
  <2> QED
    BY <2>2, <2>4
<1>5. 0 .. N \subseteq G
  <2> HIDE DEF G, N
  <2> QED
    BY <1>1, <1>3, <1>4, UpTo
<1> SUFFICES ASSUME NEW n \in 1 .. Len(trades) PROVE trades[n].seq = first + n - 1
  OBVIOUS
<1>6. n - 1 \in 0 .. N /\ (n - 1) + 1 = n /\ first + (n - 1) = first + n - 1
  BY <1>1, <1>2
<1>7. trades[(n - 1) + 1].seq = first + (n - 1)
  <2> DEFINE m == n - 1
  <2>1. m \in G
    BY <1>5, <1>6
  <2> HIDE DEF m, first
  <2>2. trades[m + 1].seq = first + m
    BY <2>1
  <2> QED
    BY <2>2 DEF m
<1> HIDE DEF first
<1> QED
  BY <1>6, <1>7

\* An answer made of trades that serve the request is true.
LEMMA AnsweredIsTrue ==
  ASSUME NEW e, IsRequest(e), NEW trades \in Seq(Trade), Serves(e, trades)
  PROVE  AnswerIsTrue(Answered(e, trades))
<1> DEFINE contiguous == Leading(trades) = Len(trades)
           last == IF trades = <<>> THEN 0 ELSE trades[Leading(trades)].seq
           hole == Head(e.holes)
           complete == trades # <<>> /\ contiguous /\ trades[1].seq = e.cursor /\ last >= hole[2]
           next == IF complete THEN 0
                   ELSE IF last >= e.cursor /\ contiguous THEN last + 1 ELSE e.cursor
           a == Answered(e, trades)
           numbers == {p.seq : p \in ToSet(trades)}
<1>1. /\ a.found = trades /\ a.complete = complete /\ a.next = next /\ a.symbol = e.symbol
      /\ a.run = run /\ a.cursor = e.cursor /\ a.holes = e.holes
  <2> HIDE DEF next, complete
  <2>1. a = [e EXCEPT !.step = "answered", !.run = run, !.found = trades,
                      !.complete = complete, !.next = next]
    BY DEF Answered, complete, next
  <2> QED
    BY <2>1 DEF IsRequest, Backfill
<1>2. Upto(a) = Upto(e) /\ Head(a.holes) = hole
  BY <1>1 DEF Upto
<1> HIDE DEF a
<1>3. /\ Upto(e) \in Int /\ Upto(e) <= hole[2] /\ hole[2] \in Nat /\ e.cursor \in Nat \ {0}
  BY UptoIsNumber
<1> HIDE DEF hole
<1>4. Len(trades) \in Nat /\ DOMAIN trades = 1 .. Len(trades)
      /\ \A n \in 1 .. Len(trades) : trades[n].seq \in Nat
  <2>1. \A n \in 1 .. Len(trades) : trades[n] \in Trade
    OBVIOUS
  <2> QED
    BY <2>1, FieldsOfTrade
<1>5. ASSUME NEW n \in DOMAIN trades
      PROVE  /\ trades[n].symbol = e.symbol /\ trades[n].run = run
             /\ e.cursor <= trades[n].seq /\ trades[n].seq <= Upto(e)
             /\ n > 1 => trades[n - 1].seq < trades[n].seq
  <2>1. n \in 1 .. Len(trades)
    BY <1>4
  <2>2. n > 1 => n - 1 \in 1 .. Len(trades) /\ n - 1 < n
    BY <2>1, <1>4
  <2> QED
    BY <2>1, <2>2 DEF Serves, ServesIn
<1>6. ASSUME complete PROVE numbers = e.cursor .. hole[2]
  <2>1. trades # <<>> /\ Leading(trades) = Len(trades) /\ trades[1].seq = e.cursor
        /\ last = trades[Len(trades)].seq /\ last >= hole[2] /\ Len(trades) \in 1 .. Len(trades)
    BY <1>6, <1>4
  <2>2. \A n \in 2 .. Len(trades) : trades[n].seq = trades[n - 1].seq + 1
    BY <2>1, LeadingIsConsecutive
  <2>3. \A n \in 1 .. Len(trades) : trades[n].seq = trades[1].seq + n - 1
    BY <2>1, <2>2, CountingUp
  <2>4. \A n \in 1 .. Len(trades) : trades[n].seq = e.cursor + n - 1
    BY <2>1, <2>3
  <2>5. last <= Upto(e) /\ last = e.cursor + Len(trades) - 1 /\ last = hole[2]
    <3>1. last <= Upto(e)
      BY <2>1, <1>5, <1>4
    <3>2. last = e.cursor + Len(trades) - 1
      BY <2>1, <2>4
    <3> HIDE DEF last, complete
    <3> QED
      BY <3>1, <3>2, <2>1, <1>3, <1>4
  <2> HIDE DEF last, complete, contiguous
  <2>6. ASSUME NEW x \in numbers PROVE x \in e.cursor .. hole[2]
    <3>1. PICK n \in 1 .. Len(trades) : x = trades[n].seq
      BY <1>4 DEF ToSet
    <3>2. x = e.cursor + n - 1
      BY <3>1, <2>4
    <3> QED
      BY <3>2, <2>5, <1>3, <1>4
  <2>7. ASSUME NEW x \in e.cursor .. hole[2] PROVE x \in numbers
    <3> DEFINE n == x - e.cursor + 1
    <3>1. n \in 1 .. Len(trades) /\ e.cursor + n - 1 = x
      BY <2>5, <1>3, <1>4
    <3> HIDE DEF n
    <3>2. trades[n].seq = x /\ n \in DOMAIN trades
      BY <3>1, <2>4, <1>4
    <3> QED
      BY <3>2 DEF ToSet
  <2> QED
    BY <2>6, <2>7
<1>7. ASSUME ~complete PROVE next <= Max({e.cursor} \cup {p.seq + 1 : p \in ToSet(trades)})
  <2> DEFINE T == {e.cursor} \cup {p.seq + 1 : p \in ToSet(trades)}
  <2>1. T \subseteq Nat /\ e.cursor \in T /\ \A x \in T : x <= Max({e.cursor, Upto(e) + 1})
    <3>1. e.cursor <= Max({e.cursor, Upto(e) + 1}) /\ Upto(e) + 1 <= Max({e.cursor, Upto(e) + 1})
          /\ Max({e.cursor, Upto(e) + 1}) \in Int
      <4>1. e.cursor \in Int /\ Upto(e) + 1 \in Int
        BY <1>3
      <4> QED
        BY <4>1, MaxOfPair
    <3> DEFINE most == Max({e.cursor, Upto(e) + 1})
    <3>2. e.cursor <= most /\ Upto(e) + 1 <= most /\ most \in Int
      BY <3>1
    <3> HIDE DEF most
    <3>3. ASSUME NEW p \in ToSet(trades) PROVE p.seq + 1 \in Nat /\ p.seq + 1 <= most
      <4>1. PICK n \in DOMAIN trades : p = trades[n]
        BY DEF ToSet
      <4>2. p.seq \in Nat /\ p.seq <= Upto(e)
        BY <4>1, <1>4, <1>5
      <4> QED
        BY <4>2, <3>2, <1>3
    <3> QED
      BY <3>2, <3>3, <1>3 DEF most
  <2>2. \A x \in T : x <= Max(T)
    <3>1. Max({e.cursor, Upto(e) + 1}) \in Nat
      <4>1. e.cursor \in Int /\ Upto(e) + 1 \in Int
        BY <1>3
      <4>2. Max({e.cursor, Upto(e) + 1}) \in Int /\ e.cursor <= Max({e.cursor, Upto(e) + 1})
        BY <4>1, MaxOfPair
      <4> QED
        BY <4>2, <1>3
    <3> HIDE DEF T
    <3> QED
      BY <2>1, <3>1, MaxOfNumbers
  <2>3. next \in T
    <3>1. CASE last >= e.cursor /\ contiguous
      <4>1. trades # <<>>
        BY <3>1, <1>3
      <4>2. Leading(trades) \in DOMAIN trades
        BY <4>1, <1>4, LeadingIsConsecutive
      <4>3. trades[Leading(trades)] \in ToSet(trades)
        BY <4>2 DEF ToSet
      <4>4. next = trades[Leading(trades)].seq + 1
        BY <3>1, <4>1, <1>7
      <4> HIDE DEF next
      <4> QED
        BY <4>3, <4>4
    <3>2. CASE ~(last >= e.cursor /\ contiguous)
      <4>1. next = e.cursor
        BY <3>2, <1>7
      <4> QED
        BY <4>1, <2>1
    <3> QED
      BY <3>1, <3>2
  <2> QED
    BY <2>2, <2>3
<1> HIDE DEF complete, next
<1>8. \A n \in DOMAIN a.found : /\ a.found[n].symbol = a.symbol /\ a.found[n].run = a.run
                                /\ a.cursor <= a.found[n].seq /\ a.found[n].seq <= Upto(a)
                                /\ n > 1 => a.found[n - 1].seq < a.found[n].seq
  <2>1. /\ a.found = trades /\ a.symbol = e.symbol /\ a.run = run /\ a.cursor = e.cursor
        /\ Upto(a) = Upto(e)
    BY <1>1, <1>2
  <2> QED
    BY <2>1, <1>5
<1>9. a.complete => {p.seq : p \in ToSet(a.found)} = a.cursor .. Head(a.holes)[2]
  <2>1. a.complete => complete
    BY <1>1
  <2>2. a.found = trades /\ a.cursor = e.cursor /\ Head(a.holes) = hole
    BY <1>1, <1>2
  <2> QED
    BY <2>1, <2>2, <1>6
<1>10. ~a.complete => a.next <= Max({a.cursor} \cup {p.seq + 1 : p \in ToSet(a.found)})
  <2>1. ~a.complete => ~complete
    BY <1>1
  <2>2. a.found = trades /\ a.cursor = e.cursor /\ a.next = next
    BY <1>1
  <2> QED
    BY <2>1, <2>2, <1>7
<1>11. AnswerIsTrue(a)
  BY <1>8, <1>9, <1>10 DEF AnswerIsTrue
<1> QED
  BY <1>11 DEF a

LEMMA OldestIsNumber ==
  ASSUME ServerTypes, NEW s \in Symbols
  PROVE  Oldest(s) \in Nat /\ tape[s] \in Seq(Trade) /\ Len(tape[s]) \in Nat
<1>1. tape[s] \in Seq(Trade) /\ Len(tape[s]) \in Nat
  BY DEF ServerTypes
<1>2. CASE tape[s] = <<>>
  BY <1>1, <1>2 DEF Oldest
<1>3. CASE tape[s] # <<>>
  <2> DEFINE k == Len(tape[s]) - RingSize + 1
  <2>1. k \in Int
    BY <1>1, PositiveConstants
  <2>2. Oldest(s) = Max({1, k})
    BY <1>3 DEF Oldest
  <2> HIDE DEF k
  <2> QED
    BY <1>1, <2>1, <2>2, MaxWithOne
<1> QED
  BY <1>2, <1>3

\* What the ring retains of a range.
LEMMA ResidentServes ==
  ASSUME ServerTypes, TapeInv, NEW s \in Symbols, NEW from \in Int, NEW to \in Nat
  PROVE  LET part == Resident(s, from, to)
         IN /\ part \in Seq(Trade) /\ Len(part) \in Nat
            /\ \A n \in 1 .. Len(part) :
                 /\ part[n].symbol = s /\ part[n].run = run
                 /\ from <= part[n].seq /\ part[n].seq <= to /\ Oldest(s) <= part[n].seq
            /\ \A m, n \in 1 .. Len(part) : m < n => part[m].seq < part[n].seq
<1> DEFINE part == Resident(s, from, to)
           first == Max({1, from, Oldest(s)})
           last == Min({to, Len(tape[s])})
<1>1. Oldest(s) \in Nat /\ tape[s] \in Seq(Trade) /\ Len(tape[s]) \in Nat
  BY OldestIsNumber
<1>2. first \in Int /\ 1 <= first /\ from <= first /\ Oldest(s) <= first
  <2>1. 1 \in Int /\ Oldest(s) \in Int
    BY <1>1
  <2> QED
    BY <2>1, MaxOfThree
<1>3. last \in Int /\ last <= to /\ last <= Len(tape[s])
  <2>1. to \in Int /\ Len(tape[s]) \in Int
    BY <1>1
  <2> QED
    BY <2>1, MinOfPair
<1>4. part = SubSeq(tape[s], first, last)
  BY DEF Resident
<1> HIDE DEF first, last, part
<1>5. /\ part \in Seq(Trade)
      /\ \A n \in 1 .. Len(part) : part[n] = tape[s][first + n - 1]
                                   /\ first + n - 1 \in first .. last
  BY <1>1, <1>2, <1>3, <1>4, PieceOfSequence, SMTT(30)
<1>6. Len(part) \in Nat
  BY <1>5
<1>7. ASSUME NEW n \in 1 .. Len(part)
      PROVE  part[n].symbol = s /\ part[n].run = run /\ part[n].seq = first + n - 1
             /\ first + n - 1 \in first .. last
  <2>1. part[n] = tape[s][first + n - 1] /\ first + n - 1 \in first .. last
    BY <1>5
  <2>2. first + n - 1 \in 1 .. Len(tape[s])
    BY <2>1, <1>1, <1>2, <1>3
  <2> QED
    BY <2>1, <2>2 DEF TapeInv
<1>8. ASSUME NEW n \in 1 .. Len(part)
      PROVE  from <= part[n].seq /\ part[n].seq <= to /\ Oldest(s) <= part[n].seq
  BY <1>1, <1>2, <1>3, <1>7
<1>9. ASSUME NEW m \in 1 .. Len(part), NEW n \in 1 .. Len(part), m < n
      PROVE  part[m].seq < part[n].seq
  BY <1>2, <1>6, <1>7, <1>9
<1> QED
  BY <1>5, <1>6, <1>7, <1>8, <1>9 DEF part

LEMMA LimitedIsPrefix ==
  ASSUME NEW T, NEW trades \in Seq(T), NEW limit \in Nat
  PROVE  LET l == Limited(trades, limit)
         IN /\ l \in Seq(T) /\ Len(l) \in 0 .. Len(trades)
            /\ \A n \in 1 .. Len(l) : l[n] = trades[n]
<1> DEFINE l == Limited(trades, limit)
           k == Min({limit, Len(trades)})
<1>1. k \in 0 .. Len(trades)
  <2>1. limit \in Int /\ Len(trades) \in Nat /\ Len(trades) \in Int
    OBVIOUS
  <2>2. k \in {limit, Len(trades)} /\ k <= Len(trades)
    BY <2>1, MinOfPair
  <2> QED
    BY <2>1, <2>2
<1>2. l = SubSeq(trades, 1, k)
  BY DEF Limited
<1> HIDE DEF k, l
<1>3. 1 \in Int /\ k \in Int /\ 1 <= 1 /\ k <= Len(trades)
  BY <1>1
<1>4. /\ l \in Seq(T) /\ Len(l) = (IF 1 <= k THEN k - 1 + 1 ELSE 0)
      /\ \A n \in 1 .. Len(l) : l[n] = trades[1 + n - 1]
  BY <1>2, <1>3, PieceOfSequence
<1>5. Len(l) \in 0 .. Len(trades) /\ Len(l) \in Nat
  BY <1>1, <1>4
<1>6. \A n \in 1 .. Len(l) : l[n] = trades[n]
  <2>1. \A n \in 1 .. Len(l) : 1 + n - 1 = n
    BY <1>5
  <2> QED
    BY <2>1, <1>4
<1> QED
  BY <1>4, <1>5, <1>6 DEF l

LEMMA LimitedServes ==
  ASSUME NEW e, NEW trades \in Seq(Trade), Serves(e, trades)
  PROVE  Limited(trades, MaxBatch) \in Seq(Trade) /\ Serves(e, Limited(trades, MaxBatch))
<1> DEFINE l == Limited(trades, MaxBatch)
<1>1. MaxBatch \in Nat
  BY PositiveConstants
<1>2. /\ l \in Seq(Trade) /\ Len(l) \in 0 .. Len(trades)
      /\ \A n \in 1 .. Len(l) : l[n] = trades[n]
  BY <1>1, LimitedIsPrefix
<1> HIDE DEF l
<1>3. \A n \in 1 .. Len(l) : n \in 1 .. Len(trades)
  BY <1>2
<1>4. Serves(e, l)
  BY <1>2, <1>3 DEF Serves, ServesIn
<1> QED
  BY <1>2, <1>4 DEF l

\* Two rows of this run that have a number of one symbol are one row.
LEMMA RowIsUnique ==
  ASSUME RecorderTypes, ServerTypes, RowsInv, NEW m \in DOMAIN stored, NEW n \in DOMAIN stored,
         stored[m].run = run, stored[n].run = run, stored[m].symbol = stored[n].symbol,
         stored[m].seq = stored[n].seq
  PROVE  m = n
<1>1. stored \in Seq(Trade) /\ DOMAIN stored = 1 .. Len(stored) /\ Len(stored) \in Nat
  BY DEF RecorderTypes
<1>2. m \in 1 .. Len(stored) /\ n \in 1 .. Len(stored)
  BY <1>1
<1>3. stored[m] = stored[n]
  <2>1. IsRow(stored[m]) /\ IsRow(stored[n])
    BY <1>2 DEF RowsInv, RowsOf, AreRows
  <2>2. stored[m] = tape[stored[m].symbol][stored[m].seq]
        /\ stored[n] = tape[stored[n].symbol][stored[n].seq]
    BY <2>1 DEF IsRow, Row
  <2> QED
    BY <2>2
<1>4. stored[m].at \in Nat /\ stored[n].at \in Nat
  <2>1. stored[m] \in Trade /\ stored[n] \in Trade
    BY <1>1
  <2> QED
    BY <2>1, FieldsOfTrade
<1>5. ~(m < n) /\ ~(n < m)
  BY <1>2, <1>3, <1>4 DEF RowsInv, RowsOf, InReceipt
<1> QED
  BY <1>2, <1>5

\* What the recording adds is of this run, in the range, below what the ring had.
LEMMA StoredRowsServe ==
  ASSUME RecorderTypes, ServerTypes, RowsInv, NEW e, IsRequest(e)
  PROVE  /\ StoredRows(e) \in Seq(Trade) /\ Serves(e, StoredRows(e))
         /\ \A n \in 1 .. Len(StoredRows(e)) : StoredRows(e)[n].seq < e.oldest
<1> DEFINE rows == {n \in DOMAIN stored :
                 /\ OfThisRun(stored[n]) /\ stored[n].symbol = e.symbol
                 /\ e.cursor <= stored[n].seq /\ stored[n].seq <= Min({e.oldest - 1, Upto(e)})}
           before == {p \in rows \X rows :
                   \/ stored[p[1]].seq < stored[p[2]].seq
                   \/ stored[p[1]].seq = stored[p[2]].seq /\ p[1] < p[2]}
           place == InOrder(rows, before)
           N == Cardinality(rows)
           found == Entries(stored, place)
<1>1. stored \in Seq(Trade) /\ DOMAIN stored = 1 .. Len(stored) /\ Len(stored) \in Nat
  BY DEF RecorderTypes
<1>2. e.oldest \in Nat /\ Upto(e) \in Int
  BY UptoIsNumber DEF IsRequest, Backfill
<1>3. ASSUME NEW n \in rows
      PROVE  /\ n \in DOMAIN stored /\ n \in Int /\ stored[n] \in Trade /\ stored[n].seq \in Int
             /\ stored[n].run = run /\ stored[n].symbol = e.symbol
             /\ e.cursor <= stored[n].seq /\ stored[n].seq <= Upto(e) /\ stored[n].seq < e.oldest
  <2>1. n \in DOMAIN stored /\ n \in Int /\ stored[n] \in Trade
    BY <1>1
  <2>2. stored[n].seq \in Int
    BY <2>1, FieldsOfTrade
  <2>3. Min({e.oldest - 1, Upto(e)}) <= e.oldest - 1 /\ Min({e.oldest - 1, Upto(e)}) <= Upto(e)
        /\ Min({e.oldest - 1, Upto(e)}) \in Int
    <3>1. e.oldest - 1 \in Int /\ Upto(e) \in Int
      BY <1>2
    <3> QED
      BY <3>1, MinOfPair
  <2>4. stored[n].seq <= Min({e.oldest - 1, Upto(e)}) /\ e.cursor <= stored[n].seq
        /\ stored[n].run = run /\ stored[n].symbol = e.symbol
    BY DEF OfThisRun
  <2> QED
    BY <2>1, <2>2, <2>3, <2>4, <1>2
<1>4. IsFiniteSet(rows)
  <2>1. IsFiniteSet(1 .. Len(stored))
    <3>1. 1 \in Int /\ Len(stored) \in Int
      BY <1>1
    <3> QED
      BY <3>1, FS_Interval
  <2>2. rows \in SUBSET (1 .. Len(stored))
    BY <1>1
  <2> HIDE DEF rows
  <2> QED
    BY <2>1, <2>2, FS_Subset
<1>5. ASSUME NEW m \in rows, NEW n \in rows
      PROVE  <<m, n>> \in before <=> stored[m].seq < stored[n].seq
  <2>1. <<m, n>> \in before <=> \/ stored[m].seq < stored[n].seq
                                \/ stored[m].seq = stored[n].seq /\ m < n
    <3> HIDE DEF rows
    <3> QED
      OBVIOUS
  <2>2. stored[m].seq = stored[n].seq => m = n
    BY <1>3, RowIsUnique
  <2>3. ~(m < m)
    BY <1>3
  <2> HIDE DEF before, rows
  <2> QED
    BY <2>1, <2>2, <2>3
<1>6. StrictOrder(rows, before)
  <2>1. \A m \in rows : stored[m].seq \in Int
    BY <1>3
  <2>2. \A m, n \in rows : m # n => stored[m].seq # stored[n].seq
    BY <1>3, RowIsUnique
  <2> HIDE DEF rows, before
  <2>3. \A m \in rows : <<m, m>> \notin before
    BY <1>5, <2>1
  <2>4. \A k, m, n \in rows : <<k, m>> \in before /\ <<m, n>> \in before => <<k, n>> \in before
    BY <1>5, <2>1
  <2>5. \A m, n \in rows : m # n => <<m, n>> \in before \/ <<n, m>> \in before
    BY <1>5, <2>1, <2>2
  <2> QED
    BY <2>3, <2>4, <2>5 DEF StrictOrder
<1> HIDE DEF rows, before
<1>7. /\ N \in Nat /\ place \in [1 .. N -> rows]
      /\ \A m, n \in 1 .. N : m < n => <<place[m], place[n]>> \in before
  BY <1>4, <1>6, InOrderIsOrdered
<1> HIDE DEF place, N
<1>8. found = [n \in 1 .. N |-> stored[place[n]]]
  BY <1>7 DEF Entries
<1>9. /\ found \in Seq(Trade) /\ Len(found) = N
      /\ \A n \in 1 .. N : found[n] = stored[place[n]] /\ place[n] \in rows
  <2>1. \A n \in 1 .. N : place[n] \in rows /\ stored[place[n]] \in Trade
    BY <1>3, <1>7
  <2> HIDE DEF found
  <2> QED
    BY <2>1, <1>7, <1>8
<1> HIDE DEF found
<1>10. Serves(e, found)
  <2>1. ASSUME NEW n \in 1 .. Len(found)
        PROVE  /\ found[n].symbol = e.symbol /\ found[n].run = run
               /\ e.cursor <= found[n].seq /\ found[n].seq <= Upto(e)
    BY <1>3, <1>9
  <2>2. ASSUME NEW m \in 1 .. Len(found), NEW n \in 1 .. Len(found), m < n
        PROVE  found[m].seq < found[n].seq
    BY <1>5, <1>7, <1>9, <2>2
  <2> QED
    BY <2>1, <2>2 DEF Serves, ServesIn
<1>11. StoredRows(e) = Limited(found, MaxBatch)
  BY DEF StoredRows, found, place, before, rows
<1>12. StoredRows(e) \in Seq(Trade) /\ Serves(e, StoredRows(e))
  BY <1>9, <1>10, <1>11, LimitedServes
<1>13. ASSUME NEW n \in 1 .. Len(StoredRows(e)) PROVE StoredRows(e)[n].seq < e.oldest
  <2>1. MaxBatch \in Nat
    BY PositiveConstants
  <2>2. /\ Len(Limited(found, MaxBatch)) \in 0 .. Len(found)
        /\ \A k \in 1 .. Len(Limited(found, MaxBatch)) : Limited(found, MaxBatch)[k] = found[k]
    BY <2>1, <1>9, LimitedIsPrefix
  <2>3. n \in 1 .. Len(found) /\ StoredRows(e)[n] = found[n]
    BY <2>2, <1>11
  <2> QED
    BY <2>3, <1>3, <1>9
<1> QED
  BY <1>12, <1>13

\* Rows below a number, then trades from it on: still in order.
LEMMA JoinedServe ==
  ASSUME NEW e, NEW rows \in Seq(Trade), NEW part \in Seq(Trade), NEW oldest \in Nat,
         Serves(e, rows), Serves(e, part),
         \A n \in 1 .. Len(rows) : rows[n].seq < oldest,
         \A n \in 1 .. Len(part) : oldest <= part[n].seq
  PROVE  rows \o part \in Seq(Trade) /\ Serves(e, rows \o part)
<1> DEFINE all == rows \o part
<1>1. /\ all \in Seq(Trade) /\ Len(all) = Len(rows) + Len(part)
      /\ \A n \in 1 .. Len(rows) + Len(part) :
           all[n] = IF n <= Len(rows) THEN rows[n] ELSE part[n - Len(rows)]
  BY AppendedSequence
<1>2. Len(rows) \in Nat /\ Len(part) \in Nat
  OBVIOUS
<1> HIDE DEF all
<1>3. \A n \in 1 .. Len(all) :
        \/ n \in 1 .. Len(rows) /\ all[n] = rows[n]
        \/ n > Len(rows) /\ n - Len(rows) \in 1 .. Len(part) /\ all[n] = part[n - Len(rows)]
  BY <1>1, <1>2
<1>4. /\ \A n \in 1 .. Len(rows) : rows[n].seq \in Nat
      /\ \A n \in 1 .. Len(part) : part[n].seq \in Nat
  <2>1. /\ \A n \in 1 .. Len(rows) : rows[n] \in Trade
        /\ \A n \in 1 .. Len(part) : part[n] \in Trade
    OBVIOUS
  <2> QED
    BY <2>1, FieldsOfTrade
<1>5. ASSUME NEW n \in 1 .. Len(all)
      PROVE  /\ all[n].symbol = e.symbol /\ all[n].run = run
             /\ e.cursor <= all[n].seq /\ all[n].seq <= Upto(e)
  BY <1>3 DEF Serves, ServesIn
<1>6. ASSUME NEW m \in 1 .. Len(all), NEW n \in 1 .. Len(all), m < n
      PROVE  all[m].seq < all[n].seq
  <2>1. CASE n \in 1 .. Len(rows) /\ all[n] = rows[n]
    <3>1. m \in 1 .. Len(rows) /\ all[m] = rows[m]
      BY <2>1, <1>1, <1>2, <1>3, <1>6
    <3> QED
      BY <2>1, <3>1, <1>6 DEF Serves, ServesIn
  <2>2. CASE n > Len(rows) /\ n - Len(rows) \in 1 .. Len(part) /\ all[n] = part[n - Len(rows)]
    <3>1. CASE m \in 1 .. Len(rows) /\ all[m] = rows[m]
      BY <2>2, <3>1, <1>4
    <3>2. CASE m > Len(rows) /\ m - Len(rows) \in 1 .. Len(part) /\ all[m] = part[m - Len(rows)]
      <4>1. m - Len(rows) < n - Len(rows)
        BY <1>2, <1>6
      <4> QED
        BY <2>2, <3>2, <4>1 DEF Serves, ServesIn
    <3> QED
      BY <3>1, <3>2, <1>3
  <2> QED
    BY <2>1, <2>2, <1>3
<1>7. Serves(e, all)
  BY <1>5, <1>6 DEF Serves, ServesIn
<1> QED
  BY <1>1, <1>7 DEF all

\* An answer is of the form of a backfill under way.
LEMMA AnsweredIsRequest ==
  ASSUME ServerTypes, NEW e, IsRequest(e), NEW trades \in Seq(Trade)
  PROVE  Answered(e, trades) \in Backfill /\ UnderWay(Answered(e, trades))
         /\ Answered(e, trades).step = "answered"
<1> DEFINE contiguous == Leading(trades) = Len(trades)
           last == IF trades = <<>> THEN 0 ELSE trades[Leading(trades)].seq
           complete == trades # <<>> /\ contiguous /\ trades[1].seq = e.cursor
                       /\ last >= Head(e.holes)[2]
           next == IF complete THEN 0
                   ELSE IF last >= e.cursor /\ contiguous THEN last + 1 ELSE e.cursor
           step == "answered"
<1>1. Answered(e, trades) = [e EXCEPT !.step = step, !.run = run, !.found = trades,
                                      !.complete = complete, !.next = next]
  BY DEF Answered
<1>2. last \in Nat
  <2>1. CASE trades = <<>>
    BY <2>1
  <2>2. CASE trades # <<>>
    <3>1. Leading(trades) \in 1 .. Len(trades)
      BY <2>2, LeadingIsConsecutive
    <3>2. trades[Leading(trades)] \in Trade
      BY <3>1
    <3> QED
      BY <2>2, <3>2, FieldsOfTrade
  <2> QED
    BY <2>1, <2>2
<1>3. complete \in BOOLEAN
  <2> HIDE DEF last, contiguous
  <2> QED
    OBVIOUS
<1>4. next \in Nat
  <2>1. e.cursor \in Nat
    BY UptoIsNumber
  <2> HIDE DEF last, complete, contiguous
  <2> QED
    BY <1>2, <2>1
<1>5. run \in 0 .. MaxRuns /\ step \in {"idle", "asked", "query", "answered"}
  BY PositiveConstants DEF ServerTypes
<1>6. e \in Backfill /\ UnderWay(e)
  BY DEF IsRequest
<1> DEFINE a == [e EXCEPT !.step = step, !.run = run, !.found = trades,
                          !.complete = complete, !.next = next]
<1> HIDE DEF complete, next, step
<1>7. a \in Backfill
  BY <1>3, <1>4, <1>5, <1>6 DEF Backfill
<1>8. a.symbol = e.symbol /\ a.holes = e.holes /\ a.cursor = e.cursor /\ a.page = e.page
      /\ a.step = step
  BY <1>6 DEF Backfill
<1>9. UnderWay(a)
  BY <1>6, <1>8 DEF UnderWay
<1> QED
  BY <1>1, <1>7, <1>8, <1>9 DEF step

\* The first read of a request: an answer that is true, or what the ring retained of it.
LEMMA FromRingServes ==
  ASSUME ServerTypes, TapeInv, NEW e, IsRequest(e)
  PROVE  LET r == FromRing(e)
         IN /\ r \in Backfill /\ UnderWay(r) /\ r.step \in {"query", "answered"}
            /\ r.step = "answered" => AnswerIsTrue(r)
            /\ r.step = "query" => /\ Serves(r, r.found)
                                   /\ \A n \in 1 .. Len(r.found) : r.oldest <= r.found[n].seq
<1> DEFINE part == Resident(e.symbol, e.cursor, Upto(e))
           oldest == Oldest(e.symbol)
           r == FromRing(e)
<1>1. e.symbol \in Symbols /\ e \in Backfill /\ UnderWay(e)
  BY DEF IsRequest, UnderWay
<1>2. e.cursor \in Nat \ {0} /\ Upto(e) \in Nat
  BY UptoIsNumber
<1>3. /\ part \in Seq(Trade) /\ Len(part) \in Nat
      /\ \A n \in 1 .. Len(part) :
           /\ part[n].symbol = e.symbol /\ part[n].run = run
           /\ e.cursor <= part[n].seq /\ part[n].seq <= Upto(e) /\ oldest <= part[n].seq
      /\ \A m, n \in 1 .. Len(part) : m < n => part[m].seq < part[n].seq
  <2>1. e.cursor \in Int
    BY <1>2
  <2> QED
    BY <1>1, <1>2, <2>1, ResidentServes
<1>4. Serves(e, part)
  BY <1>3 DEF Serves, ServesIn
<1>5. oldest \in Nat
  BY <1>1, OldestIsNumber
<1>6. CASE oldest > e.cursor
  <2> DEFINE step == "query"
  <2>1. r = [e EXCEPT !.step = step, !.found = part, !.oldest = oldest]
    BY <1>6 DEF FromRing
  <2>2. step \in {"idle", "asked", "query", "answered"} /\ step = "query"
    OBVIOUS
  <2> HIDE DEF step, r, part, oldest
  <2>3. r \in Backfill
    BY <2>1, <2>2, <1>1, <1>3, <1>5 DEF Backfill
  <2>4. /\ r.symbol = e.symbol /\ r.holes = e.holes /\ r.cursor = e.cursor /\ r.page = e.page
        /\ r.step = step /\ r.found = part /\ r.oldest = oldest
    BY <2>1, <1>1 DEF Backfill
  <2>5. UnderWay(r)
    BY <2>4, <1>1 DEF UnderWay
  <2>6. Serves(r, r.found)
    <3>1. Upto(r) = Upto(e)
      BY <2>4 DEF Upto
    <3> QED
      BY <2>4, <3>1, <1>4 DEF Serves, ServesIn
  <2>7. \A n \in 1 .. Len(r.found) : r.oldest <= r.found[n].seq
    BY <2>4, <1>3
  <2> QED
    BY <2>2, <2>3, <2>4, <2>5, <2>6, <2>7 DEF r
<1>7. CASE ~(oldest > e.cursor)
  <2>1. r = Answered(e, part)
    BY <1>7 DEF FromRing
  <2>2. AnswerIsTrue(r)
    BY <2>1, <1>3, <1>4, AnsweredIsTrue
  <2>3. r \in Backfill /\ UnderWay(r) /\ r.step = "answered"
    BY <2>1, <1>3, AnsweredIsRequest
  <2> HIDE DEF r
  <2> QED
    BY <2>2, <2>3 DEF r
<1> QED
  BY <1>6, <1>7

\* The second read: what the ring had retained follows the rows that were stored.
LEMMA FromRecordingServes ==
  ASSUME ServerTypes, RecorderTypes, RowsInv, NEW e, IsRequest(e), Serves(e, e.found),
         \A n \in 1 .. Len(e.found) : e.oldest <= e.found[n].seq
  PROVE  LET r == FromRecording(e)
         IN r \in Backfill /\ UnderWay(r) /\ r.step = "answered" /\ AnswerIsTrue(r)
<1> DEFINE rows == StoredRows(e)
           all == rows \o e.found
           r == FromRecording(e)
<1>1. e.found \in Seq(Trade) /\ e.oldest \in Nat
  BY DEF IsRequest, Backfill
<1>2. /\ rows \in Seq(Trade) /\ Serves(e, rows)
      /\ \A n \in 1 .. Len(rows) : rows[n].seq < e.oldest
  BY StoredRowsServe
<1> HIDE DEF rows
<1>3. all \in Seq(Trade) /\ Serves(e, all)
  BY <1>1, <1>2, JoinedServe
<1> HIDE DEF all
<1>4. Limited(all, MaxBatch) \in Seq(Trade) /\ Serves(e, Limited(all, MaxBatch))
  BY <1>3, LimitedServes
<1>5. r = Answered(e, Limited(all, MaxBatch))
  BY DEF FromRecording, rows, all
<1> DEFINE trades == Limited(all, MaxBatch)
<1>6. trades \in Seq(Trade) /\ Serves(e, trades) /\ r = Answered(e, trades)
  BY <1>4, <1>5
<1> HIDE DEF trades, r
<1>7. AnswerIsTrue(r)
  BY <1>6, AnsweredIsTrue
<1>8. r \in Backfill /\ UnderWay(r) /\ r.step = "answered"
  BY <1>6, AnsweredIsRequest
<1> QED
  BY <1>7, <1>8 DEF r

\* Whatever range the browser could ask for now, the answer to it would be true.
LEMMA AnyAnswerIsTrue ==
  ASSUME RecorderTypes, ServerTypes, TapeInv, RowsInv, NEW s \in Symbols,
         NEW from \in Nat \ {0}, NEW to \in Nat
  PROVE  LET read == FromRing(RequestOf(s, from, to))
         IN AnswerIsTrue(IF read.step = "query" THEN FromRecording(read) ELSE read)
<1> DEFINE e == RequestOf(s, from, to)
           read == FromRing(e)
<1>1. IsRequest(e)
  <2> DEFINE holes == <<<<from, to>>>>
  <2>1. holes \in Seq(Hole) /\ holes # <<>>
    BY DEF Hole
  <2> HIDE DEF holes
  <2>2. e = [Idle EXCEPT !.holes = holes, !.cursor = from, !.symbol = s]
    BY DEF RequestOf, holes
  <2>3. Idle \in Backfill
    <3>1. <<>> \in Seq(Hole) /\ <<>> \in Seq(Trade) /\ 0 \in 0 .. MaxRuns
      BY PositiveConstants
    <3> QED
      BY <3>1 DEF Idle, Backfill
  <2>4. Idle.page = 0
    BY DEF Idle
  <2> DEFINE idle == Idle
  <2>5. idle \in Backfill /\ idle.page = 0 /\ e = [idle EXCEPT !.holes = holes, !.cursor = from, !.symbol = s]
    BY <2>2, <2>3, <2>4
  <2> HIDE DEF idle, e
  <2>6. e \in Backfill
    BY <2>1, <2>5 DEF Backfill
  <2>7. e.symbol = s /\ e.holes = holes /\ e.cursor = from /\ e.page = 0
    BY <2>5 DEF Backfill
  <2>8. UnderWay(e)
    BY <2>1, <2>7, PositiveConstants DEF UnderWay
  <2> QED
    BY <2>6, <2>8 DEF IsRequest
<1> HIDE DEF e
<1>2. /\ read \in Backfill /\ UnderWay(read) /\ read.step \in {"query", "answered"}
      /\ read.step = "answered" => AnswerIsTrue(read)
      /\ read.step = "query" => /\ Serves(read, read.found)
                                /\ \A n \in 1 .. Len(read.found) : read.oldest <= read.found[n].seq
  BY <1>1, FromRingServes
<1> HIDE DEF read
<1>3. IsRequest(read)
  BY <1>2 DEF IsRequest
<1>4. CASE read.step = "query"
  <2>1. Serves(read, read.found) /\ \A n \in 1 .. Len(read.found) : read.oldest <= read.found[n].seq
    BY <1>2, <1>4
  <2>2. AnswerIsTrue(FromRecording(read))
    BY <1>3, <2>1, FromRecordingServes
  <2> QED
    BY <1>4, <2>2 DEF read, e
<1>5. CASE read.step # "query"
  <2>1. AnswerIsTrue(read)
    BY <1>2, <1>5
  <2> QED
    BY <1>5, <2>1 DEF read, e
<1> QED
  BY <1>4, <1>5

-----------------------------------------------------------------------------
(* The recorder's books.                                                        *)

LEMMA TimesAreNumbers ==
  ASSUME NEW rows \in Seq(Trade)
  PROVE  Len(rows) \in Nat /\ DOMAIN rows = 1 .. Len(rows)
         /\ \A n \in 1 .. Len(rows) : rows[n].at \in Nat /\ rows[n].run \in Nat
<1>1. \A n \in 1 .. Len(rows) : rows[n] \in Trade
  OBVIOUS
<1> QED
  BY <1>1, FieldsOfTrade

\* Appending a batch whose prints are of this run counts each of them.
LEMMA AppendedCount ==
  ASSUME NEW rows \in Seq(Trade), NEW batch \in Seq(Trade),
         \A n \in 1 .. Len(batch) : batch[n].run = run
  PROVE  /\ IsFiniteSet(OfRun(rows)) /\ Cardinality(OfRun(rows)) \in Nat
         /\ Cardinality(OfRun(rows \o batch)) = Cardinality(OfRun(rows)) + Len(batch)
<1> DEFINE all == rows \o batch
           m == Len(rows)
           k == Len(batch)
           new == m + 1 .. m + k
<1>1. /\ all \in Seq(Trade) /\ Len(all) = m + k /\ m \in Nat /\ k \in Nat
      /\ \A n \in 1 .. m + k : all[n] = IF n <= m THEN rows[n] ELSE batch[n - m]
  BY AppendedSequence
<1>2. DOMAIN rows = 1 .. m /\ DOMAIN all = 1 .. m + k
  BY <1>1
<1> HIDE DEF all, m, k
<1>3. ASSUME NEW r \in Seq(Trade) PROVE IsFiniteSet(OfRun(r)) /\ Cardinality(OfRun(r)) \in Nat
  <2>1. Len(r) \in Int /\ 1 \in Int /\ DOMAIN r = 1 .. Len(r)
    OBVIOUS
  <2>2. IsFiniteSet(1 .. Len(r))
    BY <2>1, FS_Interval
  <2>3. OfRun(r) \in SUBSET (1 .. Len(r))
    BY <2>1 DEF OfRun
  <2> QED
    BY <2>2, <2>3, FS_Subset, FS_CardinalityType
<1>4. OfRun(all) = OfRun(rows) \cup new
  <2>1. ASSUME NEW n \in OfRun(all) PROVE n \in OfRun(rows) \cup new
    <3>1. n \in 1 .. m + k /\ all[n].run = run
      BY <1>2 DEF OfRun
    <3> QED
      BY <3>1, <1>1, <1>2 DEF OfRun
  <2>2. ASSUME NEW n \in OfRun(rows) PROVE n \in OfRun(all)
    <3>1. n \in 1 .. m /\ rows[n].run = run
      BY <1>2 DEF OfRun
    <3>2. n \in 1 .. m + k /\ all[n] = rows[n]
      BY <3>1, <1>1
    <3> QED
      BY <3>1, <3>2, <1>2 DEF OfRun
  <2>3. ASSUME NEW n \in new PROVE n \in OfRun(all)
    <3>1. n \in 1 .. m + k /\ ~(n <= m) /\ n - m \in 1 .. k
      BY <1>1
    <3>2. all[n] = batch[n - m] /\ batch[n - m].run = run
      BY <3>1, <1>1 DEF k
    <3> QED
      BY <3>1, <3>2, <1>2 DEF OfRun
  <2> QED
    BY <2>1, <2>2, <2>3
<1>5. IsFiniteSet(new) /\ Cardinality(new) = k
  <2> DEFINE lo == m + 1
             hi == m + k
  <2>1. lo \in Int /\ hi \in Int /\ new = lo .. hi
    BY <1>1
  <2>2. (lo > hi => k = 0) /\ (~(lo > hi) => hi - lo + 1 = k)
    BY <1>1
  <2> HIDE DEF lo, hi, new
  <2>3. IsFiniteSet(lo .. hi) /\ Cardinality(lo .. hi) = IF lo > hi THEN 0 ELSE hi - lo + 1
    BY <2>1, FS_Interval
  <2> QED
    BY <2>1, <2>2, <2>3
<1>6. OfRun(rows) \cap new = {}
  BY <1>1, <1>2 DEF OfRun
<1> HIDE DEF new
<1>7. Cardinality(OfRun(rows) \cup new) = Cardinality(OfRun(rows)) + Cardinality(new)
  <2>1. IsFiniteSet(OfRun(rows)) /\ Cardinality(OfRun(rows)) \in Nat
    BY <1>3
  <2>2. Cardinality(OfRun(rows) \cup new)
          = Cardinality(OfRun(rows)) + Cardinality(new) - Cardinality(OfRun(rows) \cap new)
    BY <2>1, <1>5, FS_Union
  <2>3. Cardinality(OfRun(rows) \cap new) = 0
    BY <1>6, FS_EmptySet
  <2> QED
    BY <2>1, <2>2, <2>3, <1>1, <1>5
<1> QED
  BY <1>3, <1>4, <1>5, <1>7 DEF all, k

\* Joining rows that follow one another.
LEMMA JoinedRows ==
  ASSUME NEW rows \in Seq(Trade), NEW batch \in Seq(Trade), NEW waiting \in Seq(Trade),
         RowsOf(rows, batch, waiting)
  PROVE  RowsOf(rows \o batch, <<>>, waiting)
<1> DEFINE all == rows \o batch
<1>1. /\ Len(all) = Len(rows) + Len(batch) /\ Len(rows) \in Nat /\ Len(batch) \in Nat
      /\ \A n \in 1 .. Len(rows) + Len(batch) :
           all[n] = IF n <= Len(rows) THEN rows[n] ELSE batch[n - Len(rows)]
  BY AppendedSequence
<1> HIDE DEF all
<1>2. \A n \in 1 .. Len(all) :
        \/ n \in 1 .. Len(rows) /\ all[n] = rows[n]
        \/ n > Len(rows) /\ n - Len(rows) \in 1 .. Len(batch) /\ all[n] = batch[n - Len(rows)]
  BY <1>1
<1>3. AreRows(all)
  BY <1>2 DEF AreRows, RowsOf
<1>4. InReceipt(all)
  <2> SUFFICES ASSUME NEW m \in 1 .. Len(all), NEW n \in 1 .. Len(all), m < n
               PROVE  all[m].at < all[n].at
    BY DEF InReceipt
  <2>1. CASE n \in 1 .. Len(rows) /\ all[n] = rows[n]
    <3>1. m \in 1 .. Len(rows) /\ all[m] = rows[m]
      BY <2>1, <1>1, <1>2
    <3> QED
      BY <2>1, <3>1 DEF RowsOf, InReceipt
  <2>2. CASE n > Len(rows) /\ n - Len(rows) \in 1 .. Len(batch) /\ all[n] = batch[n - Len(rows)]
    <3>1. CASE m \in 1 .. Len(rows) /\ all[m] = rows[m]
      BY <2>2, <3>1 DEF RowsOf, Precedes
    <3>2. CASE m > Len(rows) /\ m - Len(rows) \in 1 .. Len(batch) /\ all[m] = batch[m - Len(rows)]
      <4>1. m - Len(rows) < n - Len(rows)
        BY <1>1
      <4> QED
        BY <2>2, <3>2, <4>1 DEF RowsOf, InReceipt
    <3> QED
      BY <3>1, <3>2, <1>2
  <2> QED
    BY <2>1, <2>2, <1>2
<1>5. Precedes(all, waiting)
  BY <1>2 DEF Precedes, RowsOf
<1>6. AreRows(<<>>) /\ InReceipt(<<>>) /\ Precedes(all, <<>>) /\ Precedes(<<>>, waiting)
  BY DEF AreRows, InReceipt, Precedes
<1> QED
  BY <1>3, <1>4, <1>5, <1>6 DEF RowsOf, all

LEMMA LostRows ==
  ASSUME NEW rows \in Seq(Trade), NEW batch \in Seq(Trade), NEW waiting \in Seq(Trade),
         RowsOf(rows, batch, waiting)
  PROVE  RowsOf(rows, <<>>, waiting)
<1>1. AreRows(<<>>) /\ InReceipt(<<>>) /\ Precedes(rows, <<>>) /\ Precedes(<<>>, waiting)
  BY DEF AreRows, InReceipt, Precedes
<1> QED
  BY <1>1 DEF RowsOf

\* The writer takes the first record of the queue.
LEMMA TakenRows ==
  ASSUME NEW rows \in Seq(Trade), NEW batch \in Seq(Trade), NEW waiting \in Seq(Trade),
         RowsOf(rows, batch, waiting), waiting # <<>>
  PROVE  RowsOf(rows, Append(batch, Head(waiting)), Tail(waiting))
<1> DEFINE head == Head(waiting)
           tail == Tail(waiting)
           all == Append(batch, head)
<1>1. /\ head \in Trade /\ head = waiting[1] /\ Len(waiting) \in Nat \ {0}
      /\ Len(tail) = Len(waiting) - 1
      /\ \A n \in 1 .. Len(waiting) - 1 : tail[n] = waiting[n + 1]
  BY RestAfterHead
<1> HIDE DEF head, tail
<1>2. /\ Len(all) = Len(batch) + 1 /\ Len(batch) \in Nat
      /\ \A n \in 1 .. Len(batch) : all[n] = batch[n]
      /\ all[Len(batch) + 1] = head
  BY <1>1, OneMore
<1> HIDE DEF all
<1>3. 1 \in 1 .. Len(waiting)
      /\ \A n \in 1 .. Len(tail) : n + 1 \in 1 .. Len(waiting) /\ tail[n] = waiting[n + 1] /\ 1 < n + 1
  BY <1>1
<1>4. \A n \in 1 .. Len(all) : \/ n \in 1 .. Len(batch) /\ all[n] = batch[n]
                               \/ n = Len(batch) + 1 /\ all[n] = waiting[1]
  BY <1>1, <1>2
<1>5. AreRows(all) /\ AreRows(tail)
  BY <1>3, <1>4 DEF RowsOf, AreRows
<1>6. InReceipt(tail)
  <2> SUFFICES ASSUME NEW m \in 1 .. Len(tail), NEW n \in 1 .. Len(tail), m < n
               PROVE  tail[m].at < tail[n].at
    BY DEF InReceipt
  <2>1. m + 1 < n + 1
    BY <1>1
  <2> QED
    BY <2>1, <1>3 DEF RowsOf, InReceipt
<1>7. InReceipt(all)
  <2> SUFFICES ASSUME NEW m \in 1 .. Len(all), NEW n \in 1 .. Len(all), m < n
               PROVE  all[m].at < all[n].at
    BY DEF InReceipt
  <2>1. m \in 1 .. Len(batch) /\ all[m] = batch[m]
    BY <1>2, <1>4
  <2> QED
    BY <2>1, <1>3, <1>4 DEF RowsOf, InReceipt, Precedes
<1>8. Precedes(rows, all) /\ Precedes(rows, tail)
  BY <1>3, <1>4 DEF RowsOf, Precedes
<1>9. Precedes(all, tail)
  BY <1>3, <1>4 DEF RowsOf, Precedes, InReceipt
<1> QED
  BY <1>5, <1>6, <1>7, <1>8, <1>9 DEF RowsOf, all, head, tail

\* A batch that is committed or lost leaves the books balanced.
LEMMA WrittenBalances ==
  ASSUME NEW rows \in Seq(Trade), NEW batch \in Seq(Trade), NEW waiting, NEW lost \in Nat,
         Len(waiting) \in Nat, Balanced(rows, batch, waiting, lost)
  PROVE  /\ Balanced(rows \o batch, <<>>, waiting, lost)
         /\ Balanced(rows, <<>>, waiting, lost + Len(batch))
<1>1. /\ Cardinality(OfRun(rows)) \in Nat
      /\ Cardinality(OfRun(rows \o batch)) = Cardinality(OfRun(rows)) + Len(batch)
  BY AppendedCount DEF Balanced
<1>2. Len(batch) \in Nat /\ Len(<<>>) = 0
  OBVIOUS
<1>3. Cardinality(OfRun(rows)) + Len(batch) + Len(waiting) + lost = Cardinality(Received)
  BY DEF Balanced
<1>4. \A n \in 1 .. Len(<<>>) : <<>>[n].run = run
  OBVIOUS
<1>5. Cardinality(OfRun(rows \o batch)) + Len(<<>>) + Len(waiting) + lost = Cardinality(Received)
  BY <1>1, <1>2, <1>3
<1>6. Cardinality(OfRun(rows)) + Len(<<>>) + Len(waiting) + (lost + Len(batch)) = Cardinality(Received)
  BY <1>1, <1>2, <1>3
<1>7. (\A n \in 1 .. Len(waiting) : waiting[n].run = run) /\ IsFiniteSet(Received)
  BY DEF Balanced
<1> QED
  BY <1>4, <1>5, <1>6, <1>7 DEF Balanced

LEMMA TakenBalances ==
  ASSUME NEW rows \in Seq(Trade), NEW batch \in Seq(Trade), NEW waiting \in Seq(Trade),
         NEW lost \in Nat, waiting # <<>>, Balanced(rows, batch, waiting, lost)
  PROVE  Balanced(rows, Append(batch, Head(waiting)), Tail(waiting), lost)
<1> DEFINE head == Head(waiting)
           tail == Tail(waiting)
           all == Append(batch, head)
<1>1. /\ head \in Trade /\ head = waiting[1] /\ Len(waiting) \in Nat \ {0}
      /\ Len(tail) = Len(waiting) - 1
      /\ \A n \in 1 .. Len(waiting) - 1 : tail[n] = waiting[n + 1]
  BY RestAfterHead
<1> HIDE DEF head, tail
<1>2. /\ Len(all) = Len(batch) + 1 /\ Len(batch) \in Nat
      /\ \A n \in 1 .. Len(batch) : all[n] = batch[n]
      /\ all[Len(batch) + 1] = head
  BY <1>1, OneMore
<1> HIDE DEF all
<1>3. ASSUME NEW n \in 1 .. Len(tail) PROVE tail[n].run = run
  <2>1. n + 1 \in 1 .. Len(waiting) /\ tail[n] = waiting[n + 1]
    BY <1>1
  <2> QED
    BY <2>1 DEF Balanced
<1>4. ASSUME NEW n \in 1 .. Len(all) PROVE all[n].run = run
  <2>1. CASE n = Len(batch) + 1
    <3>1. 1 \in 1 .. Len(waiting)
      BY <1>1
    <3> QED
      BY <2>1, <3>1, <1>1, <1>2 DEF Balanced
  <2>2. CASE n # Len(batch) + 1
    <3>1. n \in 1 .. Len(batch) /\ all[n] = batch[n]
      BY <2>2, <1>2
    <3> QED
      BY <3>1 DEF Balanced
  <2> QED
    BY <2>1, <2>2
<1>5. Cardinality(OfRun(rows)) + Len(all) + Len(tail) + lost = Cardinality(Received)
  <2>1. Cardinality(OfRun(rows)) \in Nat
    BY AppendedCount DEF Balanced
  <2>2. Cardinality(OfRun(rows)) + Len(batch) + Len(waiting) + lost = Cardinality(Received)
    BY DEF Balanced
  <2> QED
    BY <2>1, <2>2, <1>1, <1>2
<1>6. IsFiniteSet(Received)
  BY DEF Balanced
<1> QED
  BY <1>3, <1>4, <1>5, <1>6 DEF Balanced, all, head, tail

\* The process and the tape stay as they are.
Still == UNCHANGED <<run, printed, tape>>

LEMMA BooksStay ==
  ASSUME Still, NEW rows, NEW batch, NEW waiting, NEW lost,
         rows = stored', batch = items', waiting = queue', lost = dropped',
         RowsOf(rows, batch, waiting), Balanced(rows, batch, waiting, lost)
  PROVE  RowsInv' /\ Balanced(stored, items, queue, dropped)'
<1>1. run' = run /\ printed' = printed /\ tape' = tape
  BY DEF Still
<1>2. \A p : IsRow(p)' <=> IsRow(p)
  BY <1>1 DEF IsRow, Row
<1>3. RowsInv'
  BY <1>2 DEF RowsInv, RowsOf, AreRows, InReceipt, Precedes
<1>4. OfRun(stored)' = OfRun(rows) /\ Received' = Received
  BY <1>1 DEF OfRun, Received
<1>5. Balanced(stored, items, queue, dropped)'
  BY <1>1, <1>4 DEF Balanced
<1> QED
  BY <1>3, <1>5

\* flush.
LEMMA WrittenKeeps ==
  ASSUME RecorderTypes, Still, NEW batch \in Seq(Trade), Written(batch), queue' \in Seq(Trade),
         RowsOf(stored, batch, queue'), Balanced(stored, batch, queue', dropped)
  PROVE  /\ RowsInv' /\ Balanced(stored, items, queue, dropped)'
         /\ items' = <<>> /\ stored' \in Seq(Trade) /\ dropped' \in Nat
<1> DEFINE waiting == queue'
<1>1. stored \in Seq(Trade) /\ dropped \in Nat /\ waiting \in Seq(Trade) /\ items' = <<>>
      /\ Len(batch) \in Nat /\ Len(waiting) \in Nat
  BY DEF RecorderTypes, Written
<1>2. RowsOf(stored, batch, waiting) /\ Balanced(stored, batch, waiting, dropped)
  OBVIOUS
<1>3. waiting = queue'
  OBVIOUS
<1> HIDE DEF waiting
<1>4. CASE stored' = stored \o batch /\ UNCHANGED dropped
  <2> DEFINE all == stored \o batch
             none == <<>>
  <2>1. RowsOf(all, none, waiting) /\ Balanced(all, none, waiting, dropped)
    BY <1>1, <1>2, JoinedRows, WrittenBalances
  <2>2. all \in Seq(Trade)
    BY <1>1, AppendedSequence
  <2>3. all = stored' /\ none = items' /\ dropped = dropped'
    BY <1>1, <1>4
  <2> HIDE DEF all, none
  <2>4. RowsInv' /\ Balanced(stored, items, queue, dropped)'
    BY <2>1, <2>3, <1>3, BooksStay
  <2> QED
    BY <2>2, <2>3, <2>4, <1>1
<1>5. CASE dropped' = dropped + Len(batch) /\ UNCHANGED stored
  <2> DEFINE lost == dropped + Len(batch)
             none == <<>>
  <2>1. RowsOf(stored, none, waiting) /\ Balanced(stored, none, waiting, lost)
    BY <1>1, <1>2, LostRows, WrittenBalances
  <2>2. lost \in Nat
    BY <1>1
  <2>3. stored = stored' /\ none = items' /\ lost = dropped'
    BY <1>1, <1>5
  <2> HIDE DEF lost, none
  <2>4. RowsInv' /\ Balanced(stored, items, queue, dropped)'
    BY <2>1, <2>3, <1>3, BooksStay
  <2> QED
    BY <2>2, <2>3, <2>4, <1>1
<1> QED
  BY <1>4, <1>5 DEF Written

\* writeLoop.
LEMMA WriterKeeps ==
  ASSUME RecorderTypes, RowsInv, BooksInv, WriterStep, Still
  PROVE  RecorderTypes' /\ RowsInv' /\ BooksInv'
<1>1. /\ queue \in Seq(Trade) /\ items \in Seq(Trade) /\ stored \in Seq(Trade)
      /\ Len(queue) <= QueueSize /\ Len(items) < RecordBatch /\ dropped \in Nat
      /\ writer \in {"open", "closing", "stopped"}
      /\ QueueSize \in Nat \ {0} /\ RecordBatch \in Nat \ {0}
  BY RecorderAssumption DEF RecorderTypes
<1>2. RowsOf(stored, items, queue) /\ Balanced(stored, items, queue, dropped)
  BY DEF RowsInv, BooksInv
<1>3. <<>> \in Seq(Trade) /\ Len(<<>>) = 0
  OBVIOUS
<1>4. CASE TakeItem
  <2> DEFINE gathered == Append(items, Head(queue))
             waiting == Tail(queue)
  <2>1. writer # "stopped" /\ queue # <<>> /\ queue' = waiting /\ writer' = writer
    BY <1>4 DEF TakeItem
  <2>2. Head(queue) \in Trade /\ waiting \in Seq(Trade) /\ Len(waiting) = Len(queue) - 1
        /\ Len(queue) \in Nat
    BY <2>1, <1>1, RestAfterHead
  <2>3. gathered \in Seq(Trade) /\ Len(gathered) \in Nat
    BY <2>2, <1>1, OneMore
  <2>4. RowsOf(stored, gathered, waiting) /\ Balanced(stored, gathered, waiting, dropped)
    BY <2>1, <1>1, <1>2, TakenRows, TakenBalances
  <2>5. CASE Len(gathered) >= RecordBatch
    <3>1. Written(gathered)
      BY <2>5, <1>4 DEF TakeItem
    <3> HIDE DEF gathered
    <3>2. queue' \in Seq(Trade) /\ RowsOf(stored, gathered, queue')
          /\ Balanced(stored, gathered, queue', dropped)
      BY <2>1, <2>2, <2>4
    <3>3. /\ RowsInv' /\ Balanced(stored, items, queue, dropped)'
          /\ items' = <<>> /\ stored' \in Seq(Trade) /\ dropped' \in Nat
      BY <3>1, <3>2, <2>3, WrittenKeeps
    <3>4. RecorderTypes'
      BY <3>3, <2>1, <2>2, <1>1, <1>3 DEF RecorderTypes
    <3> QED
      BY <3>3, <3>4, <2>1 DEF BooksInv
  <2>6. CASE ~(Len(gathered) >= RecordBatch)
    <3>1. gathered = items' /\ stored = stored' /\ dropped = dropped' /\ waiting = queue'
      BY <2>1, <2>6, <1>4 DEF TakeItem
    <3> HIDE DEF gathered, waiting
    <3>2. RowsInv' /\ Balanced(stored, items, queue, dropped)'
      BY <3>1, <2>4, BooksStay
    <3>3. RecorderTypes'
      BY <3>1, <2>1, <2>2, <2>3, <2>6, <1>1 DEF RecorderTypes
    <3> QED
      BY <3>2, <3>3, <2>1 DEF BooksInv
  <2> QED
    BY <2>5, <2>6
<1>5. CASE FlushTick
  <2>1. Written(items) /\ queue' = queue /\ writer' = writer /\ writer # "stopped"
    BY <1>5 DEF FlushTick
  <2>2. queue' \in Seq(Trade) /\ RowsOf(stored, items, queue')
        /\ Balanced(stored, items, queue', dropped)
    BY <2>1, <1>1, <1>2
  <2>3. /\ RowsInv' /\ Balanced(stored, items, queue, dropped)'
        /\ items' = <<>> /\ stored' \in Seq(Trade) /\ dropped' \in Nat
    BY <2>1, <2>2, <1>1, WrittenKeeps
  <2>4. RecorderTypes'
    BY <2>1, <2>3, <1>1, <1>3 DEF RecorderTypes
  <2> QED
    BY <2>1, <2>3, <2>4 DEF BooksInv
<1>6. CASE StopWriting
  <2>1. Written(items) /\ queue' = queue /\ writer' = "stopped" /\ queue = <<>>
    BY <1>6 DEF StopWriting
  <2>2. queue' \in Seq(Trade) /\ RowsOf(stored, items, queue')
        /\ Balanced(stored, items, queue', dropped)
    BY <2>1, <1>1, <1>2
  <2>3. /\ RowsInv' /\ Balanced(stored, items, queue, dropped)'
        /\ items' = <<>> /\ stored' \in Seq(Trade) /\ dropped' \in Nat
    BY <2>1, <2>2, <1>1, WrittenKeeps
  <2>4. RecorderTypes'
    BY <2>1, <2>3, <1>1, <1>3 DEF RecorderTypes
  <2> QED
    BY <2>1, <2>3, <2>4 DEF BooksInv
<1> QED
  BY <1>4, <1>5, <1>6 DEF WriterStep

\* Nothing of the recorder changes, or Close closes the queue.
LEMMA RecorderStays ==
  ASSUME RecorderTypes, RowsInv, BooksInv, Still, UNCHANGED recorderVars \/ CloseQueue
  PROVE  RecorderTypes' /\ RowsInv' /\ BooksInv'
<1>1. /\ queue' = queue /\ items' = items /\ stored' = stored /\ dropped' = dropped
      /\ writer' = writer \/ writer' = "closing"
  BY DEF recorderVars, CloseQueue
<1>2. RowsOf(stored, items, queue) /\ Balanced(stored, items, queue, dropped)
  BY DEF RowsInv, BooksInv
<1>3. stored = stored' /\ items = items' /\ queue = queue' /\ dropped = dropped'
  BY <1>1
<1>4. RowsInv' /\ Balanced(stored, items, queue, dropped)'
  BY <1>2, <1>3, BooksStay
<1>5. RecorderTypes'
  BY <1>1 DEF RecorderTypes
<1>6. (writer = "stopped")' => items' = <<>> /\ queue' = <<>>
  BY <1>1 DEF BooksInv
<1> QED
  BY <1>4, <1>5, <1>6 DEF BooksInv

\* A print: the tape grows at its end, and what was a row remains one.
LEMMA FeedKeepsTape ==
  ASSUME ServerTypes, TapeInv, NEW s \in Symbols, Feed(s)
  PROVE  LET p == [symbol |-> s, run |-> run, seq |-> Len(tape[s]) + 1, at |-> printed + 1]
         IN /\ ServerTypes' /\ TapeInv' /\ p \in Trade /\ Row(p, run', printed', tape')
            /\ \A q \in Trade : IsRow(q) => Row(q, run', printed', tape')
            /\ Received' = Received \cup {<<s, Len(tape[s]) + 1>>}
            /\ <<s, Len(tape[s]) + 1>> \notin Received
<1> DEFINE p == [symbol |-> s, run |-> run, seq |-> Len(tape[s]) + 1, at |-> printed + 1]
           longer == Append(tape[s], p)
<1>1. /\ run \in 1 .. MaxRuns /\ printed \in 0 .. MaxPrints /\ active \in Symbols
      /\ tape \in [Symbols -> Seq(Trade)] /\ tape[s] \in Seq(Trade) /\ Len(tape[s]) \in Nat
      /\ MaxPrints \in Nat /\ Len(tape[s]) <= printed
  BY PositiveConstants DEF ServerTypes, TapeInv
<1>2. /\ printed < MaxPrints /\ tape' = [tape EXCEPT ![s] = longer]
      /\ printed' = printed + 1 /\ run' = run /\ active' = active
  BY DEF Feed
<1>3. p \in Trade
  <2>1. Len(tape[s]) + 1 \in 1 .. MaxPrints /\ printed + 1 \in 1 .. MaxPrints
    BY <1>1, <1>2
  <2> QED
    BY <2>1, <1>1 DEF Trade
<1>4. p.symbol = s /\ p.run = run /\ p.seq = Len(tape[s]) + 1 /\ p.at = printed + 1
  OBVIOUS
<1> HIDE DEF p
<1>5. /\ longer \in Seq(Trade) /\ Len(longer) = Len(tape[s]) + 1
      /\ \A n \in 1 .. Len(tape[s]) : longer[n] = tape[s][n]
      /\ longer[Len(tape[s]) + 1] = p
  BY <1>1, <1>3, OneMore
<1> HIDE DEF longer
<1>6. tape' \in [Symbols -> Seq(Trade)] /\ tape'[s] = longer
      /\ \A t \in Symbols : t # s => tape'[t] = tape[t]
  BY <1>1, <1>2, <1>5
<1>7. ServerTypes'
  <2>1. printed' \in 0 .. MaxPrints
    BY <1>1, <1>2
  <2> QED
    BY <2>1, <1>1, <1>2, <1>6 DEF ServerTypes
<1>8. TapeInv'
  <2> SUFFICES ASSUME NEW t \in Symbols
               PROVE  /\ Len(tape'[t]) <= printed'
                      /\ \A n \in 1 .. Len(tape'[t]) :
                           tape'[t][n].symbol = t /\ tape'[t][n].run = run' /\ tape'[t][n].seq = n
                           /\ tape'[t][n].at <= printed'
    BY DEF TapeInv
  <2>1. /\ Len(tape[t]) <= printed /\ tape[t] \in Seq(Trade) /\ Len(tape[t]) \in Nat
        /\ \A n \in 1 .. Len(tape[t]) :
             tape[t][n].symbol = t /\ tape[t][n].run = run /\ tape[t][n].seq = n
             /\ tape[t][n].at <= printed
    BY <1>1 DEF TapeInv
  <2>2. \A n \in 1 .. Len(tape[t]) : tape[t][n].at \in Nat
    BY <2>1, TimesAreNumbers
  <2>3. \A n \in 1 .. Len(tape[t]) : tape[t][n].at <= printed'
    BY <2>1, <2>2, <1>1, <1>2
  <2>4. CASE t # s
    BY <2>1, <2>3, <2>4, <1>1, <1>2, <1>6
  <2>5. CASE t = s
    <3>1. tape'[t] = longer /\ Len(longer) <= printed'
      BY <2>5, <1>1, <1>2, <1>5, <1>6
    <3>2. ASSUME NEW n \in 1 .. Len(longer)
          PROVE  longer[n].symbol = t /\ longer[n].run = run' /\ longer[n].seq = n
                 /\ longer[n].at <= printed'
      <4>1. CASE n = Len(tape[s]) + 1
        BY <4>1, <2>5, <1>1, <1>2, <1>4, <1>5
      <4>2. CASE n # Len(tape[s]) + 1
        <5>1. n \in 1 .. Len(tape[t]) /\ longer[n] = tape[t][n]
          BY <4>2, <2>5, <1>1, <1>5
        <5> QED
          BY <5>1, <2>1, <2>3, <1>2
      <4> QED
        BY <4>1, <4>2
    <3> QED
      BY <3>1, <3>2
  <2> QED
    BY <2>4, <2>5
<1>9. Row(p, run', printed', tape')
  <2>1. Len(tape[s]) + 1 \in 1 .. Len(tape'[s]) /\ tape'[s][Len(tape[s]) + 1] = p
    BY <1>1, <1>5, <1>6
  <2>2. p.run <= run' /\ p.at <= printed'
    BY <1>1, <1>2, <1>4
  <2>3. p.symbol = s /\ p.seq = Len(tape[s]) + 1
    BY <1>4
  <2>4. p.seq \in 1 .. Len(tape'[p.symbol]) /\ p = tape'[p.symbol][p.seq]
    BY <2>1, <2>3
  <2> QED
    BY <2>2, <2>4 DEF IsRow, Row
<1>10. ASSUME NEW q \in Trade, IsRow(q) PROVE Row(q, run', printed', tape')
  <2>1. q.symbol \in Symbols /\ q.at \in Nat
    BY FieldsOfTrade
  <2>2. q.run <= run' /\ q.at <= printed'
    BY <2>1, <1>1, <1>2, <1>10 DEF IsRow, Row
  <2>3. ASSUME q.run = run' PROVE q.seq \in 1 .. Len(tape'[q.symbol]) /\ q = tape'[q.symbol][q.seq]
    <3>1. q.seq \in 1 .. Len(tape[q.symbol]) /\ q = tape[q.symbol][q.seq]
      BY <2>3, <1>2, <1>10 DEF IsRow, Row
    <3>2. CASE q.symbol = s
      <4>1. q.seq \in 1 .. Len(tape[s]) /\ q = tape[s][q.seq]
        BY <3>1, <3>2
      <4>2. q.seq \in 1 .. Len(longer) /\ longer[q.seq] = tape[s][q.seq]
        BY <4>1, <1>1, <1>5
      <4> QED
        BY <4>1, <4>2, <3>2, <1>6
    <3>3. CASE q.symbol # s
      BY <3>1, <3>3, <2>1, <1>6
    <3> QED
      BY <3>2, <3>3
  <2> QED
    BY <2>2, <2>3 DEF IsRow, Row
<1>11. Received' = Received \cup {<<s, Len(tape[s]) + 1>>}
  <2>1. DOMAIN tape'[s] = DOMAIN tape[s] \cup {Len(tape[s]) + 1}
    BY <1>1, <1>5, <1>6
  <2>2. \A t \in Symbols : t # s => DOMAIN tape'[t] = DOMAIN tape[t]
    BY <1>6
  <2>3. ASSUME NEW x \in Received' PROVE x \in Received \cup {<<s, Len(tape[s]) + 1>>}
    <3>1. PICK t \in Symbols : x \in {t} \X DOMAIN tape'[t]
      BY DEF Received
    <3>2. PICK n \in DOMAIN tape'[t] : x = <<t, n>>
      BY <3>1
    <3>3. t = s \/ n \in DOMAIN tape[t]
      BY <2>2, <3>2
    <3>4. n \in DOMAIN tape[t] \/ (t = s /\ n = Len(tape[s]) + 1)
      BY <2>1, <3>2, <3>3
    <3>5. n \in DOMAIN tape[t] => x \in Received
      BY <3>2 DEF Received
    <3> QED
      BY <3>2, <3>4, <3>5
  <2>4. ASSUME NEW x \in Received PROVE x \in Received'
    <3>1. PICK t \in Symbols : x \in {t} \X DOMAIN tape[t]
      BY DEF Received
    <3>2. DOMAIN tape[t] \subseteq DOMAIN tape'[t]
      BY <2>1, <2>2
    <3>3. x \in {t} \X DOMAIN tape'[t]
      BY <3>1, <3>2
    <3> QED
      BY <3>3 DEF Received
  <2>5. <<s, Len(tape[s]) + 1>> \in Received'
    <3>1. <<s, Len(tape[s]) + 1>> \in {s} \X DOMAIN tape'[s]
      BY <2>1
    <3> QED
      BY <3>1 DEF Received
  <2> QED
    BY <2>3, <2>4, <2>5
<1>12. <<s, Len(tape[s]) + 1>> \notin Received
  <2> SUFFICES ASSUME <<s, Len(tape[s]) + 1>> \in Received PROVE FALSE
    OBVIOUS
  <2>1. PICK t \in Symbols : <<s, Len(tape[s]) + 1>> \in {t} \X DOMAIN tape[t]
    BY DEF Received
  <2>2. t = s /\ Len(tape[s]) + 1 \in DOMAIN tape[t]
    BY <2>1
  <2>3. DOMAIN tape[s] = 1 .. Len(tape[s])
    BY <1>1
  <2> QED
    BY <2>2, <2>3, <1>1
<1> QED
  BY <1>3, <1>7, <1>8, <1>9, <1>10, <1>11, <1>12 DEF p

\* A newer print after rows of the past.
LEMMA NewestRow ==
  ASSUME NEW rows \in Seq(Trade), NEW p \in Trade, \A n \in 1 .. Len(rows) : rows[n].at < p.at
  PROVE  /\ InReceipt(rows) => InReceipt(Append(rows, p))
         /\ \A other : Precedes(other, rows) /\ (\A m \in 1 .. Len(other) : other[m].at < p.at)
                         => Precedes(other, Append(rows, p))
<1> DEFINE all == Append(rows, p)
<1>1. /\ Len(all) = Len(rows) + 1 /\ Len(rows) \in Nat
      /\ \A n \in 1 .. Len(rows) : all[n] = rows[n]
      /\ all[Len(rows) + 1] = p
  BY OneMore
<1> HIDE DEF all
<1>2. \A n \in 1 .. Len(all) : \/ n \in 1 .. Len(rows) /\ all[n] = rows[n]
                               \/ n = Len(rows) + 1 /\ all[n] = p
  BY <1>1
<1>3. ASSUME InReceipt(rows) PROVE InReceipt(all)
  <2> SUFFICES ASSUME NEW m \in 1 .. Len(all), NEW n \in 1 .. Len(all), m < n
               PROVE  all[m].at < all[n].at
    BY DEF InReceipt
  <2>1. m \in 1 .. Len(rows) /\ all[m] = rows[m]
    BY <1>1, <1>2
  <2> QED
    BY <2>1, <1>2, <1>3 DEF InReceipt
<1>4. ASSUME NEW other, Precedes(other, rows), \A m \in 1 .. Len(other) : other[m].at < p.at
      PROVE  Precedes(other, all)
  BY <1>2, <1>4 DEF Precedes
<1> QED
  BY <1>3, <1>4 DEF all

LEMMA FeedKeepsBooks ==
  ASSUME RecorderTypes, ServerTypes, TapeInv, RowsInv, BooksInv, NEW s \in Symbols, Feed(s)
  PROVE  RecorderTypes' /\ RowsInv' /\ BooksInv'
<1> DEFINE p == [symbol |-> s, run |-> run, seq |-> Len(tape[s]) + 1, at |-> printed + 1]
           it == <<s, Len(tape[s]) + 1>>
<1>1. /\ queue \in Seq(Trade) /\ items \in Seq(Trade) /\ stored \in Seq(Trade)
      /\ Len(queue) <= QueueSize /\ Len(items) < RecordBatch /\ dropped \in Nat
      /\ QueueSize \in Nat \ {0} /\ printed \in Nat
  BY RecorderAssumption, PositiveConstants DEF RecorderTypes, ServerTypes
<1>2. RowsOf(stored, items, queue) /\ Balanced(stored, items, queue, dropped)
  BY DEF RowsInv, BooksInv
<1>3. /\ writer = "open" /\ items' = items /\ stored' = stored /\ writer' = writer
      /\ \/ Len(queue) < QueueSize /\ queue' = Append(queue, p) /\ dropped' = dropped
         \/ dropped' = dropped + 1 /\ queue' = queue
      /\ run' = run /\ printed' = printed + 1
  BY DEF Feed, Record
<1>4. /\ p \in Trade /\ Row(p, run', printed', tape') /\ \A q \in Trade : IsRow(q) => Row(q, run', printed', tape')
      /\ Received' = Received \cup {it} /\ it \notin Received
  BY FeedKeepsTape
<1>5. p.at = printed + 1 /\ p.run = run
  OBVIOUS
<1> HIDE DEF p, it
<1>6. ASSUME NEW rows \in Seq(Trade), AreRows(rows)
      PROVE  /\ \A n \in 1 .. Len(rows) : Row(rows[n], run', printed', tape')
             /\ \A n \in 1 .. Len(rows) : rows[n].at < p.at
  <2>1. ASSUME NEW n \in 1 .. Len(rows) PROVE rows[n] \in Trade /\ IsRow(rows[n])
    BY <1>6 DEF AreRows
  <2>2. \A n \in 1 .. Len(rows) : rows[n].at \in Nat /\ rows[n].at <= printed
    <3>1. \A n \in 1 .. Len(rows) : rows[n].at \in Nat
      BY TimesAreNumbers
    <3>2. \A n \in 1 .. Len(rows) : rows[n].at <= printed
      BY <2>1 DEF IsRow, Row
    <3> QED
      BY <3>1, <3>2
  <2>3. \A n \in 1 .. Len(rows) : rows[n].at < p.at
    BY <2>2, <1>1, <1>5
  <2>4. ASSUME NEW n \in 1 .. Len(rows) PROVE Row(rows[n], run', printed', tape')
    <3> DEFINE q == rows[n]
    <3>1. q \in Trade /\ IsRow(q)
      BY <2>1
    <3> QED
      BY <3>1, <1>4
  <2> QED
    BY <2>3, <2>4
<1>7. AreRows(stored) /\ AreRows(items) /\ AreRows(queue)
  BY <1>2 DEF RowsOf
<1>8. AreRows(stored)' /\ AreRows(items)'
  <2>1. \A n \in 1 .. Len(stored) : Row(stored[n], run', printed', tape')
    BY <1>1, <1>6, <1>7
  <2>2. \A n \in 1 .. Len(items) : Row(items[n], run', printed', tape')
    BY <1>1, <1>6, <1>7
  <2> QED
    BY <2>1, <2>2, <1>3 DEF AreRows, IsRow, Row
<1>9. Cardinality(Received') = Cardinality(Received) + 1 /\ IsFiniteSet(Received')
  <2>1. IsFiniteSet(Received)
    BY <1>2 DEF Balanced
  <2> QED
    BY <2>1, <1>4, FS_AddElement
<1>10. OfRun(stored)' = OfRun(stored) /\ Cardinality(OfRun(stored)) \in Nat
  <2>1. Cardinality(OfRun(stored)) \in Nat
    BY <1>1, <1>2, AppendedCount DEF Balanced
  <2> QED
    BY <2>1, <1>3 DEF OfRun
<1>11. Cardinality(OfRun(stored)) + Len(items) + Len(queue) + dropped = Cardinality(Received)
       /\ Len(items) \in Nat /\ Len(queue) \in Nat
  BY <1>1, <1>2 DEF Balanced
<1>12. CASE Len(queue) < QueueSize /\ queue' = Append(queue, p) /\ dropped' = dropped
  <2> DEFINE longer == Append(queue, p)
  <2>1. /\ longer \in Seq(Trade) /\ Len(longer) = Len(queue) + 1
        /\ \A n \in 1 .. Len(queue) : longer[n] = queue[n]
        /\ longer[Len(queue) + 1] = p
    BY <1>1, <1>4, OneMore
  <2>2. InReceipt(longer) /\ Precedes(stored, longer) /\ Precedes(items, longer)
    <3>1. InReceipt(queue) /\ Precedes(stored, queue) /\ Precedes(items, queue)
      BY <1>2 DEF RowsOf
    <3>2. /\ \A n \in 1 .. Len(stored) : stored[n].at < p.at
          /\ \A n \in 1 .. Len(items) : items[n].at < p.at
          /\ \A n \in 1 .. Len(queue) : queue[n].at < p.at
      BY <1>1, <1>6, <1>7
    <3> QED
      BY <3>1, <3>2, <1>1, <1>4, NewestRow
  <2> HIDE DEF longer
  <2>3. queue' = longer /\ dropped' = dropped
    BY <1>12 DEF longer
  <2>4. \A n \in 1 .. Len(longer) : \/ n \in 1 .. Len(queue) /\ longer[n] = queue[n]
                                    \/ longer[n] = p
    BY <2>1, <1>11
  <2>5. AreRows(queue)'
    <3>1. \A n \in 1 .. Len(queue) : Row(queue[n], run', printed', tape')
      BY <1>1, <1>6, <1>7
    <3>2. \A n \in 1 .. Len(longer) : Row(longer[n], run', printed', tape')
      <4> SUFFICES ASSUME NEW n \in 1 .. Len(longer) PROVE Row(longer[n], run', printed', tape')
        OBVIOUS
      <4>1. CASE longer[n] = p
        BY <4>1, <1>4, <2>3 DEF IsRow, Row
      <4>2. CASE n \in 1 .. Len(queue) /\ longer[n] = queue[n]
        BY <4>2, <3>1, <2>3 DEF IsRow, Row
      <4> QED
        BY <4>1, <4>2, <2>4
    <3> QED
      BY <3>2, <2>3 DEF AreRows, IsRow, Row
  <2>6. RowsInv'
    BY <1>2, <1>3, <1>8, <2>2, <2>3, <2>5 DEF RowsInv, RowsOf, InReceipt, Precedes
  <2>7. \A n \in 1 .. Len(longer) : longer[n].run = run
    BY <2>4, <1>2, <1>5 DEF Balanced
  <2>8. Balanced(stored, items, queue, dropped)'
    <3>1. Cardinality(OfRun(stored)) + Len(items) + Len(longer) + dropped = Cardinality(Received')
      BY <2>1, <1>1, <1>9, <1>10, <1>11
    <3>2. \A n \in 1 .. Len(items) : items[n].run = run
      BY <1>2 DEF Balanced
    <3> QED
      BY <3>1, <3>2, <2>3, <2>7, <1>3, <1>9, <1>10 DEF Balanced
  <2>9. RecorderTypes'
    <3>1. Len(longer) <= QueueSize
      BY <2>1, <1>1, <1>11, <1>12
    <3> QED
      BY <3>1, <2>1, <2>3, <1>1, <1>3 DEF RecorderTypes
  <2> QED
    BY <2>6, <2>8, <2>9, <1>3 DEF BooksInv
<1>13. CASE dropped' = dropped + 1 /\ queue' = queue
  <2>1. AreRows(queue)'
    <3>1. \A n \in 1 .. Len(queue) : Row(queue[n], run', printed', tape')
      BY <1>1, <1>6, <1>7
    <3> QED
      BY <3>1, <1>13 DEF AreRows, IsRow, Row
  <2>2. RowsInv'
    BY <1>2, <1>3, <1>8, <1>13, <2>1 DEF RowsInv, RowsOf, InReceipt, Precedes
  <2>3. Balanced(stored, items, queue, dropped)'
    <3>1. Cardinality(OfRun(stored)) + Len(items) + Len(queue) + (dropped + 1) = Cardinality(Received')
      <4>1. Cardinality(Received') = Cardinality(Received) + 1 /\ dropped \in Nat
        BY <1>1, <1>9
      <4> QED
        BY <4>1, <1>10, <1>11
    <3>2. /\ \A n \in 1 .. Len(items) : items[n].run = run
          /\ \A n \in 1 .. Len(queue) : queue[n].run = run
      BY <1>2 DEF Balanced
    <3> QED
      BY <3>1, <3>2, <1>3, <1>9, <1>10, <1>13 DEF Balanced
  <2>4. RecorderTypes'
    BY <1>1, <1>3, <1>13 DEF RecorderTypes
  <2> QED
    BY <2>2, <2>3, <2>4, <1>3 DEF BooksInv
<1> QED
  BY <1>3, <1>12, <1>13

\* A start: no row is of the new run yet.
LEMMA RestartKeepsBooks ==
  ASSUME RecorderTypes, ServerTypes, TapeInv, RowsInv, BooksInv, Restart
  PROVE  RecorderTypes' /\ ServerTypes' /\ TapeInv' /\ RowsInv' /\ BooksInv'
<1>1. /\ queue' = <<>> /\ items' = <<>> /\ dropped' = 0 /\ writer' = "open" /\ stored' = stored
      /\ run < MaxRuns /\ run' = run + 1 /\ printed' = printed /\ active' \in Symbols
      /\ tape' = [s \in Symbols |-> <<>>]
  BY DEF Restart, RecorderRestarts
<1>2. /\ stored \in Seq(Trade) /\ run \in 1 .. MaxRuns /\ MaxRuns \in Nat /\ printed \in Nat
      /\ QueueSize \in Nat /\ 0 < RecordBatch
      /\ printed \in 0 .. MaxPrints
  BY RecorderAssumption, PositiveConstants DEF RecorderTypes, ServerTypes
<1>3. <<>> \in Seq(Trade) /\ Len(<<>>) = 0 /\ DOMAIN <<>> = {}
  OBVIOUS
<1>4. RecorderTypes'
  BY <1>1, <1>2, <1>3 DEF RecorderTypes
<1>5. ServerTypes'
  <2>1. run' \in 1 .. MaxRuns
    BY <1>1, <1>2
  <2>2. tape' \in [Symbols -> Seq(Trade)]
    BY <1>1, <1>3
  <2> QED
    BY <2>1, <2>2, <1>1, <1>2 DEF ServerTypes
<1>6. TapeInv'
  <2>1. \A s \in Symbols : tape'[s] = <<>>
    BY <1>1
  <2> QED
    BY <2>1, <1>1, <1>2, <1>3 DEF TapeInv
<1>7. \A n \in 1 .. Len(stored) : stored[n].run \in Nat /\ stored[n].run <= run /\ stored[n].at <= printed
  <2>1. \A n \in 1 .. Len(stored) : stored[n].run \in Nat
    BY <1>2, TimesAreNumbers
  <2> QED
    BY <2>1 DEF RowsInv, RowsOf, AreRows, IsRow, Row
<1>8. \A n \in 1 .. Len(stored) : stored[n].run < run'
  BY <1>1, <1>2, <1>7
<1>9. \A n \in 1 .. Len(stored) : stored[n].run # run' /\ stored[n].run <= run'
  BY <1>1, <1>2, <1>7, <1>8
<1>10. AreRows(stored)'
  BY <1>1, <1>7, <1>9 DEF AreRows, IsRow, Row
<1>11. RowsInv'
  <2>1. InReceipt(stored)
    BY DEF RowsInv, RowsOf
  <2> QED
    BY <2>1, <1>1, <1>3, <1>10 DEF RowsInv, RowsOf, AreRows, InReceipt, Precedes
<1>12. OfRun(stored)' = {}
  <2>1. DOMAIN stored = 1 .. Len(stored)
    BY <1>2
  <2> QED
    BY <2>1, <1>1, <1>9 DEF OfRun
<1>13. Received' = {}
  <2>1. \A s \in Symbols : DOMAIN tape'[s] = {}
    BY <1>1, <1>3
  <2> QED
    BY <2>1 DEF Received
<1>14. Balanced(stored, items, queue, dropped)'
  <2>1. IsFiniteSet(Received') /\ Cardinality(Received') = 0 /\ Cardinality(OfRun(stored)') = 0
    BY <1>12, <1>13, FS_EmptySet
  <2> QED
    BY <2>1, <1>1, <1>3 DEF Balanced
<1>15. BooksInv'
  BY <1>1, <1>14 DEF BooksInv
<1> QED
  BY <1>4, <1>5, <1>6, <1>11, <1>15

LEMMA TapeStays ==
  ASSUME ServerTypes, TapeInv, Still, active' \in Symbols
  PROVE  ServerTypes' /\ TapeInv'
<1>1. run' = run /\ printed' = printed /\ tape' = tape
  BY DEF Still
<1> QED
  BY <1>1 DEF ServerTypes, TapeInv

-----------------------------------------------------------------------------
(* The backfills, the stream and the buffer.                                    *)

LEMMA IdleIsBackfill ==
  Idle \in Backfill /\ Idle.step = "idle" /\ Idle.page = 0
<1>1. <<>> \in Seq(Hole) /\ <<>> \in Seq(Trade) /\ 0 \in 0 .. MaxRuns
  BY PositiveConstants
<1> QED
  BY <1>1 DEF Idle, Backfill

LEMMA AskingIsBackfill ==
  ASSUME NEW holes \in Seq(Hole), BrowserTypes, holes # <<>> => stream.symbol \in Symbols
  PROVE  /\ Asking(holes) \in Backfill /\ Asking(holes).step \in {"idle", "asked"}
         /\ holes # <<>> => /\ UnderWay(Asking(holes)) /\ Asking(holes).step = "asked"
                            /\ Asking(holes).symbol = stream.symbol
                            /\ Asking(holes).holes = holes
         /\ holes = <<>> => Asking(holes).step = "idle"
<1>1. CASE holes = <<>>
  <2>1. Asking(holes) = Idle
    BY <1>1 DEF Asking
  <2> QED
    BY <1>1, <2>1, IdleIsBackfill
<1>2. CASE holes # <<>>
  <2> DEFINE idle == Idle
             step == "asked"
             cursor == Head(holes)[1]
             symbol == stream.symbol
             a == [idle EXCEPT !.step = step, !.holes = holes, !.cursor = cursor, !.symbol = symbol]
  <2>1. Asking(holes) = a
    BY <1>2 DEF Asking
  <2>2. cursor \in Nat /\ cursor # 0
    <3>1. Head(holes) \in Hole
      BY <1>2, RestAfterHead
    <3> QED
      BY <3>1, FieldsOfHole
  <2>3. symbol \in Symbols /\ symbol \in Symbols \cup {NoSymbol} /\ 0 < MaxPages
    BY <1>2, PositiveConstants
  <2>4. step \in {"idle", "asked", "query", "answered"} /\ step = "asked"
    OBVIOUS
  <2>5. idle \in Backfill /\ idle.page = 0
    BY IdleIsBackfill
  <2> HIDE DEF idle, step, cursor
  <2>6. a \in Backfill
    BY <2>2, <2>3, <2>4, <2>5 DEF Backfill
  <2>7. a.step = step /\ a.holes = holes /\ a.cursor = cursor /\ a.symbol = symbol /\ a.page = 0
    BY <2>5 DEF Backfill
  <2> HIDE DEF a
  <2>8. UnderWay(a)
    BY <1>2, <2>2, <2>3, <2>7 DEF UnderWay
  <2> QED
    BY <1>2, <2>1, <2>4, <2>6, <2>7, <2>8
<1> QED
  BY <1>1, <1>2

LEMMA FillableAreHoles ==
  ASSUME NEW holes \in Seq(Hole), NEW refused
  PROVE  Fillable(holes, refused) \in Seq(Hole)
<1> DEFINE I == {n \in DOMAIN holes : holes[n] \notin refused}
<1>1. I \in SUBSET DOMAIN holes
  OBVIOUS
<1> HIDE DEF I
<1>2. Filtered(holes, I) \in Seq(Hole)
  BY <1>1, FilteredKeepsOrder
<1> QED
  BY <1>2 DEF Fillable, I

LEMMA GapsAreHoles ==
  ASSUME BufferInv(buffer), NEW from \in Nat, NEW to \in Nat
  PROVE  GapsBetween(buffer, from, to) \in Seq(Hole)
<1> DEFINE gaps == buffer.gaps
           I == {n \in DOMAIN gaps : gaps[n][2] >= from /\ gaps[n][1] <= to}
           over == Filtered(gaps, I)
           between == [n \in DOMAIN over |-> <<Max({over[n][1], from}), Min({over[n][2], to})>>]
<1>1. gaps \in Seq(Hole)
  BY DEF BufferInv, Buffer
<1>2. over \in Seq(Hole)
  <2>1. I \in SUBSET DOMAIN gaps
    OBVIOUS
  <2> HIDE DEF I, gaps
  <2> QED
    BY <1>1, <2>1, FilteredKeepsOrder
<1>3. between = GapsBetween(buffer, from, to)
  BY DEF GapsBetween
<1> HIDE DEF over
<1>4. ASSUME NEW n \in DOMAIN over
      PROVE  <<Max({over[n][1], from}), Min({over[n][2], to})>> \in Hole
  <2> DEFINE x == over[n][1]
             y == over[n][2]
  <2>1. over[n] \in Hole
    BY <1>2
  <2>2. x \in Nat \ {0} /\ y \in Nat
    BY <2>1, FieldsOfHole
  <2>3. x \in Int /\ y \in Int /\ from \in Int /\ to \in Int
    BY <2>2
  <2> HIDE DEF x, y
  <2>4. Max({x, from}) \in Int /\ x <= Max({x, from})
    BY <2>3, MaxOfPair
  <2>5. Min({y, to}) \in {y, to}
    BY <2>3, MinOfPair
  <2>6. Max({x, from}) \in Nat \ {0} /\ Min({y, to}) \in Nat
    BY <2>2, <2>4, <2>5
  <2>7. <<Max({x, from}), Min({y, to})>> \in Hole
    BY <2>6 DEF Hole
  <2> QED
    BY <2>7 DEF x, y
<1>5. DOMAIN over = 1 .. Len(over) /\ Len(over) \in Nat
  BY <1>2
<1> HIDE DEF between
<1>6. between \in Seq(Hole)
  BY <1>4, <1>5 DEF between
<1> QED
  BY <1>3, <1>6

\* What an entry of backfill must be.
Honest(e, now, symbol) ==
  /\ e \in Backfill
  /\ e.step # "idle" => symbol \in Symbols /\ UnderWay(e)
  /\ e.step = "query" => /\ ServesIn(e, e.found, now)
                         /\ \A n \in 1 .. Len(e.found) : e.oldest <= e.found[n].seq
  /\ e.step = "answered" => AnswerIsTrue(e)

\* The stream is of a symbol once it is up or something is in the buffer.
StreamInv ==
  /\ stream \in Stream /\ unfillable \subseteq Hole
  /\ stream.up => stream.symbol \in Symbols
  /\ buffer.events # <<>> => stream.symbol \in Symbols

LEMMA AllAreHonest ==
  ASSUME BrowserTypes, AnswersInv
  PROVE  /\ StreamInv /\ backfill \in [Rewinds -> Backfill]
         /\ \A b \in Rewinds : Honest(backfill[b], run, stream.symbol)
<1>1. backfill \in [Rewinds -> Backfill]
  BY DEF BrowserTypes
<1>2. \A b \in Rewinds : Honest(backfill[b], run, stream.symbol)
  BY <1>1 DEF BrowserTypes, AnswersInv, Honest, Serves
<1>3. StreamInv
  BY DEF BrowserTypes, StreamInv
<1> QED
  BY <1>1, <1>2, <1>3

\* An entry stays honest while the process lives and the stream has a symbol.
LEMMA HonestStays ==
  ASSUME NEW e, NEW now, NEW symbol, NEW other, Honest(e, now, symbol),
         symbol \in Symbols => other \in Symbols
  PROVE  Honest(e, now, other)
BY DEF Honest

LEMMA IdleIsHonest ==
  ASSUME NEW e \in Backfill, e.step \in {"idle", "asked"}, NEW now, NEW symbol,
         e.step = "asked" => symbol \in Symbols /\ UnderWay(e)
  PROVE  Honest(e, now, symbol)
BY DEF Honest

LEMMA HonestTogether ==
  ASSUME StreamInv', backfill' \in [Rewinds -> Backfill],
         \A b \in Rewinds : Honest(backfill'[b], run', stream'.symbol)
  PROVE  BrowserTypes' /\ AnswersInv'
BY DEF BrowserTypes, AnswersInv, Honest, StreamInv, Serves

\* One backfill moves on.
LEMMA OneMovesOn ==
  ASSUME BrowserTypes, AnswersInv, StreamInv', run' = run, stream' = stream,
         NEW b \in Rewinds, NEW e, Honest(e, run, stream.symbol),
         backfill' = [backfill EXCEPT ![b] = e]
  PROVE  BrowserTypes' /\ AnswersInv'
<1>1. backfill \in [Rewinds -> Backfill] /\ e \in Backfill
      /\ \A c \in Rewinds : Honest(backfill[c], run, stream.symbol)
  BY AllAreHonest DEF Honest
<1>2. backfill' \in [Rewinds -> Backfill]
  BY <1>1
<1>3. ASSUME NEW c \in Rewinds PROVE Honest(backfill'[c], run, stream.symbol)
  <2>1. CASE c = b
    <3>1. backfill'[c] = e
      BY <2>1, <1>1
    <3> QED
      BY <3>1
  <2>2. CASE c # b
    <3>1. backfill'[c] = backfill[c]
      BY <2>2, <1>1
    <3> QED
      BY <3>1, <1>1
  <2> QED
    BY <2>1, <2>2
<1>4. \A c \in Rewinds : Honest(backfill'[c], run', stream'.symbol)
  BY <1>3
<1> QED
  BY <1>2, <1>4, HonestTogether

\* The backfills stay as they are.
LEMMA NoneMovesOn ==
  ASSUME BrowserTypes, AnswersInv, StreamInv', run' = run, backfill' = backfill,
         stream.symbol \in Symbols => stream'.symbol \in Symbols
  PROVE  BrowserTypes' /\ AnswersInv'
<1>1. backfill \in [Rewinds -> Backfill]
      /\ \A c \in Rewinds : Honest(backfill[c], run, stream.symbol)
  BY AllAreHonest
<1>2. \A c \in Rewinds : Honest(backfill[c], run, stream'.symbol)
  BY <1>1, HonestStays
<1>3. \A c \in Rewinds : Honest(backfill'[c], run', stream'.symbol)
  BY <1>2
<1>4. backfill' \in [Rewinds -> Backfill]
  BY <1>1
<1> QED
  BY <1>3, <1>4, HonestTogether

\* The requests that the server has not answered are lost with it.
LEMMA UnansweredAreLost ==
  ASSUME BrowserTypes, AnswersInv, StreamInv', stream'.symbol = stream.symbol,
         backfill' = Unanswered
  PROVE  BrowserTypes' /\ AnswersInv'
<1>1. backfill \in [Rewinds -> Backfill]
      /\ \A c \in Rewinds : Honest(backfill[c], run, stream.symbol)
  BY AllAreHonest
<1>2. ASSUME NEW c \in Rewinds
      PROVE  Unanswered[c] \in Backfill /\ Honest(Unanswered[c], run', stream.symbol)
  <2>1. CASE backfill[c].step \in {"asked", "query"}
    <3>1. Unanswered[c] = Idle
      BY <2>1 DEF Unanswered
    <3>2. Honest(Idle, run', stream.symbol)
      BY IdleIsBackfill, IdleIsHonest
    <3> QED
      BY <3>1, <3>2, IdleIsBackfill
  <2>2. CASE backfill[c].step \notin {"asked", "query"}
    <3>1. Unanswered[c] = backfill[c] /\ backfill[c] \in Backfill
      BY <2>2, <1>1 DEF Unanswered
    <3>2. backfill[c].step # "query" /\ Honest(backfill[c], run, stream.symbol)
      BY <2>2, <1>1
    <3>3. Honest(backfill[c], run', stream.symbol)
      BY <3>2 DEF Honest
    <3> QED
      BY <3>1, <3>3
  <2> QED
    BY <2>1, <2>2
<1>3. Unanswered \in [Rewinds -> Backfill]
  BY <1>2 DEF Unanswered
<1> QED
  BY <1>2, <1>3, HonestTogether

\* What the browser has, and what the server answers it.
BrowserInv == BrowserTypes /\ AnswersInv /\ BufferInv(buffer)

LEMMA SameBuffer ==
  ASSUME StreamInv, BufferInv(buffer), UNCHANGED <<buffer, unfillable, stream>>
  PROVE  StreamInv' /\ BufferInv(buffer)'
BY DEF StreamInv

LEMMA StreamOfBrowser ==
  ASSUME BrowserTypes
  PROVE  StreamInv
BY DEF BrowserTypes, StreamInv

LEMMA RewindKeeps ==
  ASSUME BrowserInv, NEW b \in Rewinds, Rewind(b)
  PROVE  BrowserInv'
<1>1. BrowserTypes /\ AnswersInv /\ BufferInv(buffer) /\ StreamInv
  BY StreamOfBrowser DEF BrowserInv
<1>2. PICK from, to \in {e.seq : e \in ToSet(buffer.events)} :
        LET holes == Fillable(GapsBetween(buffer, from, to), unfillable)
        IN holes # <<>> /\ backfill' = [backfill EXCEPT ![b] = Asking(holes)]
  BY DEF Rewind
<1>3. from \in Nat /\ to \in Nat /\ buffer.events # <<>>
  <2>1. buffer.events \in Seq(Event)
    BY <1>1 DEF BufferInv, Buffer
  <2>2. ASSUME NEW x \in {e.seq : e \in ToSet(buffer.events)} PROVE x \in Nat
    <3>1. PICK n \in DOMAIN buffer.events : x = buffer.events[n].seq
      BY DEF ToSet
    <3>2. buffer.events[n] \in Event
      BY <2>1
    <3>3. x \in 1 .. MaxPrints /\ MaxPrints \in Nat
      BY <3>1, <3>2, PositiveConstants DEF Event
    <3> QED
      BY <3>3
  <2>3. buffer.events # <<>>
    BY DEF ToSet
  <2> QED
    BY <2>2, <2>3
<1> DEFINE holes == Fillable(GapsBetween(buffer, from, to), unfillable)
           e == Asking(holes)
<1>4. holes # <<>> /\ backfill' = [backfill EXCEPT ![b] = e]
  BY <1>2
<1>5. holes \in Seq(Hole)
  BY <1>1, <1>3, GapsAreHoles, FillableAreHoles
<1>6. stream.symbol \in Symbols
  BY <1>1, <1>3 DEF StreamInv
<1> HIDE DEF holes
<1>7. e \in Backfill /\ UnderWay(e) /\ e.step = "asked"
  BY <1>1, <1>4, <1>5, <1>6, AskingIsBackfill
<1> HIDE DEF e
<1>8. Honest(e, run, stream.symbol)
  BY <1>6, <1>7, IdleIsHonest
<1>9. UNCHANGED <<buffer, unfillable, stream>> /\ run' = run
  BY DEF Rewind
<1>10. StreamInv' /\ BufferInv(buffer)'
  BY <1>1, <1>9, SameBuffer
<1>11. BrowserTypes' /\ AnswersInv'
  BY <1>1, <1>4, <1>8, <1>9, <1>10, OneMovesOn
<1> QED
  BY <1>10, <1>11 DEF BrowserInv

LEMMA AnsweringKeeps ==
  ASSUME RecorderTypes, ServerTypes, TapeInv, RowsInv, BrowserInv, NEW b \in Rewinds,
         ReadRing(b) \/ ReadStored(b) \/ FetchFails(b)
  PROVE  BrowserInv'
<1>1. BrowserTypes /\ AnswersInv /\ BufferInv(buffer) /\ StreamInv
  BY StreamOfBrowser DEF BrowserInv
<1> DEFINE e == backfill[b]
<1>2. Honest(e, run, stream.symbol)
  BY <1>1, AllAreHonest
<1>3. UNCHANGED <<buffer, unfillable, stream>> /\ run' = run
  BY DEF ReadRing, ReadStored, FetchFails
<1>4. StreamInv' /\ BufferInv(buffer)'
  BY <1>1, <1>3, SameBuffer
<1>5. \E f : Honest(f, run, stream.symbol) /\ backfill' = [backfill EXCEPT ![b] = f]
  <2>1. CASE ReadRing(b)
    <3>1. e.step = "asked" /\ backfill' = [backfill EXCEPT ![b] = FromRing(e)]
      BY <2>1 DEF ReadRing
    <3>2. IsRequest(e) /\ stream.symbol \in Symbols
      BY <1>2, <3>1 DEF Honest, IsRequest
    <3> HIDE DEF e
    <3> DEFINE r == FromRing(e)
    <3>3. /\ r \in Backfill /\ UnderWay(r) /\ r.step \in {"query", "answered"}
          /\ r.step = "answered" => AnswerIsTrue(r)
          /\ r.step = "query" => /\ Serves(r, r.found)
                                 /\ \A n \in 1 .. Len(r.found) : r.oldest <= r.found[n].seq
      BY <3>2, FromRingServes
    <3> HIDE DEF r
    <3>4. Honest(r, run, stream.symbol)
      BY <3>2, <3>3 DEF Honest, Serves
    <3> QED
      BY <3>1, <3>4 DEF r
  <2>2. CASE ReadStored(b)
    <3>1. e.step = "query" /\ backfill' = [backfill EXCEPT ![b] = FromRecording(e)]
      BY <2>2 DEF ReadStored
    <3>2. IsRequest(e) /\ stream.symbol \in Symbols /\ Serves(e, e.found)
          /\ \A n \in 1 .. Len(e.found) : e.oldest <= e.found[n].seq
      BY <1>2, <3>1 DEF Honest, IsRequest, Serves
    <3> HIDE DEF e
    <3> DEFINE r == FromRecording(e)
    <3>3. r \in Backfill /\ UnderWay(r) /\ r.step = "answered" /\ AnswerIsTrue(r)
      BY <3>2, FromRecordingServes
    <3> HIDE DEF r
    <3>4. Honest(r, run, stream.symbol)
      BY <3>2, <3>3 DEF Honest
    <3> QED
      BY <3>1, <3>4 DEF r
  <2>3. CASE FetchFails(b)
    <3>1. backfill' = [backfill EXCEPT ![b] = Idle]
      BY <2>3 DEF FetchFails
    <3>2. Honest(Idle, run, stream.symbol)
      BY IdleIsBackfill, IdleIsHonest
    <3> QED
      BY <3>1, <3>2
  <2> QED
    BY <2>1, <2>2, <2>3
<1>6. BrowserTypes' /\ AnswersInv'
  BY <1>1, <1>3, <1>4, <1>5, OneMovesOn
<1> QED
  BY <1>4, <1>6 DEF BrowserInv

\* An answer arrives.
LEMMA ReceiveKeeps ==
  ASSUME BrowserInv, NEW b \in Rewinds, Receive(b)
  PROVE  BrowserInv'
<1>1. BrowserTypes /\ AnswersInv /\ BufferInv(buffer) /\ StreamInv
  BY StreamOfBrowser DEF BrowserInv
<1> DEFINE e == backfill[b]
           hole == Head(e.holes)
           collected == e.collected \o e.found
           more == /\ e.found # <<>> /\ ~e.complete /\ e.next > e.cursor /\ e.next <= hole[2]
                   /\ e.page + 1 < MaxPages
           next == [Asking(e.holes) EXCEPT !.cursor = e.next, !.page = e.page + 1,
                                           !.collected = collected]
           rest == Fillable(Tail(e.holes), unfillable')
<1>2. Honest(e, run, stream.symbol) /\ e.step = "answered"
  BY <1>1, AllAreHonest DEF Receive
<1>3. /\ more => backfill' = [backfill EXCEPT ![b] = next] /\ UNCHANGED <<buffer, unfillable>>
      /\ ~more => /\ unfillable' = IF collected = <<>> THEN unfillable \cup {hole} ELSE unfillable
                  /\ buffer' = IF collected = <<>> THEN buffer ELSE Merge(buffer, collected)
                  /\ backfill' = [backfill EXCEPT ![b] = Asking(rest)]
      /\ stream' = stream /\ run' = run
  BY DEF Receive
<1>4. /\ e \in Backfill /\ UnderWay(e) /\ stream.symbol \in Symbols
      /\ e.holes \in Seq(Hole) /\ e.holes # <<>> /\ e.page \in Nat /\ e.cursor \in Nat
      /\ e.next \in Nat /\ e.collected \in Seq(Trade) /\ e.found \in Seq(Trade)
  BY <1>2 DEF Honest, UnderWay, Backfill
<1>5. collected \in Seq(Trade)
  BY <1>4, AppendedSequence
<1> HIDE DEF e, collected
<1>6. CASE more
  <2> DEFINE first == Asking(e.holes)
             cursor == e.next
             page == e.page + 1
  <2>1. cursor \in Nat /\ cursor # 0 /\ page \in Nat /\ page < MaxPages
    BY <1>4, <1>6
  <2>2. /\ first \in Backfill /\ first.step = "asked" /\ UnderWay(first)
    BY <1>1, <1>4, AskingIsBackfill
  <2>3. next = [first EXCEPT !.cursor = cursor, !.page = page, !.collected = collected]
    OBVIOUS
  <2> HIDE DEF first, cursor, page, next
  <2>4. next \in Backfill /\ next.step = "asked" /\ next.symbol = first.symbol
        /\ next.holes = first.holes /\ next.cursor = cursor /\ next.page = page
    BY <2>1, <2>2, <2>3, <1>5 DEF Backfill
  <2>5. UnderWay(next)
    BY <2>1, <2>2, <2>4 DEF UnderWay
  <2>6. Honest(next, run, stream.symbol)
    BY <2>4, <2>5, <1>4, IdleIsHonest
  <2>7. UNCHANGED <<buffer, unfillable, stream>> /\ run' = run
        /\ backfill' = [backfill EXCEPT ![b] = next]
    BY <1>3, <1>6
  <2>8. StreamInv' /\ BufferInv(buffer)'
    BY <2>7, <1>1, SameBuffer
  <2>9. BrowserTypes' /\ AnswersInv'
    BY <1>1, <2>6, <2>7, <2>8, OneMovesOn
  <2> QED
    BY <2>8, <2>9 DEF BrowserInv
<1>7. CASE ~more
  <2>1. /\ unfillable' = IF collected = <<>> THEN unfillable \cup {hole} ELSE unfillable
        /\ buffer' = IF collected = <<>> THEN buffer ELSE Merge(buffer, collected)
        /\ backfill' = [backfill EXCEPT ![b] = Asking(rest)]
        /\ stream' = stream /\ run' = run
    BY <1>3, <1>7
  <2> HIDE DEF more, next
  <2>2. hole \in Hole /\ Tail(e.holes) \in Seq(Hole)
    BY <1>4, RestAfterHead
  <2>3. unfillable' \subseteq Hole
    BY <2>1, <2>2, <1>1 DEF StreamInv
  <2>4. BufferInv(buffer')
    <3>1. BufferInv(Merge(buffer, collected))
      BY <1>1, <1>5, MergeKeeps
    <3> QED
      BY <2>1, <3>1, <1>1
  <2>5. StreamInv'
    BY <2>1, <2>3, <1>1, <1>4 DEF StreamInv
  <2>6. rest \in Seq(Hole)
    BY <2>2, FillableAreHoles
  <2> DEFINE asking == Asking(rest)
  <2> HIDE DEF rest
  <2>7. asking \in Backfill /\ asking.step \in {"idle", "asked"}
        /\ (asking.step = "asked" => UnderWay(asking))
    BY <2>6, <1>1, <1>4, AskingIsBackfill
  <2> HIDE DEF asking
  <2>8. Honest(asking, run, stream.symbol)
    BY <2>7, <1>4, IdleIsHonest
  <2>9. backfill' = [backfill EXCEPT ![b] = asking]
    BY <2>1 DEF asking
  <2>10. BrowserTypes' /\ AnswersInv'
    BY <1>1, <2>1, <2>5, <2>8, <2>9, OneMovesOn
  <2> QED
    BY <2>4, <2>10 DEF BrowserInv
<1> QED
  BY <1>6, <1>7

\* A print of the stream.
LEMMA DeliverKeeps ==
  ASSUME ServerTypes, TapeInv, BrowserInv, Deliver
  PROVE  BrowserInv'
<1>1. BrowserTypes /\ AnswersInv /\ BufferInv(buffer) /\ StreamInv
  BY StreamOfBrowser DEF BrowserInv
<1> DEFINE s == stream.symbol
           next == Max({stream.seq + 1, Oldest(s)})
<1>2. /\ stream.up /\ s = active /\ next \in DOMAIN tape[s]
      /\ buffer' = Pushed(buffer, tape[s][next]) /\ stream' = [stream EXCEPT !.seq = next]
      /\ unfillable' = unfillable /\ backfill' = backfill /\ run' = run
  BY DEF Deliver
<1> HIDE DEF next
<1>3. /\ s \in Symbols /\ tape[s] \in Seq(Trade) /\ Len(tape[s]) \in Nat
      /\ Len(tape[s]) <= MaxPrints /\ next \in 0 .. MaxPrints
  <2>1. s \in Symbols /\ tape[s] \in Seq(Trade) /\ printed \in 0 .. MaxPrints
    BY <1>2 DEF ServerTypes
  <2>2. Len(tape[s]) \in Nat /\ DOMAIN tape[s] = 1 .. Len(tape[s])
    BY <2>1
  <2>3. Len(tape[s]) <= printed
    BY <2>1 DEF TapeInv
  <2> QED
    BY <1>2, <2>1, <2>2, <2>3, PositiveConstants
<1>4. IsPrint(tape[s][next])
  <2>1. tape[s][next] \in Trade
    BY <1>2, <1>3
  <2> QED
    BY <2>1, FieldsOfTrade DEF IsPrint
<1>5. BufferInv(buffer')
  BY <1>1, <1>2, <1>4, PushedKeeps
<1>6. StreamInv' /\ stream'.symbol = stream.symbol
  BY <1>1, <1>2, <1>3 DEF StreamInv, Stream
<1>7. BrowserTypes' /\ AnswersInv'
  BY <1>1, <1>2, <1>6, NoneMovesOn
<1> QED
  BY <1>5, <1>7 DEF BrowserInv

\* A snapshot.
LEMMA SnapshotKeeps ==
  ASSUME ServerTypes, TapeInv, BrowserInv, Snapshot
  PROVE  BrowserInv'
<1>1. BrowserTypes /\ AnswersInv /\ BufferInv(buffer) /\ StreamInv
  BY StreamOfBrowser DEF BrowserInv
<1> DEFINE newest == Len(tape[active])
           trades == Resident(active, newest - SnapshotTrades + 1, newest)
<1>2. /\ stream' = [up |-> TRUE, symbol |-> active, run |-> run, seq |-> newest]
      /\ buffer' = PushedAll(Reset(buffer), trades)
      /\ unfillable' = unfillable /\ backfill' = backfill /\ run' = run
  BY DEF Snapshot
<1>3. active \in Symbols /\ newest \in Nat /\ newest \in 0 .. MaxPrints /\ run \in 0 .. MaxRuns
  <2>1. active \in Symbols /\ tape[active] \in Seq(Trade) /\ printed \in 0 .. MaxPrints
        /\ run \in 1 .. MaxRuns
    BY DEF ServerTypes
  <2>2. newest \in Nat /\ newest <= printed
    BY <2>1 DEF TapeInv
  <2> QED
    BY <2>1, <2>2, PositiveConstants
<1>4. trades \in Seq(Trade)
  <2>1. newest - SnapshotTrades + 1 \in Int
    BY <1>3, PositiveConstants
  <2> QED
    BY <2>1, <1>3, ResidentServes
<1> HIDE DEF trades, newest
<1>5. Len(trades) \in Nat /\ \A n \in 1 .. Len(trades) : IsPrint(trades[n])
  <2>1. \A n \in 1 .. Len(trades) : trades[n] \in Trade
    BY <1>4
  <2> QED
    BY <2>1, <1>4, FieldsOfTrade DEF IsPrint
<1>6. BufferInv(buffer')
  BY <1>1, <1>2, <1>5, ResetKeeps, PushedAllKeeps
<1>7. StreamInv' /\ stream'.symbol \in Symbols
  BY <1>1, <1>2, <1>3 DEF StreamInv, Stream
<1>8. BrowserTypes' /\ AnswersInv'
  BY <1>1, <1>2, <1>7, NoneMovesOn
<1> QED
  BY <1>6, <1>8 DEF BrowserInv

\* The connection ends, with the server or without it.
LEMMA EndOfStream ==
  ASSUME StreamInv, BufferInv(buffer), stream' = [stream EXCEPT !.up = FALSE],
         UNCHANGED <<buffer, unfillable>>
  PROVE  StreamInv' /\ BufferInv(buffer)' /\ stream'.symbol = stream.symbol
BY DEF StreamInv, Stream

LEMMA DisconnectKeeps ==
  ASSUME BrowserInv, Disconnect
  PROVE  BrowserInv'
<1>1. BrowserTypes /\ AnswersInv /\ BufferInv(buffer) /\ StreamInv
  BY StreamOfBrowser DEF BrowserInv
<1>2. stream' = [stream EXCEPT !.up = FALSE] /\ UNCHANGED <<buffer, unfillable>>
      /\ backfill' = backfill /\ run' = run
  BY DEF Disconnect
<1>3. StreamInv' /\ BufferInv(buffer)' /\ stream'.symbol = stream.symbol
  BY <1>1, <1>2, EndOfStream
<1>4. BrowserTypes' /\ AnswersInv'
  BY <1>1, <1>2, <1>3, NoneMovesOn
<1> QED
  BY <1>3, <1>4 DEF BrowserInv

LEMMA ServerEndKeeps ==
  ASSUME BrowserInv, Shutdown \/ Restart
  PROVE  BrowserInv'
<1>1. BrowserTypes /\ AnswersInv /\ BufferInv(buffer) /\ StreamInv
  BY StreamOfBrowser DEF BrowserInv
<1>2. stream' = [stream EXCEPT !.up = FALSE] /\ UNCHANGED <<buffer, unfillable>>
      /\ backfill' = Unanswered
  BY DEF Shutdown, Restart
<1>3. StreamInv' /\ BufferInv(buffer)' /\ stream'.symbol = stream.symbol
  BY <1>1, <1>2, EndOfStream
<1>4. BrowserTypes' /\ AnswersInv'
  BY <1>1, <1>2, <1>3, UnansweredAreLost
<1> QED
  BY <1>3, <1>4 DEF BrowserInv

\* The server goes on by itself.
LEMMA BrowserStays ==
  ASSUME BrowserInv, UNCHANGED <<run, stream, buffer, unfillable, backfill>>
  PROVE  BrowserInv'
<1>1. BrowserTypes /\ AnswersInv /\ BufferInv(buffer) /\ StreamInv
  BY StreamOfBrowser DEF BrowserInv
<1>2. StreamInv' /\ BufferInv(buffer)'
  BY <1>1, SameBuffer
<1>3. BrowserTypes' /\ AnswersInv'
  BY <1>1, <1>2, NoneMovesOn
<1> QED
  BY <1>2, <1>3 DEF BrowserInv

-----------------------------------------------------------------------------
(* The theorems.                                                              *)

LEMMA InvStarts ==
  ASSUME RewindInit
  PROVE  RewindInv
<1>1. /\ queue = <<>> /\ items = <<>> /\ stored = <<>> /\ dropped = 0 /\ writer = "open"
      /\ run = 1 /\ printed = 0 /\ tape = [s \in Symbols |-> <<>>] /\ active \in Symbols
      /\ stream = [up |-> FALSE, symbol |-> NoSymbol, run |-> 0, seq |-> 0]
      /\ buffer = NewBuffer /\ unfillable = {} /\ backfill = [b \in Rewinds |-> Idle]
  BY DEF RewindInit, RecorderInit
<1>2. <<>> \in Seq(Trade) /\ <<>> \in Seq(Event) /\ <<>> \in Seq(Hole) /\ Len(<<>>) = 0
      /\ DOMAIN <<>> = {}
  OBVIOUS
<1>3. QueueSize \in Nat \ {0} /\ RecordBatch \in Nat \ {0} /\ MaxPrints \in Nat
      /\ MaxRuns \in Nat \ {0} /\ Capacity \in Nat
  BY RecorderAssumption, LiveRewindAssumption
<1>4. RecorderTypes
  BY <1>1, <1>2, <1>3 DEF RecorderTypes
<1>5. ServerTypes
  <2>1. tape \in [Symbols -> Seq(Trade)]
    BY <1>1, <1>2
  <2> QED
    BY <2>1, <1>1, <1>3 DEF ServerTypes
<1>6. TapeInv
  <2>1. \A s \in Symbols : tape[s] = <<>>
    BY <1>1
  <2> QED
    BY <2>1, <1>1, <1>2 DEF TapeInv
<1>7. RowsInv
  BY <1>1, <1>2 DEF RowsInv, RowsOf, AreRows, InReceipt, Precedes
<1>8. BooksInv
  <2>1. Received = {}
    <3>1. \A s \in Symbols : DOMAIN tape[s] = {}
      BY <1>1, <1>2
    <3> QED
      BY <3>1 DEF Received
  <2>2. OfRun(stored) = {}
    BY <1>1, <1>2 DEF OfRun
  <2>3. IsFiniteSet(Received) /\ Cardinality(Received) = 0 /\ Cardinality(OfRun(stored)) = 0
    BY <2>1, <2>2, FS_EmptySet
  <2> QED
    BY <2>3, <1>1, <1>2 DEF BooksInv, Balanced
<1>9. buffer.events = <<>> /\ BufferInv(buffer)
  <2> DEFINE none == <<>>
             one == 1
             base == [volume |-> 0, prints |-> 0]
  <2>1. none \in Seq(Event) /\ none \in Seq(Hole) /\ one \in Nat \ {0}
        /\ base \in [volume : Nat, prints : Nat] /\ Len(none) = 0 /\ none = <<>>
    BY <1>2
  <2>2. buffer = [events |-> none, printsAtHead |-> one, base |-> base, gaps |-> none]
    BY <1>1 DEF NewBuffer, NoBase
  <2> HIDE DEF none, one, base
  <2>3. buffer \in Buffer /\ buffer.events = none /\ buffer.gaps = none
    BY <2>1, <2>2 DEF Buffer
  <2>4. Totals(buffer.events, buffer.base.volume)
    BY <2>1, <2>3 DEF Totals
  <2>5. Len(buffer.events) <= Capacity
    BY <2>1, <2>3, <1>3
  <2> QED
    BY <2>1, <2>3, <2>4, <2>5 DEF BufferInv
<1>10. BrowserTypes /\ AnswersInv
  <2>1. \A b \in Rewinds : backfill[b] = Idle
    BY <1>1
  <2>2. Idle \in Backfill /\ Idle.step = "idle"
    BY IdleIsBackfill
  <2>3. backfill \in [Rewinds -> Backfill]
    BY <1>1, <2>2
  <2>4. \A b \in Rewinds : backfill[b].step = "idle"
    BY <2>1, <2>2
  <2>5. stream \in Stream /\ stream.up = FALSE
    BY <1>1, <1>3 DEF Stream
  <2>6. AnswersInv
    BY <2>4 DEF AnswersInv
  <2>7. BrowserTypes
    BY <2>3, <2>4, <2>5, <1>1, <1>9 DEF BrowserTypes
  <2> QED
    BY <2>6, <2>7
<1> QED
  BY <1>4, <1>5, <1>6, <1>7, <1>8, <1>9, <1>10 DEF RewindInv

\* Each step keeps the invariant.
LEMMA InvIsKept ==
  ASSUME RewindInv, [RewindNext]_vars
  PROVE  RewindInv'
<1>1. /\ RecorderTypes /\ ServerTypes /\ TapeInv /\ RowsInv /\ BooksInv /\ BrowserInv
      /\ active \in Symbols
  BY DEF RewindInv, BrowserInv, ServerTypes
<1> SUFFICES /\ RecorderTypes' /\ ServerTypes' /\ TapeInv' /\ RowsInv' /\ BooksInv'
             /\ BrowserInv'
  BY DEF RewindInv, BrowserInv
<1>2. ASSUME NEW s \in Symbols, Feed(s)
      PROVE  /\ RecorderTypes' /\ ServerTypes' /\ TapeInv' /\ RowsInv' /\ BooksInv'
             /\ BrowserInv'
  <2>1. UNCHANGED <<run, stream, buffer, unfillable, backfill>>
    BY <1>2 DEF Feed
  <2> QED
    BY <2>1, <1>1, <1>2, FeedKeepsTape, FeedKeepsBooks, BrowserStays
<1>3. ASSUME Still, active' \in Symbols, UNCHANGED recorderVars \/ CloseQueue
      PROVE  RecorderTypes' /\ ServerTypes' /\ TapeInv' /\ RowsInv' /\ BooksInv'
  BY <1>1, <1>3, RecorderStays, TapeStays
<1>4. ASSUME NEW s \in Symbols, Activate(s)
      PROVE  /\ RecorderTypes' /\ ServerTypes' /\ TapeInv' /\ RowsInv' /\ BooksInv'
             /\ BrowserInv'
  <2>1. UNCHANGED <<run, stream, buffer, unfillable, backfill>> /\ Still /\ active' \in Symbols
        /\ UNCHANGED recorderVars
    BY <1>4 DEF Activate, Still
  <2> QED
    BY <2>1, <1>1, <1>3, BrowserStays
<1>5. ASSUME WriterStep, UNCHANGED rewindVars
      PROVE  /\ RecorderTypes' /\ ServerTypes' /\ TapeInv' /\ RowsInv' /\ BooksInv'
             /\ BrowserInv'
  <2>1. UNCHANGED <<run, stream, buffer, unfillable, backfill>> /\ Still /\ active' \in Symbols
    BY <1>1, <1>5 DEF rewindVars, Still
  <2> QED
    BY <2>1, <1>1, <1>5, WriterKeeps, TapeStays, BrowserStays
<1>6. ASSUME NEW b \in Rewinds, Rewind(b) \/ Answering(b) \/ FetchFails(b)
      PROVE  /\ RecorderTypes' /\ ServerTypes' /\ TapeInv' /\ RowsInv' /\ BooksInv'
             /\ BrowserInv'
  <2>1. UNCHANGED recorderVars /\ Still /\ active' \in Symbols
    BY <1>1, <1>6 DEF Rewind, Answering, ReadRing, ReadStored, Receive, FetchFails, Still
  <2>2. BrowserInv'
    BY <1>1, <1>6, RewindKeeps, AnsweringKeeps, ReceiveKeeps DEF Answering
  <2> QED
    BY <2>1, <2>2, <1>3
<1>7. ASSUME Deliver \/ Snapshot \/ Disconnect
      PROVE  /\ RecorderTypes' /\ ServerTypes' /\ TapeInv' /\ RowsInv' /\ BooksInv'
             /\ BrowserInv'
  <2>1. UNCHANGED recorderVars /\ Still /\ active' \in Symbols
    BY <1>1, <1>7 DEF Deliver, Snapshot, Disconnect, Still
  <2>2. BrowserInv'
    BY <1>1, <1>7, DeliverKeeps, SnapshotKeeps, DisconnectKeeps
  <2> QED
    BY <2>1, <2>2, <1>3
<1>8. ASSUME Shutdown
      PROVE  /\ RecorderTypes' /\ ServerTypes' /\ TapeInv' /\ RowsInv' /\ BooksInv'
             /\ BrowserInv'
  <2>1. CloseQueue /\ Still /\ active' \in Symbols
    BY <1>1, <1>8 DEF Shutdown, Still
  <2> QED
    BY <2>1, <1>1, <1>3, <1>8, ServerEndKeeps
<1>9. ASSUME Restart
      PROVE  /\ RecorderTypes' /\ ServerTypes' /\ TapeInv' /\ RowsInv' /\ BooksInv'
             /\ BrowserInv'
  BY <1>1, <1>9, RestartKeepsBooks, ServerEndKeeps
<1>10. ASSUME UNCHANGED vars
       PROVE  /\ RecorderTypes' /\ ServerTypes' /\ TapeInv' /\ RowsInv' /\ BooksInv'
              /\ BrowserInv'
  <2>1. UNCHANGED <<run, stream, buffer, unfillable, backfill>> /\ Still /\ active' \in Symbols
        /\ UNCHANGED recorderVars
    BY <1>1, <1>10 DEF vars, rewindVars, Still
  <2> QED
    BY <2>1, <1>1, <1>3, BrowserStays
<1> QED
  BY <1>2, <1>4, <1>5, <1>6, <1>7, <1>8, <1>9, <1>10 DEF RewindNext

\* The invariant of all the parts: the recorder's books, the tape, the answers on their
\* way and the browser's buffer, through every overlap of prints, pages and restarts.
THEOREM RewindInvariant == RewindSpec => []RewindInv
<1>1. RewindInit => RewindInv
  BY InvStarts
<1>2. RewindInv /\ [RewindNext]_vars => RewindInv'
  BY InvIsKept
<1> QED
  BY <1>1, <1>2, PTL DEF RewindSpec

LEMMA InvHasTypes ==
  ASSUME RewindInv
  PROVE  LiveRewindTypeOK
<1>1. RecorderTypes /\ ServerTypes /\ BrowserTypes /\ BufferInv(buffer)
  BY DEF RewindInv
<1>2. /\ buffer.events \in Seq(Event) /\ Len(buffer.events) <= Capacity
      /\ buffer.gaps \in Seq(Hole) /\ Len(buffer.gaps) <= MaxGaps
      /\ buffer.printsAtHead \in Nat \ {0} /\ buffer.base \in [volume : Nat, prints : Nat]
  <2>1. buffer.gaps = <<>> => Len(buffer.gaps) <= MaxGaps
    <3>1. Len(<<>>) = 0 /\ MaxGaps \in Nat
      BY LiveRewindAssumption
    <3> QED
      BY <3>1
  <2> QED
    BY <2>1, <1>1 DEF BufferInv, Buffer, Accounted
<1>3. ASSUME NEW b \in Rewinds
      PROVE  LET e == backfill[b]
             IN /\ e.step \in {"idle", "asked", "query", "answered"}
                /\ e.holes \in Seq(Hole) /\ {e.collected, e.found} \subseteq Seq(Trade)
                /\ e.step # "idle" => e.symbol \in Symbols /\ e.page < MaxPages /\ e.holes # <<>>
  <2>1. backfill[b] \in Backfill /\ (backfill[b].step # "idle" => UnderWay(backfill[b]))
    BY <1>1 DEF BrowserTypes
  <2> QED
    BY <2>1 DEF Backfill, UnderWay
<1>4. stream \in [up : BOOLEAN, symbol : Symbols \cup {NoSymbol}, run : 0 .. MaxRuns,
                 seq : 0 .. MaxPrints] /\ unfillable \subseteq Hole
  BY <1>1 DEF BrowserTypes, Stream
<1> QED
  BY <1>1, <1>2, <1>3, <1>4 DEF LiveRewindTypeOK, RecorderTypes, ServerTypes

LEMMA InvBalances ==
  ASSUME RewindInv
  PROVE  RecorderAccounts
<1> DEFINE both == stored \o items
           kept == both \o queue
           ofRun == {n \in DOMAIN kept : kept[n].run = run}
<1>1. /\ queue \in Seq(Trade) /\ items \in Seq(Trade) /\ stored \in Seq(Trade) /\ dropped \in Nat
      /\ RowsOf(stored, items, queue) /\ Balanced(stored, items, queue, dropped)
      /\ writer = "stopped" => items = <<>> /\ queue = <<>>
      /\ tape \in [Symbols -> Seq(Trade)]
  BY DEF RewindInv, RecorderTypes, RowsInv, BooksInv, ServerTypes
<1>2. both \in Seq(Trade) /\ RowsOf(both, <<>>, queue)
      /\ Cardinality(OfRun(stored)) \in Nat
      /\ Cardinality(OfRun(both)) = Cardinality(OfRun(stored)) + Len(items)
  <2>1. \A n \in 1 .. Len(items) : items[n].run = run
    BY <1>1 DEF Balanced
  <2> QED
    BY <2>1, <1>1, AppendedSequence, JoinedRows, AppendedCount
<1> HIDE DEF both
<1>3. RowsOf(both, queue, <<>>)
  <2>1. AreRows(<<>>) /\ InReceipt(<<>>) /\ Precedes(both, <<>>) /\ Precedes(queue, <<>>)
    BY DEF AreRows, InReceipt, Precedes
  <2> QED
    BY <2>1, <1>2 DEF RowsOf
<1>4. kept \in Seq(Trade) /\ RowsOf(kept, <<>>, <<>>)
      /\ Cardinality(OfRun(kept)) = Cardinality(OfRun(both)) + Len(queue)
  <2>1. \A n \in 1 .. Len(queue) : queue[n].run = run
    BY <1>1 DEF Balanced
  <2>2. <<>> \in Seq(Trade)
    OBVIOUS
  <2> QED
    BY <2>1, <2>2, <1>1, <1>2, <1>3, AppendedSequence, JoinedRows, AppendedCount
<1> HIDE DEF kept
<1>5. ofRun = OfRun(kept) /\ DOMAIN kept = 1 .. Len(kept)
  BY <1>4 DEF OfRun
<1>6. Cardinality(ofRun) + dropped = Cardinality(Received)
  <2>1. Cardinality(OfRun(stored)) + Len(items) + Len(queue) + dropped = Cardinality(Received)
        /\ Len(items) \in Nat /\ Len(queue) \in Nat
    BY <1>1 DEF Balanced
  <2>2. Cardinality(ofRun) = Cardinality(OfRun(stored)) + Len(items) + Len(queue)
    BY <1>2, <1>4, <1>5
  <2> HIDE DEF ofRun
  <2> QED
    BY <2>1, <2>2, <1>1, <1>2
<1>7. ASSUME NEW n \in ofRun
      PROVE  LET p == kept[n] IN p.seq \in DOMAIN tape[p.symbol] /\ p = tape[p.symbol][p.seq]
  <2>1. n \in 1 .. Len(kept) /\ kept[n].run = run
    BY <1>5
  <2>2. IsRow(kept[n])
    BY <2>1, <1>4 DEF RowsOf, AreRows
  <2>3. kept[n].seq \in 1 .. Len(tape[kept[n].symbol]) /\ kept[n] = tape[kept[n].symbol][kept[n].seq]
    BY <2>1, <2>2 DEF IsRow, Row
  <2>4. kept[n].symbol \in Symbols
    <3>1. kept[n] \in Trade
      BY <2>1, <1>4
    <3> QED
      BY <3>1, FieldsOfTrade
  <2>5. DOMAIN tape[kept[n].symbol] = 1 .. Len(tape[kept[n].symbol])
    BY <2>4, <1>1
  <2> QED
    BY <2>3, <2>5
<1>8. ASSUME NEW m \in ofRun, NEW n \in ofRun, m < n PROVE kept[m].at < kept[n].at
  <2>1. m \in 1 .. Len(kept) /\ n \in 1 .. Len(kept)
    BY <1>5
  <2> QED
    BY <2>1, <1>4, <1>8 DEF RowsOf, InReceipt
<1>9. kept = stored \o items \o queue
  BY DEF kept, both
<1> HIDE DEF ofRun
<1> QED
  BY <1>1, <1>6, <1>7, <1>8, <1>9 DEF RecorderAccounts, ofRun

LEMMA InvAnswersTruly ==
  ASSUME RewindInv
  PROVE  AnswersAreTrue
<1>1. /\ RecorderTypes /\ ServerTypes /\ BrowserTypes /\ TapeInv /\ RowsInv /\ AnswersInv
  BY DEF RewindInv
<1>2. ASSUME NEW b \in Rewinds, backfill[b].step = "answered" PROVE AnswerIsTrue(backfill[b])
  BY <1>1, <1>2 DEF AnswersInv
<1>3. ASSUME stream.up, NEW to \in 1 .. Len(tape[stream.symbol]) + 1, NEW from \in 1 .. to
      PROVE  LET read == FromRing(RequestOf(stream.symbol, from, to))
             IN AnswerIsTrue(IF read.step = "query" THEN FromRecording(read) ELSE read)
  <2>1. stream.symbol \in Symbols
    BY <1>1, <1>3 DEF BrowserTypes
  <2>2. from \in Nat \ {0} /\ to \in Nat
    OBVIOUS
  <2> QED
    BY <2>1, <2>2, <1>1, AnyAnswerIsTrue
<1> QED
  BY <1>2, <1>3 DEF AnswersAreTrue

\* What the server says about the past is true: the recorder's books balance, and every
\* answer to a backfill has prints of the symbol and the run asked for, in order, none
\* twice, whole when it says so.
THEOREM TheRecordIsHonest == RewindSpec => []RecordIsHonest
<1>1. RewindInv => RecordIsHonest
  BY InvHasTypes, InvBalances, InvAnswersTruly DEF RecordIsHonest
<1> QED
  BY <1>1, RewindInvariant, PTL

\* What the browser says about the past is true: its holes are the numbers it lacks, and
\* the volume of any window is the sum of the sizes in it.
THEOREM TheBufferIsExact == RewindSpec => []BufferIsExact
<1>1. RewindInv => BufferIsExact
  BY BufferInvIsExact DEF RewindInv
<1> QED
  BY <1>1, RewindInvariant, PTL
=============================================================================
