---------------------------- MODULE MetricsProps ----------------------------
(* What a reader of stats() and of the Prometheus text may rely on. *)
EXTENDS Metrics

\* Counters, the summary and the snapshots hold u64 values.
MetricsTypeInv ==
  /\ cell \in [Cells -> 0 .. MaxU64]
  /\ \A i \in DOMAIN top : top[i].count \in 0 .. MaxU64
  /\ \A th \in Threads : todo[th].key \subseteq Keys
  /\ {Len(snap), Len(last)} \subseteq 0 .. Len(LoadOrder)

Total(c) == LoadAt(Counter(c))

\* Counters are cumulative (README.md:103): no counter and no bucket of a snapshot
\* is below the one before it, although each stops at u64::MAX (scheduler.rs 64).
SnapshotsMonotone ==
  \A i \in DOMAIN snap \cap DOMAIN last :
    LoadOrder[i] # Top => snap[i] >= last[i]

\* The rendered histogram never claims more observations than its _count line:
\* stats() loads the buckets before queue_time_samples, and a delivery counts its
\* sample before its bucket.  A read no recording overlapped agrees with itself:
\* the +Inf bucket is the count, and drops are the sum of their reasons.  All of it
\* until the count of samples, or of drops, has reached u64::MAX.
ScrapeConsistent ==
  Complete /\ Total("queue_time_samples") < MaxU64 =>
    LET lines == Rendered
        B == {i \in DOMAIN lines : lines[i][1] = "bucket"}
        n == CHOOSE n \in DOMAIN lines : lines[n][1] = "count"
    IN  /\ \A i \in B : lines[i][2] <= lines[n][2]
        /\ \A i, j \in B : i <= j => lines[i][2] <= lines[j][2]
        /\ ~overlap =>
             /\ lines[n - 1][2] = lines[n][2]
             /\ Total("dropped") < MaxU64 =>
                  Total("dropped") = Total("rejected_global") + Total("rejected_tenant")
                                      + Total("timeout_rejected") + Total("dropped_policy")

\* p95 never exceeds p99 in a snapshot, even when the sum of its buckets has wrapped
\* (scheduler.rs 734) or f64 rounds the target of a huge total (739).  Before the
\* count of samples stops at u64::MAX, and with fewer than 2^53 / 150 samples loaded,
\* each is exactly the least bound that covers its share of the loaded histogram.
PercentilesExact ==
  Complete =>
    LET C == Cumulative(Histogram)
        n == C[Len(C)]
        Covers(i, pct) == C[i] * 100 >= pct * n
        IsLeast(i, pct) == Covers(i, pct) /\ \A j \in DOMAIN C : j < i => ~Covers(j, pct)
    IN  /\ Percentile(95) <= Percentile(99)
        /\ Total("queue_time_samples") < MaxU64 /\ n > 0 /\ 150 * n < Mantissa =>
             \A pct \in {95, 99} :
               \E i \in DOMAIN C : Percentile(pct) = Bounds[i] /\ IsLeast(i, pct)

\* The summary never undercounts: a listed tenant's count is at least its
\* deliveries and exceeds them by at most the least count of the list, and a
\* tenant that is not listed was delivered no more than that least count, however
\* ties and evictions went (state.rs 168-203).
Listed(e) == {e[i].tenant : i \in DOMAIN e}
Counts(e) == {e[i].count : i \in DOMAIN e}
Floor(e) == IF Len(e) < Capacity THEN 0
            ELSE CHOOSE n \in Counts(e) : \A x \in Counts(e) : n <= x
Bounded(e, s) ==
  /\ \A i \in DOMAIN e :
       /\ Least(s[e[i].tenant]) <= e[i].count
       /\ e[i].count <= s[e[i].tenant] + Floor(e)
  /\ \A k \in Keys \ Listed(e) : Least(s[k]) <= Floor(e)
TopTenantsBound ==
  Capacity > 0 =>
    /\ Cardinality(Listed(top)) = Len(top) /\ Len(top) <= Capacity
    /\ Bounded(top, served)

-----------------------------------------------------------------------------
(* What makes these inductive. *)

\* The summary lists a tenant once.
Entries == Seq([tenant : Keys, count : 0 .. MaxU64])
Distinct(e) == \A i, j \in DOMAIN e : e[i].tenant = e[j].tenant => i = j
SummaryFits ==
  /\ top \in Entries /\ Distinct(top) /\ served \in [Keys -> Nat]
  /\ Capacity > 0 => Len(top) <= Capacity /\ Bounded(top, served)

\* What is still to add are additions to counters, and what a snapshot holds of a
\* counter is no more than the counter now.
Above(s) ==
  /\ s = [i \in 1 .. Len(s) |-> s[i]]
  /\ \A i \in DOMAIN s : LoadOrder[i] # Top => s[i] \in Nat /\ s[i] <= cell[LoadOrder[i]]
LoadsFit ==
  /\ todo \in [Threads -> [adds : Seq(Cells \X Nat), key : SUBSET Keys]]
  /\ Above(snap) /\ Above(last)

MetricsInv == MetricsTypeInv /\ SummaryFits /\ LoadsFit /\ SnapshotsMonotone

\* A delivery counts its sample before its bucket and a refusal its drop before the
\* reason: until the first counter is full it leads by the threads in between.
Why == Reasons \cup {"dropped_policy"}
Samples == Counter("queue_time_samples")
Dropped == Counter("dropped")
Sum(h) == Running(h)[Len(h)]
InBuckets == [i \in DOMAIN Bounds |-> cell[Bucket(i)]]
ByReason == cell[Counter("rejected_global")] + cell[Counter("rejected_tenant")]
            + cell[Counter("timeout_rejected")] + cell[Counter("dropped_policy")]
Late(C) == {th \in Threads : \E c \in C : todo[th].adds = << <<c, 1>> >>}
LateBuckets == Late({Bucket(i) : i \in DOMAIN Bounds})
LateReasons == Late({Counter(r) : r \in Why})
LeadsKept ==
  /\ cell[Samples] < MaxU64 => Sum(InBuckets) + Cardinality(LateBuckets) = cell[Samples]
  /\ cell[Dropped] < MaxU64 => ByReason + Cardinality(LateReasons) = cell[Dropped]

\* What is left of a recording: its last one to four additions.
LastAdds ==
  {<<Once("enqueued", 1)>>} \cup {<<Once("expired", n)>> : n \in Expiries}
    \cup {<<Once(r, 1)>> : r \in Why} \cup {<< <<Bucket(i), 1>> >> : i \in DOMAIN Bounds}
DropAdds == {<<Once("dropped", 1), Once(r, 1)>> : r \in Why}
SampleAdds == {<<Once("queue_time_samples", 1), <<Bucket(i), 1>> >> : i \in DOMAIN Bounds}
SumAdds ==
  {<<Once("queue_time_sum_ns", w), Once("queue_time_samples", 1), <<Bucket(i), 1>> >> :
     w \in Waits, i \in DOMAIN Bounds}
DeliveryAdds ==
  {<<Once("dequeued", 1), Once("queue_time_sum_ns", w), Once("queue_time_samples", 1),
     <<Bucket(i), 1>> >> : w \in Waits, i \in DOMAIN Bounds}
Remains ==
  \A th \in Threads : todo[th].adds \in
    {<<>>} \cup LastAdds \cup DropAdds \cup SampleAdds \cup SumAdds \cup DeliveryAdds

\* A read that overlapped no recording holds the counters as they are; a finished
\* one holds no more in its buckets than samples, and its summary is a sequence.
Loaded == [i \in DOMAIN Bounds |-> snap[i]]
ReadTrue ==
  /\ ~overlap => /\ Quiet
                 /\ \A i \in DOMAIN snap : LoadOrder[i] # Top => snap[i] = cell[LoadOrder[i]]
  /\ Complete /\ snap[Len(snap)] < MaxU64 => Sum(Loaded) <= snap[Len(snap)]
  /\ \A i \in DOMAIN snap :
       LoadOrder[i] = Top => Len(snap[i]) \in Nat /\ snap[i] = [j \in 1 .. Len(snap[i]) |-> snap[i][j]]

ScrapeInv == LeadsKept /\ Remains /\ ReadTrue
=============================================================================
