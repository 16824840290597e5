------------------------------- MODULE Metrics -------------------------------
(***************************************************************************)
(* StatsCounters, SchedulerStats and the Prometheus text.  Producers and   *)
(* consumers add to one atomic counter after another while stats() loads   *)
(* them one after another; nothing makes a group of either atomic.  The    *)
(* loads and additions are taken in one global order, although the code    *)
(* uses Ordering::Relaxed.  queue_len_estimate is Scheduler's.             *)
(***************************************************************************)
EXTENDS TopTenants

CONSTANTS
  Threads,        \* producers and consumers
  Bounds,         \* QUEUE_TIME_BUCKETS_NS, ascending; the last covers every wait
  Waits,          \* queue times of delivered tasks
  Expiries,       \* how many tasks a purge or a visit finds expired at once
  Past,           \* histograms of the tasks delivered before the model starts
  Mantissa,       \* 2^53: an f64 is fewer than that many steps of a power of two
  Grids,          \* those powers of two, as far as u64 values and products need
  MaxRecordings,  \* bound: recordings begun
  MaxReads        \* bound: snapshots begun

VARIABLES
  cell,        \* the counters and queue_time_buckets
  todo,        \* what each thread has still to add
  snap,        \* what the stats() call under way has loaded, in LoadOrder
  last,        \* the snapshot before it
  overlap,     \* history: a recording was under way during the current read
  recordings,  \* history: recordings begun
  reads        \* history: snapshots begun

readVars    == <<snap, last, overlap, reads>>
metricsVars == <<topVars, cell, todo, readVars, recordings>>

Plain == <<"enqueued", "dequeued", "expired", "dropped", "rejected_global",
           "rejected_tenant", "timeout_rejected", "dropped_policy",
           "queue_time_sum_ns", "queue_time_samples">>
Reasons == {"rejected_global", "rejected_tenant", "timeout_rejected"}
Counter(n) == <<n, 0>>
Bucket(i) == <<"queue_time_buckets", i>>
Buckets == [i \in DOMAIN Bounds |-> Bucket(i)]
Plains == [i \in DOMAIN Plain |-> Counter(Plain[i])]
Top == <<"top_tenants", 0>>

SamplesFirst == <<Counter("queue_time_samples")>> \o Buckets \o <<Top>> \o Plains \* mutant
LoadOrder == Buckets \o <<Top>> \o Plains
Cells == {Buckets[i] : i \in DOMAIN Buckets} \cup {Plains[i] : i \in DOMAIN Plains}

ASSUME MetricsAssumption ==
  /\ IsFiniteSet(Threads) /\ {MaxRecordings, MaxReads} \subseteq Nat
  /\ Bounds \in Seq(Nat) \ {<<>>}
  /\ \A i, j \in DOMAIN Bounds : i < j => Bounds[i] < Bounds[j]
  /\ \A w \in Waits : w \in 0 .. Bounds[Len(Bounds)]
  /\ Expiries \subseteq Nat
  /\ Past \subseteq [DOMAIN Bounds -> 0 .. MaxU64]

-----------------------------------------------------------------------------
(* Recording. *)

\* record_queue_time: the first bucket whose bound covers the wait.
BucketOf(w) == CHOOSE i \in DOMAIN Bounds :
                 w <= Bounds[i] /\ \A j \in DOMAIN Bounds : w <= Bounds[j] => i <= j

\* The additions of each kind of recording, in the code's order, and the tenant
\* for top_tenants, if there is one.
Nothing == [adds |-> <<>>, key |-> {}]
Once(n, d) == <<Counter(n), d>>
Enqueued      == [adds |-> <<Once("enqueued", 1)>>, key |-> {}]
ExpiredTasks(n) == [adds |-> <<Once("expired", n)>>, key |-> {}]
Rejected(r)   == [adds |-> <<Once("dropped", 1), Once(r, 1)>>, key |-> {}]
PolicyDropped == [adds |-> <<Once("dropped", 1), Once("dropped_policy", 1)>>, key |-> {}]
Delivered(k, w) ==
  [adds |-> <<Once("dequeued", 1), Once("queue_time_sum_ns", w),
              Once("queue_time_samples", 1), <<Bucket(BucketOf(w)), 1>> >>,
   key |-> {k}]

Recordings ==
  {Enqueued, PolicyDropped} \cup {ExpiredTasks(n) : n \in Expiries}
    \cup {Rejected(r) : r \in Reasons} \cup {Delivered(k, w) : k \in Keys, w \in Waits}

Quiet == \A th \in Threads : todo[th] = Nothing

Begin(th, r) ==
  /\ recordings < MaxRecordings /\ recordings' = recordings + 1
  /\ todo[th] = Nothing /\ todo' = [todo EXCEPT ![th] = r]
  /\ overlap' = TRUE
  /\ UNCHANGED <<topVars, cell, snap, last, reads>>

\* saturating_add of one counter, or the record of the delivery in top_tenants.
AddNext(th) ==
  /\ todo[th].adds # <<>>
  /\ LET c == Head(todo[th].adds)[1]
         d == Head(todo[th].adds)[2]
     IN  cell' = [cell EXCEPT ![c] = SaturatingAdd(@, d)]
  /\ todo' = [todo EXCEPT ![th].adds = Tail(@)]
  /\ UNCHANGED <<topVars, readVars, recordings>>

RecordTop(th) ==
  /\ todo[th].adds = <<>>
  /\ \E k \in todo[th].key : Record(k)
  /\ todo' = [todo EXCEPT ![th] = Nothing]
  /\ UNCHANGED <<cell, readVars, recordings>>

-----------------------------------------------------------------------------
(* stats(). *)

Complete == Len(snap) = Len(LoadOrder)

StartRead ==
  /\ Complete \/ snap = <<>>
  /\ reads < MaxReads /\ reads' = reads + 1
  /\ last' = snap /\ snap' = <<cell[LoadOrder[1]]>>
  /\ overlap' = ~Quiet
  /\ UNCHANGED <<topVars, cell, todo, recordings>>

Load ==
  /\ snap # <<>> /\ ~Complete
  /\ LET c == LoadOrder[Len(snap) + 1]
     IN  snap' = Append(snap, IF c = Top THEN Sorted(top) ELSE cell[c])
  /\ UNCHANGED <<topVars, cell, todo, last, overlap, reads, recordings>>

LoadAt(c) == snap[CHOOSE i \in DOMAIN LoadOrder : LoadOrder[i] = c]
Histogram == [i \in DOMAIN Bounds |-> LoadAt(Bucket(i))]

\* cumulative += count, bucket by bucket.
Cumulative(h) ==
  LET sum[i \in 0 .. Len(h)] == IF i = 0 THEN 0 ELSE SaturatingAdd(sum[i - 1], h[i])
  IN  [i \in DOMAIN h |-> sum[i]]
\* iter().sum(), which wraps in a release build.
Running(h) ==
  LET sum[i \in 0 .. Len(h)] == IF i = 0 THEN 0 ELSE sum[i - 1] + h[i]
  IN  sum
TotalSamples(h) == Running(h)[Len(h)] % (MaxU64 + 1)

\* f64 rounds to the nearest step, at a tie to the even one.  0.95 and 0.99 are whole
\* numbers over Mantissa, and so is their product with a total.
Nearest(n, d) ==
  LET q == n \div d
      r == 2 * (n % d)
  IN  IF r < d \/ (r = d /\ q % 2 = 0) THEN q ELSE q + 1
Grid(v) == CHOOSE g \in Grids : /\ v < g * Mantissa
                                /\ \A h \in Grids : v < h * Mantissa => g <= h
Rounded(v) == Grid(v) * Nearest(v, Grid(v))
Share(pct) == Nearest(pct * Mantissa, 100)

ASSUME FloatAssumption ==
  /\ Grids \subseteq Nat \ {0} /\ {1, Mantissa} \subseteq Grids /\ 128 <= Mantissa
  /\ \A g \in Grids \ {1} : \E h \in Grids : g = 2 * h
  /\ \A g, h \in Grids : g <= h => h % g = 0
  /\ \E g \in Grids : MaxU64 < g
  /\ \A pct \in {95, 99} :
       LET error == 100 * Share(pct) - pct * Mantissa IN 2 * error < pct /\ -pct < 2 * error

\* (total as f64 * pct).ceil() as u64, a cast that saturates.
Least(n) == IF n < MaxU64 THEN n ELSE MaxU64
Ceil(v) == (v + Mantissa - 1) \div Mantissa
Target(total, pct) == Least(Ceil(Rounded(Rounded(total) * Share(pct))))

Passes(c, target) == c > target                      \* mutant
Reaches(c, target) == c >= target
Percentile(pct) ==
  LET total  == TotalSamples(Histogram)
      target == Target(total, pct)
      C      == Cumulative(Histogram)
      hits   == {i \in DOMAIN C : Reaches(C[i], target)}
  IN  IF total = 0 THEN 0
      ELSE IF hits = {} THEN Bounds[Len(Bounds)]
      ELSE Bounds[CHOOSE i \in hits : \A j \in hits : i <= j]

\* render_stats: the samples of the text, in order; help and type lines left out.
Rendered ==
  LET Line(n) == <<n, LoadAt(Counter(n))>>
      C == Cumulative(Histogram)
      T == LoadAt(Top)
  IN  <<Line("enqueued"), Line("dequeued"), Line("dropped"), Line("rejected_global"),
        Line("rejected_tenant"), Line("timeout_rejected"), Line("dropped_policy"),
        Line("expired"), Line("queue_time_sum_ns"), Line("queue_time_samples"),
        <<"p95", Percentile(95)>>, <<"p99", Percentile(99)>> >>
      \o [i \in DOMAIN C |-> <<"bucket", C[i]>>]
      \o <<<<"count", LoadAt(Counter("queue_time_samples"))>>,
           <<"sum", LoadAt(Counter("queue_time_sum_ns"))>> >>
      \o [i \in DOMAIN T |-> <<"tenant", T[i].count>>]

-----------------------------------------------------------------------------
\* A scheduler that has delivered the tasks of h, all of them to tenant k; its
\* count of them stops at u64::MAX like every counter.
MetricsInit ==
  /\ \E h \in Past, k \in Keys :
       LET n == Cumulative(h)[Len(h)] IN
       /\ cell = [c \in Cells |->
            IF \E i \in DOMAIN h : c = Bucket(i) THEN h[c[2]]
            ELSE IF c[1] \in {"enqueued", "dequeued", "queue_time_samples"} THEN n
            ELSE 0]
       /\ served = [x \in Keys |-> IF x = k THEN n ELSE 0]
       /\ top = IF n = 0 \/ Capacity = 0 THEN <<>> ELSE <<[tenant |-> k, count |-> n]>>
  /\ todo = [th \in Threads |-> Nothing]
  /\ snap = <<>> /\ last = <<>> /\ overlap = FALSE
  /\ recordings = 0 /\ reads = 0

MetricsNext ==
  \/ \E th \in Threads :
       \/ \E r \in Recordings : Begin(th, r)
       \/ AddNext(th)
       \/ RecordTop(th)
  \/ StartRead
  \/ Load

MetricsSpec == MetricsInit /\ [][MetricsNext]_metricsVars
=============================================================================
