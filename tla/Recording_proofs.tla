--------------------------- MODULE Recording_proofs ---------------------------
(***************************************************************************)
(* What is recorded is what is read back: proofs about Recording and       *)
(* ScreenStream, for sessions of any length, any colours and sets of       *)
(* buttons, and any width of the counts.                                   *)
(*                                                                         *)
(* Both logs are run-length codes.  Runs of equal values tell a history of *)
(* values from a position on (Tells) when there is, for every run, a       *)
(* position where it starts, such that run after run covers the values up  *)
(* to the end.  Every operation of a writer or a reader changes the runs   *)
(* at one end, and a lemma says what they tell then.  The invariant says   *)
(* of each phase what the runs in the file, in the variables of the writer *)
(* and in those of the reader tell together.                               *)
(***************************************************************************)
EXTENDS Recording, NaturalsInduction, WellFoundedInduction, SequenceTheorems, TLAPS

-----------------------------------------------------------------------------
(* Run-length codes.                                                       *)

(* A run covers the values after position lo, up to position hi. *)
Covers(run, values, lo, hi) ==
    /\ run.count \in Nat
    /\ hi = lo + run.count
    /\ \A j \in 1..Len(values) : lo < j /\ j <= hi => values[j] = run.value

(* start[k] is the position after which run k starts; the last run ends    *)
(* with the values.                                                        *)
Starts(start, runs, values, from) ==
    /\ start \in [1..Len(runs) + 1 -> 0..Len(values)]
    /\ start[1] = from
    /\ start[Len(runs) + 1] = Len(values)
    /\ \A k \in 1..Len(runs) : Covers(runs[k], values, start[k], start[k + 1])

(* The runs tell the values after position from.                           *)
Tells(runs, values, from) ==
    \E start \in [1..Len(runs) + 1 -> 0..Len(values)] : Starts(start, runs, values, from)

(* A run and those that follow it. *)
Then(run, runs) == <<run>> \o runs

(* A run is not touched by what is appended behind it.                     *)
LEMMA CoversLonger ==
    ASSUME NEW V, NEW values \in Seq(V), NEW v \in V, NEW run, NEW lo, NEW hi \in 0..Len(values),
           Covers(run, values, lo, hi)
    PROVE  Covers(run, Append(values, v), lo, hi)
BY DEF Covers

(* The last run, one longer, covers one more equal value.                  *)
LEMMA CoversOneMore ==
    ASSUME NEW V, NEW values \in Seq(V), NEW v \in V, NEW run, NEW lo \in 0..Len(values),
           Covers(run, values, lo, Len(values)),
           NEW more, more.count = run.count + 1, run.value = v, more.value = v
    PROVE  Covers(more, Append(values, v), lo, Len(values) + 1)
<1> DEFINE m == Len(values)
           longer == Append(values, v)
<1>1. /\ m \in Nat /\ Len(longer) = m + 1
      /\ \A j \in 1..m : longer[j] = values[j]
      /\ longer[m + 1] = v
  OBVIOUS
<1>2. /\ run.count \in Nat
      /\ m = lo + run.count
      /\ \A j \in 1..m : lo < j /\ j <= m => values[j] = run.value
  BY DEF Covers
<1>3. lo \in 0..m
  OBVIOUS
<1> HIDE DEF m, longer
<1>4. more.count \in Nat /\ m + 1 = lo + more.count
  BY <1>1, <1>2, <1>3
<1>5. \A j \in 1..m + 1 : lo < j /\ j <= m + 1 => longer[j] = more.value
  BY <1>1, <1>2, <1>3
<1> QED
  BY <1>1, <1>4, <1>5 DEF Covers, longer, m

(* A run that is not empty covers the next value; one shorter, those       *)
(* behind it.                                                              *)
LEMMA CoversOneLess ==
    ASSUME NEW V, NEW values \in Seq(V), NEW run, NEW lo \in 0..Len(values), NEW hi \in 0..Len(values),
           Covers(run, values, lo, hi), run.count # 0,
           NEW less, less.count = run.count - 1, less.value = run.value
    PROVE  /\ Covers(less, values, lo + 1, hi)
           /\ lo + 1 \in 1..Len(values)
           /\ values[lo + 1] = run.value
<1> DEFINE m == Len(values)
<1>1. m \in Nat
  OBVIOUS
<1>2. /\ run.count \in Nat
      /\ hi = lo + run.count
      /\ \A j \in 1..m : lo < j /\ j <= hi => values[j] = run.value
  BY DEF Covers
<1>3. lo \in 0..m /\ hi \in 0..m
  OBVIOUS
<1> HIDE DEF m
<1>4. lo + 1 \in 1..m /\ lo < lo + 1 /\ lo + 1 <= hi
  BY <1>1, <1>2, <1>3
<1>5. values[lo + 1] = run.value
  BY <1>2, <1>4
<1>6. less.count \in Nat /\ hi = lo + 1 + less.count
  BY <1>1, <1>2, <1>3
<1>7. \A j \in 1..m : lo + 1 < j /\ j <= hi => values[j] = less.value
  BY <1>1, <1>2, <1>3
<1> QED
  BY <1>4, <1>5, <1>6, <1>7 DEF Covers, m

(* No runs tell no values.                                                 *)
LEMMA TellsNothing ==
    Tells(<<>>, <<>>, 0)
<1> DEFINE start == [k \in 1..1 |-> 0]
<1>1. start \in [1..Len(<<>>) + 1 -> 0..Len(<<>>)]
  OBVIOUS
<1>2. Starts(start, <<>>, <<>>, 0)
  BY <1>1 DEF Starts
<1> QED
  BY <1>1, <1>2 DEF Tells

(* Once no run is left, every value was told.                              *)
LEMMA TellsAll ==
    ASSUME NEW V, NEW values \in Seq(V), NEW from,
           Tells(<<>>, values, from)
    PROVE  from = Len(values)
<1>1. PICK start \in [1..1 -> 0..Len(values)] : Starts(start, <<>>, values, from)
  BY DEF Tells
<1> QED
  BY <1>1 DEF Starts

(* Writing: a new run of one tells one more value.                         *)
LEMMA TellsAnother ==
    ASSUME NEW R, NEW runs \in Seq(R), NEW V, NEW values \in Seq(V), NEW from,
           Tells(runs, values, from),
           NEW run \in R, NEW v \in V, run.count = 1, run.value = v
    PROVE  Tells(Append(runs, run), Append(values, v), from)
<1> DEFINE n == Len(runs)
           m == Len(values)
           more == Append(runs, run)
           longer == Append(values, v)
<1>1. PICK start \in [1..n + 1 -> 0..m] : Starts(start, runs, values, from)
  BY DEF Tells
<1> DEFINE begin == [k \in 1..n + 2 |-> IF k = n + 2 THEN m + 1 ELSE start[k]]
<1>2. /\ n \in Nat /\ m \in Nat
      /\ Len(more) = n + 1 /\ Len(longer) = m + 1
      /\ \A k \in 1..n : more[k] = runs[k]
      /\ more[n + 1] = run
      /\ \A j \in 1..m : longer[j] = values[j]
      /\ longer[m + 1] = v
  OBVIOUS
<1>3. /\ start[1] = from /\ start[n + 1] = m
      /\ \A k \in 1..n : Covers(runs[k], values, start[k], start[k + 1])
  BY <1>1 DEF Starts
<1>4. \A k \in 1..n : Covers(runs[k], longer, start[k], start[k + 1])
  <2> TAKE k \in 1..n
  <2>1. start[k + 1] \in 0..m
    BY <1>1, <1>2
  <2> QED
    BY <1>3, <2>1, CoversLonger
<1>5. Covers(run, longer, m, m + 1)
  BY <1>2 DEF Covers
<1> HIDE DEF more, longer, n, m
<1>6. begin \in [1..(n + 1) + 1 -> 0..(m + 1)]
  BY <1>1, <1>2
<1>7. begin[1] = from /\ begin[(n + 1) + 1] = m + 1
  BY <1>2, <1>3
<1>8. \A k \in 1..n + 1 : Covers(more[k], longer, begin[k], begin[k + 1])
  <2>1. ASSUME NEW k \in 1..n
        PROVE  Covers(more[k], longer, begin[k], begin[k + 1])
    <3>1. begin[k] = start[k] /\ begin[k + 1] = start[k + 1]
      BY <1>2
    <3> QED
      BY <1>2, <1>4, <3>1
  <2>2. begin[n + 1] = m /\ begin[n + 2] = m + 1 /\ more[n + 1] = run /\ (n + 1) + 1 = n + 2
    BY <1>2, <1>3
  <2>3. Covers(more[n + 1], longer, begin[n + 1], begin[(n + 1) + 1])
    BY <1>5, <2>2
  <2>4. \A k \in 1..n + 1 : k \in 1..n \/ k = n + 1
    BY <1>2
  <2> QED
    BY <2>1, <2>3, <2>4
<1>9. Starts(begin, more, longer, from)
  BY <1>2, <1>6, <1>7, <1>8 DEF Starts
<1> QED
  BY <1>2, <1>6, <1>9 DEF Tells, more, longer

(* Writing: the last run, one longer, tells one more value like it.        *)
LEMMA TellsLonger ==
    ASSUME NEW R, NEW runs \in Seq(R), NEW V, NEW values \in Seq(V), NEW from,
           NEW run \in R, Tells(Append(runs, run), values, from),
           NEW more \in R, NEW v \in V,
           run.value = v, more.value = v, more.count = run.count + 1
    PROVE  Tells(Append(runs, more), Append(values, v), from)
<1> DEFINE n == Len(runs)
           m == Len(values)
           old == Append(runs, run)
           new == Append(runs, more)
           longer == Append(values, v)
<1>1. PICK start \in [1..Len(old) + 1 -> 0..m] : Starts(start, old, values, from)
  BY DEF Tells
<1> DEFINE begin == [k \in 1..n + 2 |-> IF k = n + 2 THEN m + 1 ELSE start[k]]
<1>2. /\ n \in Nat /\ m \in Nat
      /\ Len(old) = n + 1 /\ Len(new) = n + 1 /\ Len(longer) = m + 1
      /\ \A k \in 1..n : old[k] = new[k]
      /\ old[n + 1] = run
      /\ new[n + 1] = more
  OBVIOUS
<1>3. /\ start[1] = from /\ start[n + 2] = m
      /\ start \in [1..n + 2 -> 0..m]
      /\ \A k \in 1..n + 1 : Covers(old[k], values, start[k], start[k + 1])
  <2>1. n + 2 = (n + 1) + 1
    BY <1>2
  <2> HIDE DEF n, m, old
  <2> QED
    BY <1>1, <1>2, <2>1 DEF Starts, m
<1>4. \A k \in 1..n : Covers(old[k], longer, start[k], start[k + 1])
  <2> TAKE k \in 1..n
  <2>1. start[k + 1] \in 0..m /\ k \in 1..n + 1
    BY <1>2, <1>3
  <2> QED
    BY <1>3, <2>1, CoversLonger
<1>5. start[n + 1] \in 0..m /\ Covers(more, longer, start[n + 1], m + 1)
  <2>1. start[n + 1] \in 0..m /\ start[(n + 1) + 1] = m /\ n + 1 \in 1..n + 1
    BY <1>2, <1>3
  <2>2. Covers(run, values, start[n + 1], m)
    BY <1>2, <1>3, <2>1
  <2> QED
    BY <2>1, <2>2, CoversOneMore
<1> HIDE DEF old, new, longer, n, m
<1>6. begin \in [1..(n + 1) + 1 -> 0..(m + 1)]
  BY <1>2, <1>3
<1>7. begin[1] = from /\ begin[(n + 1) + 1] = m + 1
  BY <1>2, <1>3
<1>8. \A k \in 1..n + 1 : Covers(new[k], longer, begin[k], begin[k + 1])
  <2>1. ASSUME NEW k \in 1..n
        PROVE  Covers(new[k], longer, begin[k], begin[k + 1])
    <3>1. begin[k] = start[k] /\ begin[k + 1] = start[k + 1]
      BY <1>2
    <3> QED
      BY <1>2, <1>4, <3>1
  <2>2. begin[n + 1] = start[n + 1] /\ begin[n + 2] = m + 1 /\ new[n + 1] = more /\ (n + 1) + 1 = n + 2
    BY <1>2, <1>3
  <2>3. Covers(new[n + 1], longer, begin[n + 1], begin[(n + 1) + 1])
    BY <1>5, <2>2
  <2>4. \A k \in 1..n + 1 : k \in 1..n \/ k = n + 1
    BY <1>2
  <2> QED
    BY <2>1, <2>3, <2>4
<1>9. Starts(begin, new, longer, from)
  BY <1>2, <1>6, <1>7, <1>8 DEF Starts
<1> QED
  BY <1>2, <1>6, <1>9 DEF Tells, new, longer

(* Some run with one taken off. *)
OneLess(less, run) ==
    /\ run.count \in Nat /\ run.count # 0
    /\ less.count = run.count - 1
    /\ less.value = run.value

(* The value after position from. *)
Follows(values, from, v) ==
    /\ from + 1 \in 1..Len(values)
    /\ values[from + 1] = v

(* Reading: one taken off the first run is the next value, and the rest    *)
(* tell what follows.                                                      *)
LEMMA TellsNext ==
    ASSUME NEW R, NEW V, NEW first, NEW runs, NEW values, NEW from, NEW less,
           Tells(Then(first, runs), values, from),
           runs \in Seq(R), values \in Seq(V), from \in Nat,
           first \in R, less \in R, OneLess(less, first)
    PROVE  /\ Follows(values, from, first.value)
           /\ Tells(Then(less, runs), values, from + 1)
<1> DEFINE n == Len(runs)
           m == Len(values)
           old == Then(first, runs)
           new == Then(less, runs)
<1>1. PICK start \in [1..Len(old) + 1 -> 0..m] : Starts(start, old, values, from)
  BY DEF Tells
<1>2. /\ n \in Nat /\ m \in Nat
      /\ Len(old) = n + 1 /\ Len(new) = n + 1
      /\ \A k \in 2..n + 1 : old[k] = new[k]
      /\ old[1] = first
      /\ new[1] = less
  BY DEF Then
<1> DEFINE begin == [k \in 1..n + 2 |-> IF k = 1 THEN from + 1 ELSE start[k]]
<1>3. /\ start[1] = from /\ start[n + 2] = m
      /\ start \in [1..n + 2 -> 0..m]
      /\ \A k \in 1..n + 1 : Covers(old[k], values, start[k], start[k + 1])
  <2>1. n + 2 = (n + 1) + 1
    BY <1>2
  <2> HIDE DEF n, m, old
  <2> QED
    BY <1>1, <1>2, <2>1 DEF Starts, m
<1>4. from \in 0..m /\ start[2] \in 0..m /\ Covers(first, values, from, start[2])
  <2>1. from \in 0..m /\ start[2] \in 0..m /\ 1 + 1 = 2 /\ 1 \in 1..n + 1
    <3> HIDE DEF n, m
    <3>1. 1 \in 1..n + 2 /\ 2 \in 1..n + 2
      BY <1>2
    <3>2. start[1] \in 0..m /\ start[2] \in 0..m
      BY <1>3, <3>1
    <3> QED
      BY <1>2, <1>3, <3>2
  <2> QED
    BY <1>2, <1>3, <2>1
<1>5. /\ Covers(less, values, from + 1, start[2])
      /\ from + 1 \in 1..m
      /\ values[from + 1] = first.value
  BY <1>4, CoversOneLess DEF OneLess
<1> HIDE DEF old, new, n, m
<1>6. begin \in [1..(n + 1) + 1 -> 0..m]
  BY <1>2, <1>3, <1>5
<1>7. begin[1] = from + 1 /\ begin[(n + 1) + 1] = m
  BY <1>2, <1>3
<1>8. \A k \in 1..n + 1 : Covers(new[k], values, begin[k], begin[k + 1])
  <2>1. ASSUME NEW k \in 2..n + 1
        PROVE  Covers(new[k], values, begin[k], begin[k + 1])
    <3>1. begin[k] = start[k] /\ begin[k + 1] = start[k + 1] /\ k \in 1..n + 1
      BY <1>2
    <3> QED
      BY <1>2, <1>3, <3>1
  <2>2. begin[1] = from + 1 /\ begin[2] = start[2] /\ new[1] = less /\ 1 + 1 = 2
    BY <1>2
  <2>3. Covers(new[1], values, begin[1], begin[1 + 1])
    BY <1>5, <2>2
  <2>4. \A k \in 1..n + 1 : k \in 2..n + 1 \/ k = 1
    BY <1>2
  <2> QED
    BY <2>1, <2>3, <2>4
<1>9. Starts(begin, new, values, from + 1)
  BY <1>2, <1>6, <1>7, <1>8 DEF Starts, m
<1> QED
  BY <1>2, <1>4, <1>5, <1>6, <1>9 DEF Tells, Follows, new, m

(* Reading: a first run that is used up may be dropped.                    *)
LEMMA TellsSkip ==
    ASSUME NEW R, NEW runs \in Seq(R), NEW V, NEW values \in Seq(V), NEW from,
           NEW first \in R, Tells(Then(first, runs), values, from),
           first.count = 0
    PROVE  Tells(runs, values, from)
<1> DEFINE n == Len(runs)
           m == Len(values)
           old == Then(first, runs)
<1>1. PICK start \in [1..Len(old) + 1 -> 0..m] : Starts(start, old, values, from)
  BY DEF Tells
<1>2. /\ n \in Nat /\ m \in Nat
      /\ Len(old) = n + 1
      /\ old[1] = first
      /\ \A k \in 1..n : old[k + 1] = runs[k]
  BY DEF Then
<1> DEFINE begin == [k \in 1..n + 1 |-> start[k + 1]]
<1>3. /\ start[1] = from /\ start[n + 2] = m
      /\ start \in [1..n + 2 -> 0..m]
      /\ \A k \in 1..n + 1 : Covers(old[k], values, start[k], start[k + 1])
  <2>1. n + 2 = (n + 1) + 1
    BY <1>2
  <2> HIDE DEF n, m, old
  <2> QED
    BY <1>1, <1>2, <2>1 DEF Starts, m
<1>4. start[2] = from /\ from \in 0..m
  <2>1. from \in 0..m /\ start[2] \in 0..m /\ 1 + 1 = 2 /\ 1 \in 1..n + 1
    BY <1>2, <1>3
  <2>2. Covers(first, values, from, start[2])
    BY <1>2, <1>3, <2>1
  <2> QED
    BY <2>1, <2>2 DEF Covers
<1> HIDE DEF old, n, m
<1>6. begin \in [1..n + 1 -> 0..m]
  BY <1>2, <1>3
<1>7. begin[1] = from /\ begin[n + 1] = m
  BY <1>2, <1>3, <1>4
<1>8. \A k \in 1..n : Covers(runs[k], values, begin[k], begin[k + 1])
  <2> TAKE k \in 1..n
  <2>1. begin[k] = start[k + 1] /\ begin[k + 1] = start[(k + 1) + 1] /\ k + 1 \in 1..n + 1
    BY <1>2
  <2> QED
    BY <1>2, <1>3, <2>1
<1>9. Starts(begin, runs, values, from)
  BY <1>2, <1>6, <1>7, <1>8 DEF Starts, m, n
<1> QED
  BY <1>2, <1>6, <1>9 DEF Tells, n, m

(* Empty runs tell nothing: one may be added at the end...                 *)
LEMMA TellsEmptyLast ==
    ASSUME NEW R, NEW runs \in Seq(R), NEW V, NEW values \in Seq(V), NEW from,
           Tells(runs, values, from),
           NEW run \in R, run.count = 0
    PROVE  Tells(Append(runs, run), values, from)
<1> DEFINE n == Len(runs)
           m == Len(values)
           more == Append(runs, run)
<1>1. PICK start \in [1..n + 1 -> 0..m] : Starts(start, runs, values, from)
  BY DEF Tells
<1> DEFINE begin == [k \in 1..n + 2 |-> IF k = n + 2 THEN m ELSE start[k]]
<1>2. /\ n \in Nat /\ m \in Nat
      /\ Len(more) = n + 1
      /\ \A k \in 1..n : more[k] = runs[k]
      /\ more[n + 1] = run
  OBVIOUS
<1>3. /\ start[1] = from /\ start[n + 1] = m
      /\ \A k \in 1..n : Covers(runs[k], values, start[k], start[k + 1])
  BY <1>1 DEF Starts
<1>4. Covers(run, values, m, m)
  BY <1>2 DEF Covers
<1> HIDE DEF more, n, m
<1>5. begin \in [1..(n + 1) + 1 -> 0..m]
  BY <1>1, <1>2
<1>6. begin[1] = from /\ begin[(n + 1) + 1] = m
  BY <1>2, <1>3
<1>7. \A k \in 1..n + 1 : Covers(more[k], values, begin[k], begin[k + 1])
  <2>1. ASSUME NEW k \in 1..n
        PROVE  Covers(more[k], values, begin[k], begin[k + 1])
    <3>1. begin[k] = start[k] /\ begin[k + 1] = start[k + 1]
      BY <1>2
    <3> QED
      BY <1>2, <1>3, <3>1
  <2>2. begin[n + 1] = m /\ begin[n + 2] = m /\ more[n + 1] = run /\ (n + 1) + 1 = n + 2
    BY <1>2, <1>3
  <2>3. Covers(more[n + 1], values, begin[n + 1], begin[(n + 1) + 1])
    BY <1>4, <2>2
  <2>4. \A k \in 1..n + 1 : k \in 1..n \/ k = n + 1
    BY <1>2
  <2> QED
    BY <2>1, <2>3, <2>4
<1>8. Starts(begin, more, values, from)
  BY <1>2, <1>5, <1>6, <1>7 DEF Starts, m
<1> QED
  BY <1>2, <1>5, <1>8 DEF Tells, more, m

(* ...or at the start.                                                     *)
LEMMA TellsEmptyFirst ==
    ASSUME NEW R, NEW runs \in Seq(R), NEW V, NEW values \in Seq(V), NEW from,
           Tells(runs, values, from),
           NEW run \in R, run.count = 0
    PROVE  Tells(Then(run, runs), values, from)
<1> DEFINE n == Len(runs)
           m == Len(values)
           more == Then(run, runs)
<1>1. PICK start \in [1..n + 1 -> 0..m] : Starts(start, runs, values, from)
  BY DEF Tells
<1> DEFINE begin == [k \in 1..n + 2 |-> IF k = 1 THEN from ELSE start[k - 1]]
<1>2. /\ n \in Nat /\ m \in Nat
      /\ Len(more) = n + 1
      /\ \A k \in 2..n + 1 : more[k] = runs[k - 1]
      /\ more[1] = run
  BY DEF Then
<1>3. /\ start[1] = from /\ start[n + 1] = m
      /\ \A k \in 1..n : Covers(runs[k], values, start[k], start[k + 1])
  BY <1>1 DEF Starts
<1>4. from \in 0..m
  <2> HIDE DEF n, m
  <2> QED  BY <1>1, <1>2, <1>3
<1>5. Covers(run, values, from, from)
  BY <1>2, <1>4 DEF Covers
<1> HIDE DEF more, n, m
<1>6. begin \in [1..(n + 1) + 1 -> 0..m]
  BY <1>1, <1>2, <1>4
<1>7. begin[1] = from /\ begin[(n + 1) + 1] = m
  BY <1>2, <1>3
<1>8. \A k \in 1..n + 1 : Covers(more[k], values, begin[k], begin[k + 1])
  <2>1. ASSUME NEW k \in 2..n + 1
        PROVE  Covers(more[k], values, begin[k], begin[k + 1])
    <3>1. begin[k] = start[k - 1] /\ begin[k + 1] = start[(k - 1) + 1] /\ k - 1 \in 1..n
      BY <1>2
    <3> QED
      BY <1>2, <1>3, <3>1
  <2>2. begin[1] = from /\ begin[2] = from /\ more[1] = run /\ 1 + 1 = 2
    BY <1>2, <1>3
  <2>3. Covers(more[1], values, begin[1], begin[1 + 1])
    BY <1>5, <2>2
  <2>4. \A k \in 1..n + 1 : k \in 2..n + 1 \/ k = 1
    BY <1>2
  <2> QED
    BY <2>1, <2>3, <2>4
<1>9. Starts(begin, more, values, from)
  BY <1>2, <1>6, <1>7, <1>8 DEF Starts, m
<1> QED
  BY <1>2, <1>6, <1>9 DEF Tells, more, m

-----------------------------------------------------------------------------
(* Reading the log of buttons and resets.                                  *)

(* A set of naturals that is not empty has a least element.                *)
LEMMA LeastNumber ==
    ASSUME NEW T, T \subseteq Nat, T # {}
    PROVE  \E m \in T : \A k \in T : m <= k
<1> DEFINE R == {ss \in Nat \X Nat : ss[1] < ss[2]}
<1>1. IsWellFoundedOn(R, Nat)
  BY NatLessThanWellFounded, Zenon DEF OpToRel
<1>2. \E m \in T : \A k \in T : ~(<<k, m>> \in R)
  <2> HIDE DEF R
  <2> QED  BY <1>1, WFMin, Zenon
<1>3. \A a, b \in Nat : a < b => <<a, b>> \in R
  OBVIOUS
<1> HIDE DEF R
<1>4. PICK m \in T : \A k \in T : ~(<<k, m>> \in R)
  BY <1>2, Zenon
<1>5. ASSUME NEW k \in T PROVE m <= k
  <2>1. ~(<<k, m>> \in R) /\ k \in Nat /\ m \in Nat
    BY <1>4, Zenon
  <2>2. ~(k < m)
    BY <1>3, <2>1, Zenon
  <2> QED
    BY <2>1, <2>2
<1> QED
  BY <1>5

(* The queues before any entry is read.                                    *)
NoQueues == [kind \in {"BTN", "RST"} |-> <<>>]

(* What the loop of readAll computes up to entry n. *)
Reads(queues, file, n) ==
    queues = [k \in 0..n |-> IF k = 0 THEN NoQueues ELSE Push(queues[k - 1], file[k])]

(* The loop goes one entry further.                                        *)
LEMMA ReadsOneMore ==
    ASSUME NEW file, NEW n \in Nat, NEW queues, Reads(queues, file, n)
    PROVE  Reads([k \in 0..n + 1 |-> IF k = n + 1 THEN Push(queues[n], file[n + 1])
                                                  ELSE queues[k]], file, n + 1)
<1> DEFINE more == [k \in 0..n + 1 |-> IF k = n + 1 THEN Push(queues[n], file[n + 1])
                                                    ELSE queues[k]]
<1>1. ASSUME NEW k \in 0..n + 1
      PROVE  more[k] = IF k = 0 THEN NoQueues ELSE Push(more[k - 1], file[k])
  <2>1. CASE k = n + 1
    <3>1. k # 0 /\ k - 1 = n /\ n \in 0..n + 1 /\ n # n + 1
      BY <2>1
    <3>2. more[n] = queues[n]
      BY <3>1
    <3> QED
      BY <2>1, <3>1, <3>2
  <2>2. CASE k # n + 1
    <3>1. k \in 0..n /\ more[k] = queues[k]
      BY <2>2
    <3>2. queues[k] = IF k = 0 THEN NoQueues ELSE Push(queues[k - 1], file[k])
      BY <3>1 DEF Reads
    <3>3. k # 0 => more[k - 1] = queues[k - 1]
      BY <3>1
    <3> QED
      BY <3>1, <3>2, <3>3
  <2> QED
    BY <2>1, <2>2
<1> QED
  BY <1>1 DEF Reads

(* There is a value of the loop for every number of entries: were there a  *)
(* least number without, the number before it would have one.              *)
LEMMA ReadsExist ==
    ASSUME NEW file, NEW n \in Nat
    PROVE  \E queues : Reads(queues, file, n)
<1> DEFINE T == {k \in Nat : ~\E queues : Reads(queues, file, k)}
<1>1. ASSUME T # {} PROVE FALSE
  <2>1. PICK m \in T : \A k \in T : m <= k
    BY <1>1, LeastNumber
  <2>2. m \in Nat /\ ~\E queues : Reads(queues, file, m)
    OBVIOUS
  <2>3. CASE m = 0
    <3> DEFINE queues == [k \in 0..0 |-> NoQueues]
    <3>1. Reads(queues, file, 0)
      BY DEF Reads
    <3> HIDE DEF queues
    <3> QED
      BY <2>2, <2>3, <3>1
  <2>4. CASE m # 0
    <3>1. m - 1 \in Nat /\ m - 1 \notin T /\ (m - 1) + 1 = m
      <4> HIDE DEF T
      <4> QED  BY <2>1, <2>2, <2>4
    <3>2. PICK queues : Reads(queues, file, m - 1)
      BY <3>1
    <3>3. \E more : Reads(more, file, (m - 1) + 1)
      BY <3>1, <3>2, ReadsOneMore
    <3> QED
      BY <2>2, <3>1, <3>3
  <2> QED
    BY <2>3, <2>4
<1> QED
  BY <1>1

(* The entries read so far determine the queues, whatever follows them in  *)
(* the file: two that differed would differ at a least entry.              *)
LEMMA ReadsAreEqual ==
    ASSUME NEW file, NEW n \in Nat, NEW some, Reads(some, file, n), 
           NEW other, Reads(other, file, n)
    PROVE  \A k \in 0..n : some[k] = other[k]
<1> DEFINE T == {k \in 0..n : some[k] # other[k]}
<1>1. ASSUME T # {} PROVE FALSE
  <2> T \subseteq Nat
    OBVIOUS
  <2>1. PICK m \in T : \A k \in T : m <= k
    <3> HIDE DEF T
    <3> QED
      BY <1>1, LeastNumber
  <2>2. m \in 0..n /\ some[m] # other[m]
    OBVIOUS
  <2>3. m # 0
    BY <2>2 DEF Reads
  <2>4. m - 1 \in 0..n /\ m - 1 \notin T
    <3> HIDE DEF T
    <3> QED  BY <2>1, <2>2, <2>3
  <2>5. some[m - 1] = other[m - 1]
    BY <2>4
  <2>6. some[m] = Push(some[m - 1], file[m]) /\ other[m] = Push(other[m - 1], file[m])
    <3>1. some = [k \in 0..n |-> IF k = 0 THEN NoQueues ELSE Push(some[k - 1], file[k])]
      BY DEF Reads
    <3>2. other = [k \in 0..n |-> IF k = 0 THEN NoQueues ELSE Push(other[k - 1], file[k])]
      BY DEF Reads
    <3>3. some[m] = IF m = 0 THEN NoQueues ELSE Push(some[m - 1], file[m])
      BY <2>2, <3>1
    <3>4. other[m] = IF m = 0 THEN NoQueues ELSE Push(other[m - 1], file[m])
      BY <2>2, <3>2
    <3> QED
      BY <2>3, <3>3, <3>4
  <2> QED
    BY <2>2, <2>5, <2>6
<1> QED
  BY <1>1

(* So readAll is what its loop computes.                                   *)
LEMMA ReadAllReads ==
    ASSUME NEW file, NEW queues, Len(file) \in Nat, Reads(queues, file, Len(file))
    PROVE  readAll(file) = queues[Len(file)]
<1> DEFINE n == Len(file)
           loop == CHOOSE q : q = [k \in 0..n |-> IF k = 0 THEN NoQueues
                                                           ELSE Push(q[k - 1], file[k])]
<1>1. readAll(file) = loop[n]
  BY DEF readAll, NoQueues
<1>2. Reads(loop, file, n)
  <2>1. Reads(CHOOSE q : Reads(q, file, n), file, n)
    BY Zenon
  <2> QED
    BY <2>1 DEF Reads
<1> HIDE DEF loop
<1>3. n \in 0..n
  OBVIOUS
<1> QED
  BY <1>1, <1>2, <1>3, ReadsAreEqual

(* An empty log gives empty queues.                                        *)
LEMMA ReadAllOfNothing ==
    readAll(<<>>) = NoQueues
<1> DEFINE queues == [k \in 0..0 |-> NoQueues]
<1>1. Reads(queues, <<>>, 0)
  BY DEF Reads
<1>2. Len(<<>>) = 0 /\ queues[0] = NoQueues
  OBVIOUS
<1> HIDE DEF queues
<1> QED
  BY <1>1, <1>2, ReadAllReads

(* An entry appended to the log is pushed last.                            *)
LEMMA ReadAllOfMore ==
    ASSUME NEW E, NEW file \in Seq(E), NEW entry \in E
    PROVE  readAll(Append(file, entry)) = Push(readAll(file), entry)
<1> DEFINE n == Len(file)
           longer == Append(file, entry)
<1>1. n \in Nat /\ Len(longer) = n + 1 /\ longer[n + 1] = entry /\ \A k \in 1..n : longer[k] = file[k]
  OBVIOUS
<1>2. PICK queues : Reads(queues, file, n)
  BY <1>1, ReadsExist
<1>3. readAll(file) = queues[n]
  BY <1>1, <1>2, ReadAllReads
<1> HIDE DEF longer, n
<1>4. Reads(queues, longer, n)
  <2>1. queues = [k \in 0..n |-> IF k = 0 THEN NoQueues ELSE Push(queues[k - 1], file[k])]
    BY <1>2 DEF Reads
  <2>2. \A k \in 0..n : k # 0 => longer[k] = file[k]
    BY <1>1
  <2>3. queues = [k \in 0..n |-> IF k = 0 THEN NoQueues ELSE Push(queues[k - 1], longer[k])]
    BY <2>1, <2>2
  <2> QED
    BY <2>3 DEF Reads
<1> DEFINE more == [k \in 0..n + 1 |-> IF k = n + 1 THEN Push(queues[n], longer[n + 1])
                                                    ELSE queues[k]]
<1>5. Reads(more, longer, n + 1)
  BY <1>1, <1>4, ReadsOneMore
<1>6. more[n + 1] = Push(queues[n], longer[n + 1])
  BY <1>1
<1> HIDE DEF more
<1>7. readAll(longer) = more[n + 1]
  BY <1>1, <1>5, ReadAllReads
<1>8. readAll(longer) = Push(readAll(file), entry)
  BY <1>1, <1>3, <1>6, <1>7
<1> QED
  BY <1>8 DEF longer

-----------------------------------------------------------------------------
(* The inductive invariant.                                                *)

(* The fields of a ByteAggregator.                                         *)
AggrBytes == [val : 0..127, count : 0..CAP, is8 : BOOLEAN]

(* The run a ByteAggregator holds, and those of a file.                    *)
AsRun(aggr) == [value |-> aggr.val, count |-> aggr.count]

PixelRuns(file) == [k \in 1..Len(file) |-> AsRun(Decoded(file[k]))]

(* A run of pixels.                                                        *)
PixelRun == [value : 0..127, count : 0..CAP]

(* A writer: its file and the run it collects tell the pixels drawn so     *)
(* far. Only the very first run may still be empty.                        *)
WriterOK(w, drawnPixels) ==
    /\ w = [file |-> w.file, aggr |-> w.aggr, locked |-> w.locked]
    /\ w.file \in Seq(Group)
    /\ \A k \in 1..Len(w.file) : w.file[k].head # END /\ w.file[k].count # 0
    /\ w.aggr \in AggrBytes
    /\ w.aggr.val < MAX
    /\ w.aggr.is8 <=> w.aggr.count <= SMALL
    /\ w.locked <=> w.aggr.count # 0
    /\ w.aggr.count = 0 => w.file = <<>> /\ drawnPixels = <<>>
    /\ Tells(Append(PixelRuns(w.file), AsRun(w.aggr)), drawnPixels, 0)

(* A reader: what is left of its run and of the file tell the pixels after *)
(* the nth. The file ends with the end mark, and with no other.            *)
ReaderOK(r, drawnPixels, n) ==
    /\ r = [file |-> r.file, current |-> r.current, value |-> r.value]
    /\ r.file \in Seq(Group)
    /\ r.file # <<>>
    /\ r.file[Len(r.file)] = [head |-> END, count |-> 0]
    /\ \A k \in 1..(Len(r.file) - 1) : r.file[k].head # END /\ r.file[k].count # 0
    /\ r.current \in AggrBytes
    /\ Tells(Then(AsRun(r.current), PixelRuns(r.file)), drawnPixels, n)

(* The histories agree: every step knows how many pixels were drawn up to  *)
(* its end.                                                                *)
TapeOK ==
    /\ tape \in Seq([reset : BOOLEAN, buttons : BUTTONS, drawn : Nat])
    /\ pixels \in Seq(PALETTES)
    /\ \A k \in 1..Len(tape) : tape[k].drawn <= Len(pixels)
    /\ tape # <<>> => tape[Len(tape)].drawn = Len(pixels)
    /\ tape = <<>> => pixels = <<>>

(* Nothing was replayed yet.                                               *)
Untouched ==
    /\ reader = "none"
    /\ step = 0 /\ drawn = 0 /\ compared = 0
    /\ ~isDone /\ onTrack

(* The invariant of the pixel log. It holds whatever marshal writes, also  *)
(* when a replay goes off track.                                           *)
PixelInv ==
    /\ TapeOK
    /\ phase \in {"recording", "closed", "replaying", "finished", "error"}
    /\ phase \in {"recording", "closed"} => Untouched
    /\ phase = "recording" => WriterOK(screenOut, pixels)
    /\ phase = "closed" => ReaderOK(NewReader(screenOut.file), pixels, 0)
    /\ phase = "replaying" => reader \in {"compare", "replay"}
    /\ phase = "replaying" /\ ~isDone => ReaderOK(screenIn, pixels, compared)
    /\ phase # "recording" => pixels # <<>>
    /\ compared \in Nat /\ compared <= Len(pixels)
    /\ isDone => compared = Len(pixels)

(* marshal never finds a set bit in the byte it does not initialise.       *)
NoGarbage == TRUE \notin GARBAGE

(* The program shows something before the window is closed.                *)
SessionsDraw == ~UNDRAWN_SESSIONS

(* What the console was given, step by step.                               *)
TapedButtons == [k \in 1..Len(tape) |-> tape[k].buttons]

TapedResets == [k \in 1..Len(tape) |-> tape[k].reset]

(* A run of inputs.                                                        *)
Run(V) == [value : V, count : Nat]

(* Only the first run may be empty: an input the session did not begin with. *)
Logs(runs, V, inputs) ==
    /\ runs \in Seq(Run(V))
    /\ \A k \in 2..Len(runs) : runs[k].count # 0
    /\ Tells(runs, inputs, 0)

(* A current entry and the queue behind it tell the inputs after the nth.  *)
Gives(run, queue, V, inputs, n) ==
    /\ run \in Run(V)
    /\ queue \in Seq(Run(V))
    /\ \A k \in 1..Len(queue) : queue[k].count # 0
    /\ Tells(Then(run, queue), inputs, n)

(* Entries of the button log, and the queues they are sorted into.         *)
InputEntry ==
    [kind : {"BTN"}, run : Run(BUTTONS)] \cup [kind : {"RST"}, run : Run(BOOLEAN)]

QueuesOK(queues) ==
    /\ queues = [kind \in {"BTN", "RST"} |-> queues[kind]]
    /\ queues["BTN"] \in Seq(Run(BUTTONS))
    /\ queues["RST"] \in Seq(Run(BOOLEAN))

(* The button log.                                                         *)
FileOK == btnFile \in Seq(InputEntry)

(* While recording, each queue of the log and the run the spy counts tell  *)
(* the inputs given so far.                                                *)
SpyOK ==
    /\ FileOK
    /\ spyButtons \in Run(BUTTONS) /\ spyReset \in Run(BOOLEAN)
    /\ QueuesOK(readAll(btnFile))
    /\ Logs(Append(readAll(btnFile)["BTN"], spyButtons), BUTTONS, TapedButtons)
    /\ Logs(Append(readAll(btnFile)["RST"], spyReset), BOOLEAN, TapedResets)

(* Once closed, the queues alone do.                                       *)
ClosedOK ==
    /\ QueuesOK(readAll(btnFile))
    /\ readAll(btnFile)["BTN"] # <<>> /\ readAll(btnFile)["RST"] # <<>>
    /\ Logs(readAll(btnFile)["BTN"], BUTTONS, TapedButtons)
    /\ Logs(readAll(btnFile)["RST"], BOOLEAN, TapedResets)

(* While comparing, what is left of the two queues tells the inputs of the *)
(* remaining recorded steps; the console has drawn what was compared. Once *)
(* the recorded steps are over, everything was compared.                   *)
CompareOK ==
    /\ step \in 0..(Len(tape) + 1)
    /\ step <= Len(tape) =>
           /\ Gives(cmpButtons, nextButtons, BUTTONS, TapedButtons, step)
           /\ Gives(cmpReset, nextResets, BOOLEAN, TapedResets, step)
           /\ drawn = compared
           /\ ~isDone
    /\ step > Len(tape) => compared = Len(pixels)

(* The invariant of the inputs.                                            *)
InputInv ==
    /\ onTrack
    /\ phase # "error"
    /\ phase = "recording" => SpyOK
    /\ phase = "closed" => ClosedOK
    /\ phase = "replaying" /\ reader = "compare" => CompareOK

-----------------------------------------------------------------------------
(* The stream of pixels.                                                   *)

(* The high bit of the head is free for the colours below MAX.             *)
LEMMA ByteRange ==
    ASSUME NEW v \in 0..126
    PROVE  /\ v % 128 = v /\ v < 128 /\ v \in 0..255 /\ v # 255
           /\ (v + 128) % 128 = v /\ ~(v + 128 < 128) /\ v + 128 \in 0..255 /\ v + 128 # 255
OBVIOUS

(* A group read back is the run that was written: colour, length, and      *)
(* which of the two forms of the count was used; no group looks like the   *)
(* end mark.                                                               *)
LEMMA DecodedEncoded ==
    ASSUME NEW run \in AggrBytes, run.val < MAX, run.is8 <=> run.count <= SMALL
    PROVE  /\ Encoded(run) \in Group
           /\ Encoded(run).head # END
           /\ Encoded(run).count = run.count
           /\ AsRun(Decoded(Encoded(run))) = AsRun(run)
<1>1. run.val \in 0..126 /\ run.count \in 0..CAP /\ CAP \in Nat /\ SMALL \in Nat /\ SMALL < CAP
  BY StreamAssumption DEF AggrBytes, MAX
<1>2. /\ run.val % 128 = run.val /\ run.val < 128 /\ run.val \in 0..255 /\ run.val # 255
      /\ (run.val + 128) % 128 = run.val /\ ~(run.val + 128 < 128)
      /\ run.val + 128 \in 0..255 /\ run.val + 128 # 255
  BY <1>1, ByteRange
<1>3. run.is8 => run.count % (SMALL + 1) = run.count
  <2> SUFFICES ASSUME run.count <= SMALL PROVE run.count % (SMALL + 1) = run.count
    OBVIOUS
  <2> DEFINE c == run.count
             d == SMALL + 1
  <2>1. c \in 0..(d - 1) /\ d \in Nat \ {0}
    BY <1>1
  <2> HIDE DEF c, d
  <2>2. c % d = c
    BY <2>1
  <2> QED
    BY <2>2 DEF c, d
<1>4. CASE run.is8
  <2>1. Encoded(run) = [head |-> run.val, count |-> run.count]
    BY <1>3, <1>4 DEF Encoded
  <2> QED
    BY <1>1, <1>2, <2>1 DEF Group, END, AsRun, Decoded
<1>5. CASE ~run.is8
  <2>1. Encoded(run) = [head |-> run.val + 128, count |-> run.count]
    BY <1>5 DEF Encoded
  <2> QED
    BY <1>1, <1>2, <2>1 DEF Group, END, AsRun, Decoded
<1> QED
  BY <1>4, <1>5

(* Whatever group is read, the aggregator stays within its type.           *)
LEMMA DecodedGroup ==
    ASSUME NEW group \in Group
    PROVE  /\ Decoded(group) \in AggrBytes
           /\ Decoded(group).count = group.count
           /\ AsRun(Decoded(group)) \in PixelRun
<1>1. group.head \in 0..255 /\ group.count \in 0..CAP
  BY DEF Group
<1>2. group.head % 128 \in 0..127
  BY <1>1
<1>3. Decoded(group) = [val |-> group.head % 128, count |-> group.count, is8 |-> group.head < 128]
  BY DEF Decoded
<1> QED
  BY <1>1, <1>2, <1>3 DEF AggrBytes, AsRun, PixelRun

(* The runs of a file, group by group...                                   *)
LEMMA RunsOfGroups ==
    ASSUME NEW file \in Seq(Group)
    PROVE  /\ PixelRuns(file) \in Seq(PixelRun)
           /\ Len(PixelRuns(file)) = Len(file)
           /\ \A k \in 1..Len(file) : PixelRuns(file)[k] = AsRun(Decoded(file[k]))
<1>1. Len(file) \in Nat /\ \A k \in 1..Len(file) : file[k] \in Group
  OBVIOUS
<1>2. \A k \in 1..Len(file) : AsRun(Decoded(file[k])) \in PixelRun
  BY <1>1, DecodedGroup
<1> QED
  BY <1>1, <1>2 DEF PixelRuns

(* ...with a group appended...                                             *)
LEMMA RunsOfMore ==
    ASSUME NEW file \in Seq(Group), NEW group \in Group
    PROVE  PixelRuns(Append(file, group)) = Append(PixelRuns(file), AsRun(Decoded(group)))
<1>1. /\ PixelRuns(file) \in Seq(PixelRun) /\ Len(PixelRuns(file)) = Len(file)
      /\ \A k \in 1..Len(file) : PixelRuns(file)[k] = AsRun(Decoded(file[k]))
  BY RunsOfGroups
<1>2. Append(file, group) \in Seq(Group)
  OBVIOUS
<1>3. /\ PixelRuns(Append(file, group)) \in Seq(PixelRun)
      /\ Len(PixelRuns(Append(file, group))) = Len(Append(file, group))
      /\ \A k \in 1..Len(Append(file, group)) :
             PixelRuns(Append(file, group))[k] = AsRun(Decoded(Append(file, group)[k]))
  BY <1>2, RunsOfGroups
<1>4. AsRun(Decoded(group)) \in PixelRun
  BY DecodedGroup
<1> DEFINE n == Len(file)
           a == PixelRuns(Append(file, group))
           b == Append(PixelRuns(file), AsRun(Decoded(group)))
<1>5. /\ n \in Nat /\ Len(Append(file, group)) = n + 1
      /\ \A k \in 1..n : Append(file, group)[k] = file[k]
      /\ Append(file, group)[n + 1] = group
  OBVIOUS
<1>6. /\ b \in Seq(PixelRun) /\ Len(b) = n + 1
      /\ \A k \in 1..n : b[k] = PixelRuns(file)[k]
      /\ b[n + 1] = AsRun(Decoded(group))
  BY <1>1, <1>4
<1>7. a \in Seq(PixelRun) /\ Len(a) = n + 1
  BY <1>3, <1>5
<1>8. \A k \in 1..n + 1 : a[k] = b[k]
  <2>1. ASSUME NEW k \in 1..n PROVE a[k] = b[k]
    BY <1>1, <1>3, <1>5, <1>6, <2>1
  <2>2. a[n + 1] = b[n + 1]
    BY <1>3, <1>5, <1>6
  <2>3. \A k \in 1..n + 1 : k \in 1..n \/ k = n + 1
    BY <1>5
  <2> QED
    BY <2>1, <2>2, <2>3
<1> HIDE DEF a, b, n
<1>9. a = b
  BY <1>6, <1>7, <1>8, SeqEqual
<1> QED
  BY <1>9 DEF a, b

(* ...and with the first taken away.                                       *)
LEMMA RunsOfRest ==
    ASSUME NEW file \in Seq(Group), file # <<>>
    PROVE  PixelRuns(file) = Then(AsRun(Decoded(Head(file))), PixelRuns(Tail(file)))
<1>1. /\ PixelRuns(file) \in Seq(PixelRun) /\ Len(PixelRuns(file)) = Len(file)
      /\ \A k \in 1..Len(file) : PixelRuns(file)[k] = AsRun(Decoded(file[k]))
  BY RunsOfGroups
<1>2. Tail(file) \in Seq(Group) /\ Head(file) \in Group
  OBVIOUS
<1>3. /\ PixelRuns(Tail(file)) \in Seq(PixelRun)
      /\ Len(PixelRuns(Tail(file))) = Len(Tail(file))
      /\ \A k \in 1..Len(Tail(file)) : PixelRuns(Tail(file))[k] = AsRun(Decoded(Tail(file)[k]))
  BY <1>2, RunsOfGroups
<1>4. AsRun(Decoded(Head(file))) \in PixelRun
  BY <1>2, DecodedGroup
<1> DEFINE n == Len(file)
           a == PixelRuns(file)
           b == <<AsRun(Decoded(Head(file)))>> \o PixelRuns(Tail(file))
<1>5. /\ n \in Nat \ {0} /\ Len(Tail(file)) = n - 1
      /\ \A k \in 2..n : Tail(file)[k - 1] = file[k]
      /\ file[1] = Head(file)
  OBVIOUS
<1>6. /\ b \in Seq(PixelRun) /\ Len(b) = n
      /\ \A k \in 2..n : b[k] = PixelRuns(Tail(file))[k - 1]
      /\ b[1] = AsRun(Decoded(Head(file)))
  <2> DEFINE c == PixelRuns(Tail(file))
             d == AsRun(Decoded(Head(file)))
  <2>1. c \in Seq(PixelRun) /\ Len(c) = n - 1 /\ d \in PixelRun
    BY <1>3, <1>4, <1>5
  <2> HIDE DEF c, d, n
  <2>2. /\ <<d>> \o c \in Seq(PixelRun) /\ Len(<<d>> \o c) = n
        /\ (<<d>> \o c)[1] = d
    BY <1>5, <2>1
  <2>3. ASSUME NEW k \in 2..n PROVE (<<d>> \o c)[k] = c[k - 1]
    BY <1>5, <2>1
  <2> QED
    BY <2>2, <2>3 DEF c, d
<1>7. \A k \in 1..n : a[k] = b[k]
  <2>1. ASSUME NEW k \in 2..n PROVE a[k] = b[k]
    BY <1>1, <1>3, <1>5, <1>6, <2>1
  <2>2. a[1] = b[1]
    BY <1>1, <1>5, <1>6
  <2>3. \A k \in 1..n : k \in 2..n \/ k = 1
    BY <1>5
  <2> QED
    BY <2>1, <2>2, <2>3
<1>8. a \in Seq(PixelRun) /\ Len(a) = n
  BY <1>1
<1> HIDE DEF a, b, n
<1>9. a = b
  BY <1>6, <1>7, <1>8, SeqEqual
<1> QED
  BY <1>9 DEF a, b, Then

(* write: whether the run goes on, is full, or the colour changes, the     *)
(* writer tells one more pixel.                                            *)
LEMMA WritesPixel ==
    ASSUME NEW w, NEW drawnPixels \in Seq(PALETTES), NEW palette \in PALETTES,
           WriterOK(w, drawnPixels)
    PROVE  WriterOK(write(w, palette), Append(drawnPixels, palette))
<1> DEFINE new == write(w, palette)
           longer == Append(drawnPixels, palette)
<1>1. /\ palette \in 0..126
      /\ SMALL \in Nat \ {0} /\ CAP \in Nat /\ SMALL < CAP
  BY RecordingAssumption, StreamAssumption DEF MAX
<1>2. /\ w = [file |-> w.file, aggr |-> w.aggr, locked |-> w.locked]
      /\ w.file \in Seq(Group)
      /\ \A k \in 1..Len(w.file) : w.file[k].head # END /\ w.file[k].count # 0
      /\ w.aggr \in AggrBytes
      /\ w.aggr.val < MAX
      /\ w.aggr.is8 <=> w.aggr.count <= SMALL
      /\ w.locked <=> w.aggr.count # 0
      /\ w.aggr.count = 0 => w.file = <<>> /\ drawnPixels = <<>>
      /\ Tells(Append(PixelRuns(w.file), AsRun(w.aggr)), drawnPixels, 0)
  BY DEF WriterOK
<1>3. w.aggr.count \in 0..CAP /\ w.aggr.val \in 0..127 /\ w.aggr.is8 \in BOOLEAN
  BY <1>2 DEF AggrBytes
<1>4. PixelRuns(w.file) \in Seq(PixelRun) /\ AsRun(w.aggr) \in PixelRun
  BY <1>2, <1>3, RunsOfGroups DEF AsRun, PixelRun
<1>5. CASE canLoad(w, palette)
  <2>1. w.aggr.count # CAP /\ (w.locked => palette = w.aggr.val)
    BY <1>5 DEF canLoad
  <2> DEFINE aggr == [val |-> palette, count |-> w.aggr.count + 1,
                      is8 |-> w.aggr.is8 /\ w.aggr.count # SMALL]
  <2>2. /\ new.file = w.file /\ new.aggr = aggr /\ new.locked = TRUE
        /\ new = [file |-> new.file, aggr |-> new.aggr, locked |-> new.locked]
    BY <1>2, <1>5 DEF write, load
  <2>3. aggr \in AggrBytes /\ aggr.val < MAX /\ aggr.count # 0
    BY <1>1, <1>3, <2>1 DEF AggrBytes, MAX
  <2>4. aggr.is8 <=> aggr.count <= SMALL
    <3>1. (w.aggr.is8 /\ w.aggr.count # SMALL) <=> w.aggr.count + 1 <= SMALL
      BY <1>1, <1>2, <1>3
    <3>2. aggr.is8 <=> (w.aggr.is8 /\ w.aggr.count # SMALL)
      BY Zenon
    <3>3. aggr.count = w.aggr.count + 1
      OBVIOUS
    <3> HIDE DEF aggr
    <3> QED
      BY <3>1, <3>2, <3>3
  <2>5. AsRun(aggr) = [value |-> palette, count |-> w.aggr.count + 1] /\ AsRun(aggr) \in PixelRun
    BY <2>3 DEF AsRun, AggrBytes, PixelRun
  <2>6. Tells(Append(PixelRuns(w.file), AsRun(aggr)), longer, 0)
    <3>1. CASE w.aggr.count = 0
      <4>1. w.file = <<>> /\ drawnPixels = <<>>
        BY <1>2, <3>1
      <4>2. PixelRuns(<<>>) = <<>>
        BY DEF PixelRuns
      <4>3. Tells(PixelRuns(w.file), drawnPixels, 0)
        BY <4>1, <4>2, TellsNothing
      <4>4. AsRun(aggr).count = 1 /\ AsRun(aggr).value = palette
        BY <2>5, <3>1
      <4> HIDE DEF aggr
      <4> QED
        BY <1>4, <2>5, <4>3, <4>4, TellsAnother
    <3>2. CASE w.aggr.count # 0
      <4>1. AsRun(w.aggr).value = palette /\ AsRun(w.aggr).count = w.aggr.count
        BY <1>2, <2>1, <3>2 DEF AsRun
      <4>2. AsRun(aggr).count = AsRun(w.aggr).count + 1 /\ AsRun(aggr).value = palette
        BY <2>5, <4>1
      <4> HIDE DEF aggr
      <4> QED
        BY <1>2, <1>4, <2>5, <4>1, <4>2, TellsLonger
    <3> QED
      BY <3>1, <3>2
  <2> HIDE DEF aggr
  <2> QED
    BY <1>2, <2>2, <2>3, <2>4, <2>6 DEF WriterOK
<1>6. CASE ~canLoad(w, palette)
  <2>1. w.aggr.count # 0
    BY <1>1, <1>2, <1>3, <1>6 DEF canLoad
  <2> DEFINE aggr == [val |-> palette, count |-> 0 + 1, is8 |-> TRUE /\ 0 # SMALL]
             file == Append(w.file, Encoded(w.aggr))
  <2>2. /\ new.file = file /\ new.aggr = aggr /\ new.locked = TRUE
        /\ new = [file |-> new.file, aggr |-> new.aggr, locked |-> new.locked]
    BY <1>1, <1>6 DEF write, load, EmptyRun
  <2>3. aggr \in AggrBytes /\ aggr.val < MAX /\ aggr.count # 0 /\ (aggr.is8 <=> aggr.count <= SMALL)
    <3>1. aggr.is8 <=> 0 # SMALL
      BY Zenon
    <3>2. aggr \in AggrBytes /\ aggr.val < MAX /\ aggr.count = 1
      BY <1>1 DEF AggrBytes, MAX
    <3> HIDE DEF aggr
    <3> QED
      BY <1>1, <3>1, <3>2
  <2>4. /\ Encoded(w.aggr) \in Group /\ Encoded(w.aggr).head # END
        /\ Encoded(w.aggr).count = w.aggr.count
        /\ AsRun(Decoded(Encoded(w.aggr))) = AsRun(w.aggr)
    BY <1>2, DecodedEncoded
  <2>5. /\ file \in Seq(Group)
        /\ \A k \in 1..Len(file) : file[k].head # END /\ file[k].count # 0
    BY <1>2, <2>1, <2>4
  <2>6. PixelRuns(file) = Append(PixelRuns(w.file), AsRun(w.aggr))
    BY <1>2, <2>4, RunsOfMore
  <2>7. PixelRuns(file) \in Seq(PixelRun)
    BY <2>5, RunsOfGroups
  <2>8. AsRun(aggr) \in PixelRun /\ AsRun(aggr).count = 1 /\ AsRun(aggr).value = palette
    BY <1>1 DEF AsRun, PixelRun
  <2> HIDE DEF aggr, file
  <2>9. Tells(Append(PixelRuns(file), AsRun(aggr)), longer, 0)
    BY <1>2, <2>6, <2>7, <2>8, TellsAnother
  <2> QED
    BY <2>2, <2>3, <2>5, <2>9 DEF WriterOK
<1> QED
  BY <1>5, <1>6

(* close: the run left over and the end mark make a file a reader can      *)
(* start with.                                                             *)
LEMMA ClosesStream ==
    ASSUME NEW w, NEW drawnPixels \in Seq(PALETTES), WriterOK(w, drawnPixels),
           drawnPixels # <<>>
    PROVE  ReaderOK(NewReader(Closed(w)), drawnPixels, 0)
<1> DEFINE end == [head |-> END, count |-> 0]
           runs == Append(w.file, Encoded(w.aggr))
           file == Append(runs, end)
<1>1. /\ w.file \in Seq(Group)
      /\ \A k \in 1..Len(w.file) : w.file[k].head # END /\ w.file[k].count # 0
      /\ w.aggr \in AggrBytes
      /\ w.aggr.val < MAX
      /\ w.aggr.is8 <=> w.aggr.count <= SMALL
      /\ w.aggr.count # 0
      /\ Tells(Append(PixelRuns(w.file), AsRun(w.aggr)), drawnPixels, 0)
  BY DEF WriterOK
<1>2. /\ Encoded(w.aggr) \in Group /\ Encoded(w.aggr).head # END
      /\ Encoded(w.aggr).count = w.aggr.count
      /\ AsRun(Decoded(Encoded(w.aggr))) = AsRun(w.aggr)
  BY <1>1, DecodedEncoded
<1>3. /\ runs \in Seq(Group)
      /\ \A k \in 1..Len(runs) : runs[k].head # END /\ runs[k].count # 0
  BY <1>1, <1>2
<1>4. end \in Group /\ end.count = 0
  BY StreamAssumption DEF Group, END
<1>5. Closed(w) = file
  <2> DEFINE e == Encoded(w.aggr)
             f == w.file
  <2>1. e \in Group /\ f \in Seq(Group)
    BY <1>1, <1>2
  <2> HIDE DEF e, f, end
  <2>2. f \o <<e, end>> = Append(Append(f, e), end)
    BY <1>4, <2>1
  <2> QED
    BY <2>2 DEF Closed, e, f, end
<1>6. PixelRuns(runs) = Append(PixelRuns(w.file), AsRun(w.aggr))
  BY <1>1, <1>2, RunsOfMore
<1> HIDE DEF runs, end
<1>7. PixelRuns(file) = Append(PixelRuns(runs), AsRun(Decoded(end)))
  BY <1>3, <1>4, RunsOfMore
<1>8. AsRun(Decoded(end)) \in PixelRun /\ AsRun(Decoded(end)).count = 0
  BY <1>4, DecodedGroup DEF AsRun
<1>9. PixelRuns(runs) \in Seq(PixelRun)
  BY <1>3, RunsOfGroups
<1>10. Tells(PixelRuns(file), drawnPixels, 0)
  BY <1>1, <1>6, <1>7, <1>8, <1>9, TellsEmptyLast
<1>11. /\ file \in Seq(Group) /\ file # <<>>
       /\ file[Len(file)] = end
       /\ \A k \in 1..(Len(file) - 1) : file[k].head # END /\ file[k].count # 0
  <2>1. /\ Len(runs) \in Nat /\ Len(file) = Len(runs) + 1
        /\ file \in Seq(Group)
        /\ file[Len(runs) + 1] = end
        /\ \A k \in 1..Len(runs) : file[k] = runs[k]
    BY <1>3, <1>4
  <2> HIDE DEF file
  <2>2. Len(file) - 1 = Len(runs) /\ file # <<>>
    BY <2>1
  <2> QED
    BY <1>3, <2>1, <2>2
<1>12. PixelRuns(file) \in Seq(PixelRun)
  BY <1>11, RunsOfGroups
<1>13. /\ EmptyRun \in AggrBytes /\ AsRun(EmptyRun) \in PixelRun
       /\ AsRun(EmptyRun).count = 0
  BY StreamAssumption DEF EmptyRun, AggrBytes, AsRun, PixelRun
<1>14. Tells(Then(AsRun(EmptyRun), PixelRuns(file)), drawnPixels, 0)
  BY <1>10, <1>12, <1>13, TellsEmptyFirst
<1> HIDE DEF file
<1> QED
  BY <1>5, <1>11, <1>13, <1>14 DEF ReaderOK, NewReader, end

(* read: the end is found when every pixel was read, else the value is the *)
(* next pixel.                                                             *)
LEMMA ReadsPixel ==
    ASSUME NEW r, NEW drawnPixels \in Seq(PALETTES), NEW n \in Nat,
           ReaderOK(r, drawnPixels, n)
    PROVE  /\ read(r).value = END => n = Len(drawnPixels)
           /\ read(r).value # END =>
                  /\ n + 1 \in 1..Len(drawnPixels)
                  /\ read(r).value = drawnPixels[n + 1]
                  /\ ReaderOK(read(r), drawnPixels, n + 1)
<1> DEFINE new == read(r)
<1>1. /\ r = [file |-> r.file, current |-> r.current, value |-> r.value]
      /\ r.file \in Seq(Group)
      /\ r.file # <<>>
      /\ r.file[Len(r.file)] = [head |-> END, count |-> 0]
      /\ \A k \in 1..(Len(r.file) - 1) : r.file[k].head # END /\ r.file[k].count # 0
      /\ r.current \in AggrBytes
      /\ Tells(Then(AsRun(r.current), PixelRuns(r.file)), drawnPixels, n)
  BY DEF ReaderOK
<1>0. \A v \in 0..126 : v # END
  BY DEF END
<1>2. CAP \in Nat /\ \A k \in 1..Len(drawnPixels) : drawnPixels[k] \in 0..126
  <2>1. \A k \in 1..Len(drawnPixels) : drawnPixels[k] \in PALETTES
    OBVIOUS
  <2>2. PALETTES \subseteq 0..126 /\ CAP \in Nat
    BY RecordingAssumption, StreamAssumption DEF MAX
  <2> QED
    BY <2>1, <2>2
<1>3. PixelRuns(r.file) \in Seq(PixelRun) /\ Len(PixelRuns(r.file)) = Len(r.file)
  BY <1>1, RunsOfGroups
<1>4. AsRun(r.current) \in PixelRun
  BY <1>1 DEF AggrBytes, AsRun, PixelRun
<1>5. ASSUME NEW run \in AggrBytes, run.count # 0
      PROVE  /\ TakeOne(run) \in AggrBytes /\ AsRun(TakeOne(run)) \in PixelRun
             /\ AsRun(TakeOne(run)).value = AsRun(run).value
             /\ AsRun(TakeOne(run)).count = AsRun(run).count - 1
             /\ AsRun(run).value = run.val /\ AsRun(run).count \in Nat \ {0} /\ AsRun(run) \in PixelRun
  <2>1. run.count \in 1..CAP /\ run.val \in 0..127 /\ run.is8 \in BOOLEAN
    BY <1>2, <1>5 DEF AggrBytes
  <2>2. (run.count - 1) % (CAP + 1) = run.count - 1
    <3> DEFINE c == run.count - 1
               d == CAP + 1
    <3>1. c \in 0..(d - 1) /\ d \in Nat \ {0}
      BY <1>2, <2>1
    <3> HIDE DEF c, d
    <3>2. c % d = c
      BY <3>1
    <3> QED
      BY <3>2 DEF c, d
  <2>3. run.count - 1 \in 0..CAP
    BY <1>2, <2>1
  <2>4. TakeOne(run) = [val |-> run.val, count |-> run.count - 1, is8 |-> run.is8]
    BY <1>5, <2>2 DEF TakeOne, AggrBytes
  <2> QED
    BY <1>2, <2>1, <2>3, <2>4 DEF AggrBytes, AsRun, PixelRun
<1>6. CASE r.current.count # 0
  <2>1. /\ new.file = r.file /\ new.current = TakeOne(r.current)
        /\ new.value = r.current.val
        /\ new = [file |-> new.file, current |-> new.current, value |-> new.value]
    BY <1>1, <1>6 DEF read
  <2>2. /\ TakeOne(r.current) \in AggrBytes /\ AsRun(TakeOne(r.current)) \in PixelRun
        /\ AsRun(TakeOne(r.current)).value = AsRun(r.current).value
        /\ AsRun(TakeOne(r.current)).count = AsRun(r.current).count - 1
        /\ AsRun(r.current).value = r.current.val /\ AsRun(r.current).count \in Nat \ {0}
    BY <1>1, <1>5, <1>6
  <2>3. /\ n + 1 \in 1..Len(drawnPixels)
        /\ drawnPixels[n + 1] = AsRun(r.current).value
        /\ Tells(Then(AsRun(TakeOne(r.current)), PixelRuns(r.file)), drawnPixels, n + 1)
    <3> DEFINE first == AsRun(r.current)
               less == AsRun(TakeOne(r.current))
               runs == PixelRuns(r.file)
    <3>1. /\ first \in PixelRun /\ less \in PixelRun /\ runs \in Seq(PixelRun)
          /\ OneLess(less, first)
      BY <1>3, <1>4, <2>2 DEF OneLess
    <3>2. Tells(Then(first, runs), drawnPixels, n)
      BY <1>1
    <3> HIDE DEF first, less, runs
    <3>3. /\ Follows(drawnPixels, n, first.value)
          /\ Tells(Then(less, runs), drawnPixels, n + 1)
      BY <3>1, <3>2, TellsNext
    <3> QED
      BY <3>3 DEF Follows, first, less, runs
  <2>4. new.value # END
    <3>1. drawnPixels[n + 1] \in 0..126
      BY <1>2, <2>3
    <3> QED
      <4>1. new.value = drawnPixels[n + 1]
        BY <2>1, <2>2, <2>3
      <4> QED
        BY <1>0, <3>1, <4>1, Zenon
  <2> QED
    BY <1>1, <2>1, <2>2, <2>3, <2>4 DEF ReaderOK
<1>7. CASE r.current.count = 0
  <2>1. Tells(PixelRuns(r.file), drawnPixels, n)
    BY <1>1, <1>3, <1>4, <1>7, TellsSkip DEF AsRun
  <2> DEFINE run == Decoded(Head(r.file))
             rest == PixelRuns(Tail(r.file))
  <2>2. /\ Head(r.file) \in Group /\ Tail(r.file) \in Seq(Group)
        /\ Head(r.file) = r.file[1] /\ Len(r.file) \in Nat \ {0}
        /\ Len(Tail(r.file)) = Len(r.file) - 1
        /\ \A k \in 1..(Len(r.file) - 1) : Tail(r.file)[k] = r.file[k + 1]
    BY <1>1
  <2>3. run \in AggrBytes /\ run.count = Head(r.file).count /\ AsRun(run) \in PixelRun
    BY <2>2, DecodedGroup
  <2>4. Tells(Then(AsRun(run), rest), drawnPixels, n) /\ rest \in Seq(PixelRun)
    BY <1>1, <2>1, <2>2, RunsOfRest, RunsOfGroups
  <2>5. CASE Head(r.file).head = END
    <3>1. Len(r.file) = 1
      <4>1. 1 \notin 1..(Len(r.file) - 1)
        BY <1>1, <2>2, <2>5
      <4> DEFINE m == Len(r.file)
      <4>2. m \in Nat /\ m # 0
        BY <2>2
      <4>3. ~(1 <= m - 1)
        <5>1. 1 \notin 1..(m - 1) /\ m - 1 \in Int
          BY <4>1, <4>2
        <5> HIDE DEF m
        <5> QED
          BY <5>1
      <4> HIDE DEF m
      <4>4. m = 1
        BY <4>2, <4>3
      <4> QED
        BY <4>4 DEF m
    <3>2. Head(r.file).count = 0
      BY <1>1, <2>2, <3>1
    <3>3. Tells(rest, drawnPixels, n)
      <4>1. AsRun(run).count = 0
        BY <2>3, <3>2 DEF AsRun
      <4> HIDE DEF run, rest
      <4> QED
        BY <2>3, <2>4, <4>1, TellsSkip
    <3>4. rest = <<>>
      <4>1. Len(rest) = 0
        <5>1. Len(Tail(r.file)) = 0
          BY <2>2, <3>1
        <5> QED
          BY <2>2, <5>1, RunsOfGroups
      <4> HIDE DEF rest
      <4> QED
        BY <2>4, <4>1
    <3>5. n = Len(drawnPixels)
      BY <3>3, <3>4, TellsAll
    <3>6. new.value = END
      BY <1>1, <1>7, <2>5 DEF read, AtEnd
    <3> QED
      BY <3>5, <3>6
  <2>6. CASE Head(r.file).head # END
    <3>1. Len(r.file) > 1
      <4>1. r.file[Len(r.file)].head = END
        BY <1>1
      <4> QED
        BY <2>2, <2>6, <4>1
    <3>2. run.count # 0
      BY <1>1, <2>2, <2>3, <3>1
    <3>3. /\ new.file = Tail(r.file) /\ new.current = TakeOne(run)
          /\ new.value = run.val
          /\ new = [file |-> new.file, current |-> new.current, value |-> new.value]
      BY <1>1, <1>7, <2>6 DEF read, AtEnd
    <3> HIDE DEF run, rest
    <3>4. /\ TakeOne(run) \in AggrBytes /\ AsRun(TakeOne(run)) \in PixelRun
          /\ AsRun(TakeOne(run)).value = AsRun(run).value
          /\ AsRun(TakeOne(run)).count = AsRun(run).count - 1
          /\ AsRun(run).value = run.val /\ AsRun(run).count \in Nat \ {0}
      BY <1>5, <2>3, <3>2
    <3>5. /\ n + 1 \in 1..Len(drawnPixels)
          /\ drawnPixels[n + 1] = AsRun(run).value
          /\ Tells(Then(AsRun(TakeOne(run)), rest), drawnPixels, n + 1)
      <4> DEFINE first == AsRun(run)
                 less == AsRun(TakeOne(run))
      <4>1. /\ first \in PixelRun /\ less \in PixelRun /\ rest \in Seq(PixelRun)
            /\ OneLess(less, first)
        BY <2>3, <2>4, <3>4 DEF OneLess
      <4>2. Tells(Then(first, rest), drawnPixels, n)
        BY <2>4
      <4> HIDE DEF first, less
      <4>3. /\ Follows(drawnPixels, n, first.value)
            /\ Tells(Then(less, rest), drawnPixels, n + 1)
        BY <4>1, <4>2, TellsNext
      <4> QED
        BY <4>3 DEF Follows, first, less
    <3>6. new.value # END
      <4>1. drawnPixels[n + 1] \in 0..126
        BY <1>2, <3>5
      <4> QED
        <5>1. new.value = drawnPixels[n + 1]
          BY <3>3, <3>4, <3>5
        <5> QED
          BY <1>0, <4>1, <5>1, Zenon
    <3>7. /\ Tail(r.file) # <<>>
          /\ Tail(r.file)[Len(Tail(r.file))] = [head |-> END, count |-> 0]
          /\ \A k \in 1..(Len(Tail(r.file)) - 1) :
                 Tail(r.file)[k].head # END /\ Tail(r.file)[k].count # 0
      <4> DEFINE file == Tail(r.file)
                 m == Len(r.file)
      <4>1. m \in Nat /\ m > 1 /\ Len(file) = m - 1 /\ file \in Seq(Group)
        BY <2>2, <3>1
      <4>2. \A k \in 1..(m - 1) : file[k] = r.file[k + 1]
        BY <2>2
      <4>3. r.file[m] = [head |-> END, count |-> 0]
        BY <1>1
      <4>4. \A k \in 1..(m - 1) : r.file[k].head # END /\ r.file[k].count # 0
        BY <1>1
      <4> HIDE DEF file, m
      <4>5. file # <<>>
        BY <4>1
      <4>6. file[m - 1] = [head |-> END, count |-> 0]
        BY <4>1, <4>2, <4>3
      <4>7. \A k \in 1..(m - 2) : file[k].head # END /\ file[k].count # 0
        BY <4>1, <4>2, <4>4
      <4>8. Len(file) - 1 = m - 2
        BY <4>1
      <4> QED
        BY <4>1, <4>5, <4>6, <4>7, <4>8 DEF file
    <3> QED
      BY <2>2, <3>3, <3>4, <3>5, <3>6, <3>7 DEF ReaderOK, rest
  <2> QED
    BY <2>5, <2>6
<1> QED
  BY <1>1, <1>6, <1>7 DEF AggrBytes

-----------------------------------------------------------------------------
(* The pixels, whatever the inputs are.                                    *)

(* The pixel log at the start,                                             *)
LEMMA PixelInit ==
    Init => PixelInv
<1> SUFFICES ASSUME Init PROVE PixelInv
  OBVIOUS
<1>1. TapeOK
  BY DEF Init, TapeOK
<1>2. Untouched /\ compared \in Nat /\ compared <= Len(pixels)
  BY DEF Init, Untouched
<1>3. WriterOK(NewWriter, <<>>)
  <2> DEFINE w == [file |-> <<>>, aggr |-> [val |-> 0, count |-> 0, is8 |-> TRUE], locked |-> FALSE]
  <2>1. NewWriter = w
    BY DEF NewWriter, EmptyRun
  <2>2. /\ w = [file |-> w.file, aggr |-> w.aggr, locked |-> w.locked]
        /\ w.file \in Seq(Group) /\ w.file = <<>>
        /\ \A k \in 1..Len(w.file) : w.file[k].head # END /\ w.file[k].count # 0
        /\ w.aggr.val < MAX
    BY DEF MAX
  <2>3. /\ w.aggr \in AggrBytes
        /\ w.aggr.is8 <=> w.aggr.count <= SMALL
        /\ w.locked <=> w.aggr.count # 0
    BY StreamAssumption DEF AggrBytes
  <2>4. Tells(Append(PixelRuns(w.file), AsRun(w.aggr)), <<>>, 0)
    <3>1. PixelRuns(w.file) = <<>>
      BY DEF PixelRuns
    <3>2. AsRun(w.aggr) \in PixelRun /\ AsRun(w.aggr).count = 0
      BY StreamAssumption DEF AsRun, PixelRun
    <3> DEFINE run == AsRun(w.aggr)
    <3>3. <<>> \in Seq(PixelRun) /\ <<>> \in Seq(PALETTES)
      OBVIOUS
    <3> HIDE DEF run, w
    <3>4. Tells(Append(<<>>, run), <<>>, 0)
      BY <3>2, <3>3, TellsNothing, TellsEmptyLast DEF run
    <3> QED
      BY <3>1, <3>4 DEF run
  <2> HIDE DEF w
  <2> QED
    BY <2>1, <2>2, <2>3, <2>4 DEF WriterOK
<1> QED
  BY <1>1, <1>2, <1>3 DEF Init, PixelInv, Untouched

(* and at every step.                                                      *)
LEMMA PixelNext ==
    SessionsDraw /\ PixelInv /\ [Next]_vars => PixelInv'
<1> SUFFICES ASSUME SessionsDraw, PixelInv, [Next]_vars PROVE PixelInv'
  OBVIOUS
<1>1. /\ TapeOK
      /\ phase \in {"recording", "closed", "replaying", "finished", "error"}
      /\ phase \in {"recording", "closed"} => Untouched
      /\ phase = "recording" => WriterOK(screenOut, pixels)
      /\ phase = "closed" => ReaderOK(NewReader(screenOut.file), pixels, 0)
      /\ phase = "replaying" => reader \in {"compare", "replay"}
      /\ phase = "replaying" /\ ~isDone => ReaderOK(screenIn, pixels, compared)
      /\ phase # "recording" => pixels # <<>>
      /\ compared \in Nat /\ compared <= Len(pixels)
      /\ isDone => compared = Len(pixels)
  BY DEF PixelInv
<1>2. /\ tape \in Seq([reset : BOOLEAN, buttons : BUTTONS, drawn : Nat])
      /\ pixels \in Seq(PALETTES)
      /\ \A k \in 1..Len(tape) : tape[k].drawn <= Len(pixels)
      /\ tape # <<>> => tape[Len(tape)].drawn = Len(pixels)
      /\ tape = <<>> => pixels = <<>>
  BY <1>1 DEF TapeOK
<1>3. ASSUME NEW reset \in BOOLEAN, NEW buttons \in BUTTONS, NEW low \in GARBAGE,
             RecordStep(reset, buttons, low)
      PROVE  PixelInv'
  <2>1. /\ phase = "recording" /\ phase' = phase
        /\ tape' = Append(tape, [reset |-> reset, buttons |-> buttons, drawn |-> Len(pixels)])
        /\ pixels' = pixels /\ screenOut' = screenOut /\ UNCHANGED cmpVars
    BY <1>3 DEF RecordStep
  <2>2. TapeOK'
    <3> DEFINE entry == [reset |-> reset, buttons |-> buttons, drawn |-> Len(pixels)]
               S == [reset : BOOLEAN, buttons : BUTTONS, drawn : Nat]
    <3>1. entry \in S /\ entry.drawn = Len(pixels) /\ Len(pixels) \in Nat
      BY <1>2
    <3>2. tape' = Append(tape, entry) /\ tape \in Seq(S)
      BY <1>2, <2>1
    <3> HIDE DEF entry, S
    <3>3. /\ tape' \in Seq(S) /\ Len(tape') = Len(tape) + 1 /\ tape' # <<>> /\ Len(tape) \in Nat
          /\ tape'[Len(tape) + 1] = entry
          /\ \A k \in 1..Len(tape) : tape'[k] = tape[k]
      BY <3>1, <3>2
    <3>4. \A k \in 1..Len(tape') : k \in 1..Len(tape) \/ k = Len(tape) + 1
      BY <3>3
    <3>5. \A k \in 1..Len(tape') : tape'[k].drawn <= Len(pixels)
      <4> TAKE k \in 1..Len(tape')
      <4>1. CASE k \in 1..Len(tape)
        BY <1>2, <3>3, <4>1
      <4>2. CASE k = Len(tape) + 1
        BY <3>1, <3>3, <4>2
      <4> QED
        BY <3>4, <4>1, <4>2
    <3> QED
      BY <1>2, <2>1, <3>1, <3>3, <3>5 DEF TapeOK, S
  <2>3. Untouched' /\ WriterOK(screenOut', pixels')
    BY <1>1, <2>1 DEF Untouched, cmpVars
  <2> QED
    BY <1>1, <2>1, <2>2, <2>3 DEF PixelInv, Untouched, cmpVars
<1>4. ASSUME NEW palette \in PALETTES, RecordPixel(palette)
      PROVE  PixelInv'
  <2>1. /\ phase = "recording" /\ phase' = phase /\ tape # <<>>
        /\ screenOut' = write(screenOut, palette)
        /\ pixels' = Append(pixels, palette)
        /\ tape' = [tape EXCEPT ![Len(tape)].drawn = @ + 1]
        /\ UNCHANGED cmpVars
    BY <1>4 DEF RecordPixel
  <2>2. TapeOK'
    <3> DEFINE n == Len(tape)
               S == [reset : BOOLEAN, buttons : BUTTONS, drawn : Nat]
               last == [tape[n] EXCEPT !.drawn = @ + 1]
    <3>1. n \in Nat \ {0} /\ n \in 1..n /\ tape[n] \in S /\ tape \in Seq(S)
      <4>1. tape \in Seq(S) /\ tape # <<>>
        BY <1>2, <2>1
      <4> HIDE DEF S
      <4>2. n \in Nat \ {0}
        BY <4>1
      <4> QED
        BY <4>1, <4>2
    <3>2. last \in S /\ last.drawn = tape[n].drawn + 1
      BY <3>1
    <3>3. tape' = [tape EXCEPT ![n] = last]
      BY <2>1
    <3> HIDE DEF n, S, last
    <3>4. /\ tape' \in Seq(S) /\ Len(tape') = n /\ tape' # <<>>
          /\ tape'[n] = last
          /\ \A k \in 1..n : k # n => tape'[k] = tape[k]
      <4>1. Len(tape) = n
        BY DEF n
      <4> QED
        BY <3>1, <3>2, <3>3, <4>1, ExceptSeq
    <3>5. pixels' \in Seq(PALETTES) /\ Len(pixels') = Len(pixels) + 1 /\ Len(pixels) \in Nat
      BY <1>2, <2>1
    <3>6. last.drawn = Len(pixels')
      BY <1>2, <2>1, <3>2, <3>5 DEF n
    <3>7. \A k \in 1..n : tape'[k].drawn <= Len(pixels')
      <4> TAKE k \in 1..n
      <4>1. CASE k = n
        BY <3>4, <3>5, <3>6, <4>1
      <4>2. CASE k # n
        <5>1. tape[k] \in S /\ tape[k].drawn <= Len(pixels)
          BY <1>2, <3>1 DEF n
        <5>2. tape[k].drawn \in Nat
          BY <5>1 DEF S
        <5> QED
          BY <3>4, <3>5, <4>2, <5>1, <5>2
      <4> QED
        BY <4>1, <4>2
    <3> QED
      BY <3>4, <3>5, <3>6, <3>7 DEF TapeOK, S
  <2>3. WriterOK(screenOut', pixels')
    BY <1>1, <1>2, <2>1, WritesPixel
  <2>4. Untouched' /\ Len(pixels') \in Nat /\ compared' = 0
    BY <1>1, <1>2, <2>1 DEF Untouched, cmpVars
  <2> QED
    BY <2>1, <2>2, <2>3, <2>4 DEF PixelInv, Untouched
<1>5. ASSUME NEW low \in GARBAGE, Close(low)
      PROVE  PixelInv'
  <2>1. /\ phase = "recording" /\ phase' = "closed" /\ pixels # <<>>
        /\ screenOut' = [screenOut EXCEPT !.file = Closed(screenOut)]
        /\ tape' = tape /\ pixels' = pixels /\ UNCHANGED cmpVars
    BY <1>5 DEF Close, SessionsDraw
  <2>2. ReaderOK(NewReader(screenOut'.file), pixels', 0)
    <3>1. WriterOK(screenOut, pixels)
      BY <1>1, <2>1
    <3>2. ReaderOK(NewReader(Closed(screenOut)), pixels, 0)
      BY <1>2, <2>1, <3>1, ClosesStream
    <3>3. screenOut'.file = Closed(screenOut)
      BY <2>1, <3>1 DEF WriterOK
    <3> QED
      BY <2>1, <3>2, <3>3
  <2>3. TapeOK' /\ Untouched'
    BY <1>1, <2>1 DEF TapeOK, Untouched, cmpVars
  <2> QED
    BY <1>1, <2>1, <2>2, <2>3 DEF PixelInv, Untouched, cmpVars
<1>6. ASSUME StartReplay
      PROVE  PixelInv'
  <2>1. /\ phase = "closed" /\ phase' = "replaying" /\ reader' \in {"compare", "replay"}
        /\ screenIn' = NewReader(screenOut.file)
        /\ tape' = tape /\ pixels' = pixels /\ isDone' = isDone /\ compared' = compared
    BY <1>6 DEF StartReplay, StartCompare, StartShow, spyVars
  <2>2. ReaderOK(screenIn', pixels', compared')
    BY <1>1, <2>1 DEF Untouched
  <2>3. TapeOK'
    BY <1>1, <2>1 DEF TapeOK
  <2> QED
    BY <1>1, <2>1, <2>2, <2>3 DEF PixelInv
<1>7. ASSUME ReplayStep
      PROVE  PixelInv'
  <2>1. /\ phase = "replaying" /\ phase' = phase /\ reader' = reader
        /\ screenIn' = screenIn
        /\ tape' = tape /\ pixels' = pixels /\ isDone' = isDone /\ compared' = compared
    BY <1>7 DEF ReplayStep, spyVars
  <2>2. TapeOK'
    BY <1>1, <2>1 DEF TapeOK
  <2> QED
    BY <1>1, <2>1, <2>2 DEF PixelInv
<1>8. ASSUME NEW palette \in PALETTES, ReplayPixel(palette)
      PROVE  PixelInv'
  <2>1. /\ phase = "replaying" /\ reader' = reader
        /\ tape' = tape /\ pixels' = pixels
        /\ colorPixel(palette)
    BY <1>8 DEF ReplayPixel, spyVars
  <2>2. TapeOK'
    BY <1>1, <2>1 DEF TapeOK
  <2>3. CASE isDone
    <3>1. UNCHANGED <<screenIn, isDone, compared, phase>>
      BY <2>1, <2>3 DEF colorPixel
    <3> QED
      BY <1>1, <2>1, <2>2, <2>3, <3>1 DEF PixelInv
  <2>4. CASE ~isDone
    <3>1. /\ screenIn' = read(screenIn)
          /\ isDone' = (screenIn'.value = END)
          /\ compared' = IF isDone' THEN compared ELSE compared + 1
          /\ phase' \in {"replaying", "error"}
      BY <2>1, <2>4 DEF colorPixel, Compare
    <3>2. ReaderOK(screenIn, pixels, compared)
      BY <1>1, <2>1, <2>4
    <3>3. /\ isDone' => compared = Len(pixels)
          /\ ~isDone' =>
                 /\ compared + 1 \in 1..Len(pixels)
                 /\ ReaderOK(screenIn', pixels, compared + 1)
      BY <1>1, <1>2, <3>1, <3>2, ReadsPixel
    <3>4. Len(pixels) \in Nat
      BY <1>2
    <3>5. CASE isDone'
      BY <1>1, <2>1, <2>2, <3>1, <3>3, <3>5 DEF PixelInv
    <3>6. CASE ~isDone'
      <4>1. compared' = compared + 1 /\ ReaderOK(screenIn', pixels', compared')
        BY <2>1, <3>1, <3>3, <3>6
      <4>2. compared' \in Nat /\ compared' <= Len(pixels')
        BY <1>1, <2>1, <3>3, <3>4, <3>6, <4>1
      <4> QED
        BY <1>1, <2>1, <2>2, <3>1, <3>6, <4>1, <4>2 DEF PixelInv
    <3> QED
      BY <3>5, <3>6
  <2> QED
    BY <2>3, <2>4
<1>9. ASSUME Finish
      PROVE  PixelInv'
  <2>1. /\ phase = "replaying" /\ phase' = "finished"
        /\ UNCHANGED <<spyVars, cmpVars>>
    BY <1>9 DEF Finish
  <2>2. TapeOK'
    BY <1>1, <2>1 DEF TapeOK, spyVars
  <2> QED
    BY <1>1, <2>1, <2>2 DEF PixelInv, spyVars, cmpVars
<1>10. ASSUME UNCHANGED vars
       PROVE  PixelInv'
  BY <1>10 DEF PixelInv, TapeOK, Untouched, vars, spyVars, cmpVars
<1> QED
  BY <1>3, <1>4, <1>5, <1>6, <1>7, <1>8, <1>9, <1>10 DEF Next

(* Whatever the console is given and draws when a recording is replayed,   *)
(* the end of the pixel log is found right after the last recorded pixel:  *)
(* no earlier group looks like SCREENSTREAM_END, and no run is left behind *)
(* by close.  In a session closed before its first pixel close writes a    *)
(* run of none, and UndrawnSession.cfg shows the end go wrong.             *)
THEOREM EndFound == SessionsDraw => (Spec => []StopsAfterLastPixel)
<1>1. PixelInv => StopsAfterLastPixel
  BY DEF PixelInv, StopsAfterLastPixel
<1>2. CASE SessionsDraw
  <2>1. PixelInv /\ [Next]_vars => PixelInv'
    BY <1>2, PixelNext
  <2>2. Spec => []StopsAfterLastPixel
    BY <1>1, <2>1, PixelInit, PTL DEF Spec
  <2> QED
    BY <2>2
<1> QED
  BY <1>2

-----------------------------------------------------------------------------
(* The inputs, when no byte is left uninitialised.                         *)

(* Appending, with either operator.                                        *)
LEMMA Concats ==
    ASSUME NEW S, NEW s \in Seq(S), NEW e \in S
    PROVE  s \o <<e>> = Append(s, e) /\ s \o <<>> = s
OBVIOUS

(* Append, as a function.                                                  *)
LEMMA AppendIs ==
    ASSUME NEW S, NEW s \in Seq(S), NEW e \in S
    PROVE  Append(s, e) = [k \in 1..Len(s) + 1 |-> IF k = Len(s) + 1 THEN e ELSE s[k]]
<1> DEFINE n == Len(s)
           t == [k \in 1..n + 1 |-> IF k = n + 1 THEN e ELSE s[k]]
           u == Append(s, e)
<1>1. /\ n \in Nat /\ \A k \in 1..n : s[k] \in S
      /\ u \in Seq(S) /\ Len(u) = n + 1
      /\ \A k \in 1..n : u[k] = s[k]
      /\ u[n + 1] = e
  OBVIOUS
<1> HIDE DEF n, u
<1>2. t \in Seq(S) /\ Len(t) = n + 1
  BY <1>1
<1>3. \A k \in 1..n + 1 : t[k] = u[k]
  BY <1>1
<1> HIDE DEF t
<1>4. t = u
  BY <1>1, <1>2, <1>3, SeqEqual
<1> QED
  BY <1>4 DEF t, u, n

(* A sequence is its head and its tail.                                    *)
LEMMA HeadAndTail ==
    ASSUME NEW S, NEW s \in Seq(S), s # <<>>
    PROVE  /\ Head(s) \in S /\ Tail(s) \in Seq(S) /\ Then(Head(s), Tail(s)) = s
           /\ Head(s) = s[1] /\ Len(s) \in Nat \ {0}
           /\ Len(Tail(s)) = Len(s) - 1
           /\ \A k \in 1..Len(Tail(s)) : Tail(s)[k] = s[k + 1]
BY DEF Then

(* An entry of buttons goes to the queue of the buttons,                   *)
LEMMA PushButtons ==
    ASSUME NEW queues, QueuesOK(queues), NEW run \in Run(BUTTONS),
           NEW entry, entry = [kind |-> "BTN", run |-> run]
    PROVE  /\ QueuesOK(Push(queues, entry))
           /\ Push(queues, entry)["BTN"] = Append(queues["BTN"], run)
           /\ Push(queues, entry)["RST"] = queues["RST"]
<1>1. /\ queues = [kind \in {"BTN", "RST"} |-> queues[kind]]
      /\ queues["BTN"] \in Seq(Run(BUTTONS)) /\ queues["RST"] \in Seq(Run(BOOLEAN))
  BY DEF QueuesOK
<1>2. Push(queues, entry) = [queues EXCEPT !["BTN"] = Append(queues["BTN"], run)]
  BY DEF Push
<1>3. /\ Push(queues, entry)["BTN"] = Append(queues["BTN"], run)
      /\ Push(queues, entry)["RST"] = queues["RST"]
      /\ Push(queues, entry) = [kind \in {"BTN", "RST"} |-> Push(queues, entry)[kind]]
  BY <1>1, <1>2
<1>4. Append(queues["BTN"], run) \in Seq(Run(BUTTONS))
  BY <1>1
<1> QED
  BY <1>1, <1>3, <1>4 DEF QueuesOK

(* one of resets to that of the resets.                                    *)
LEMMA PushReset ==
    ASSUME NEW queues, QueuesOK(queues), NEW run \in Run(BOOLEAN),
           NEW entry, entry = [kind |-> "RST", run |-> run]
    PROVE  /\ QueuesOK(Push(queues, entry))
           /\ Push(queues, entry)["RST"] = Append(queues["RST"], run)
           /\ Push(queues, entry)["BTN"] = queues["BTN"]
<1>1. /\ queues = [kind \in {"BTN", "RST"} |-> queues[kind]]
      /\ queues["BTN"] \in Seq(Run(BUTTONS)) /\ queues["RST"] \in Seq(Run(BOOLEAN))
  BY DEF QueuesOK
<1>2. Push(queues, entry) = [queues EXCEPT !["RST"] = Append(queues["RST"], run)]
  BY DEF Push
<1>3. /\ Push(queues, entry)["RST"] = Append(queues["RST"], run)
      /\ Push(queues, entry)["BTN"] = queues["BTN"]
      /\ Push(queues, entry) = [kind \in {"BTN", "RST"} |-> Push(queues, entry)[kind]]
  BY <1>1, <1>2
<1>4. Append(queues["RST"], run) \in Seq(Run(BOOLEAN))
  BY <1>1
<1> QED
  BY <1>1, <1>3, <1>4 DEF QueuesOK

(* The spy's counting: the run goes on, or is logged and another begins;   *)
(* either way the log tells one more input.                                *)
LEMMA LogsOneMore ==
    ASSUME NEW V, NEW queue \in Seq(Run(V)), NEW run \in Run(V),
           NEW inputs \in Seq(V), NEW v \in V,
           Logs(Append(queue, run), V, inputs)
    PROVE  /\ Extend(run, v) \in Run(V)
           /\ v = run.value =>
                  Logs(Append(queue, Extend(run, v)), V, Append(inputs, v))
           /\ v # run.value =>
                  Logs(Append(Append(queue, run), Extend(run, v)), V, Append(inputs, v))
<1> DEFINE more == Extend(run, v)
<1>1. /\ run.value \in V /\ run.count \in Nat
      /\ run = [value |-> run.value, count |-> run.count]
  BY DEF Run
<1>2. /\ v = run.value => more = [value |-> v, count |-> run.count + 1]
      /\ v # run.value => more = [value |-> v, count |-> 1]
  BY <1>1 DEF Extend
<1>3. more \in Run(V) /\ more.value = v /\ more.count # 0
  BY <1>1, <1>2 DEF Run
<1>4. /\ \A k \in 2..Len(Append(queue, run)) : Append(queue, run)[k].count # 0
      /\ Tells(Append(queue, run), inputs, 0)
  BY DEF Logs
<1>5. Append(queue, run) \in Seq(Run(V))
  OBVIOUS
<1>6. ASSUME v = run.value
      PROVE  Logs(Append(queue, more), V, Append(inputs, v))
  <2>1. more.count = run.count + 1
    BY <1>2, <1>6
  <2> HIDE DEF more
  <2>2. Tells(Append(queue, more), Append(inputs, v), 0)
    BY <1>3, <1>4, <1>6, <2>1, TellsLonger
  <2>3. Append(queue, more) \in Seq(Run(V))
    BY <1>3
  <2>4. \A k \in 2..Len(Append(queue, more)) : Append(queue, more)[k].count # 0
    <3>1. /\ Len(Append(queue, more)) = Len(queue) + 1 /\ Len(queue) \in Nat
          /\ Len(Append(queue, run)) = Len(queue) + 1
          /\ Append(queue, more)[Len(queue) + 1] = more
          /\ \A k \in 1..Len(queue) : Append(queue, more)[k] = Append(queue, run)[k]
      BY <1>3
    <3> TAKE k \in 2..Len(Append(queue, more))
    <3>2. CASE k = Len(queue) + 1
      BY <1>3, <3>1, <3>2
    <3>3. CASE k # Len(queue) + 1
      <4>1. k \in 1..Len(queue) /\ k \in 2..Len(Append(queue, run))
        BY <3>1, <3>3
      <4> QED
        BY <1>4, <3>1, <4>1
    <3> QED
      BY <3>2, <3>3
  <2> QED
    BY <2>2, <2>3, <2>4 DEF Logs
<1>7. ASSUME v # run.value
      PROVE  Logs(Append(Append(queue, run), more), V, Append(inputs, v))
  <2> DEFINE old == Append(queue, run)
  <2>1. more.count = 1
    BY <1>2, <1>7
  <2> HIDE DEF more, old
  <2>2. Tells(Append(old, more), Append(inputs, v), 0)
    BY <1>3, <1>4, <1>5, <2>1, TellsAnother DEF old
  <2>3. Append(old, more) \in Seq(Run(V)) /\ old \in Seq(Run(V))
    BY <1>3, <1>5 DEF old
  <2>4. \A k \in 2..Len(Append(old, more)) : Append(old, more)[k].count # 0
    <3>1. /\ Len(Append(old, more)) = Len(old) + 1 /\ Len(old) \in Nat
          /\ Append(old, more)[Len(old) + 1] = more
          /\ \A k \in 1..Len(old) : Append(old, more)[k] = old[k]
      BY <1>3, <2>3
    <3> TAKE k \in 2..Len(Append(old, more))
    <3>2. CASE k = Len(old) + 1
      BY <1>3, <3>1, <3>2
    <3>3. CASE k # Len(old) + 1
      <4>1. k \in 1..Len(old) /\ k \in 2..Len(old)
        BY <3>1, <3>3
      <4> QED
        BY <1>4, <3>1, <4>1 DEF old
    <3> QED
      BY <3>2, <3>3
  <2> QED
    BY <2>2, <2>3, <2>4 DEF Logs, old
<1> QED
  BY <1>3, <1>6, <1>7

(* Loading the first entry of a queue.                                     *)
LEMMA LogGives ==
    ASSUME NEW V, NEW queue \in Seq(Run(V)), queue # <<>>, NEW inputs,
           Logs(queue, V, inputs)
    PROVE  Gives(Head(queue), Tail(queue), V, inputs, 0)
<1>1. /\ Head(queue) \in Run(V) /\ Tail(queue) \in Seq(Run(V))
      /\ Then(Head(queue), Tail(queue)) = queue
      /\ Len(queue) \in Nat /\ Len(Tail(queue)) = Len(queue) - 1
      /\ \A k \in 1..Len(Tail(queue)) : Tail(queue)[k] = queue[k + 1]
  BY HeadAndTail
<1>2. /\ \A k \in 2..Len(queue) : queue[k].count # 0
      /\ Tells(queue, inputs, 0)
  BY DEF Logs
<1>3. \A k \in 1..Len(Tail(queue)) : Tail(queue)[k].count # 0
  <2> TAKE k \in 1..Len(Tail(queue))
  <2>1. k + 1 \in 2..Len(queue)
    BY <1>1
  <2> QED
    BY <1>1, <1>2, <2>1
<1> QED
  BY <1>1, <1>2, <1>3 DEF Gives

(* Using one of the current entry, loaded from the queue when none         *)
(* remains: it is the next input, and the rest tell what follows.          *)
LEMMA GivesNext ==
    ASSUME NEW V, NEW inputs \in Seq(V), NEW n \in Nat, n < Len(inputs),
           NEW run, NEW queue, Gives(run, queue, V, inputs, n)
    PROVE  /\ Remaining(run, queue).value = inputs[n + 1]
           /\ Gives(UseOne(Remaining(run, queue)), Rest(run, queue), V, inputs, n + 1)
<1>1. /\ run \in Run(V) /\ queue \in Seq(Run(V))
      /\ \A k \in 1..Len(queue) : queue[k].count # 0
      /\ Tells(Then(run, queue), inputs, n)
  BY DEF Gives
<1>2. ASSUME NEW r \in Run(V), r.count # 0
      PROVE  /\ UseOne(r) \in Run(V)
             /\ OneLess(UseOne(r), r)
  <2>1. /\ r.value \in V /\ r.count \in Nat
        /\ r = [value |-> r.value, count |-> r.count]
    BY DEF Run
  <2>2. UseOne(r) = [value |-> r.value, count |-> r.count - 1]
    BY <1>2, <2>1 DEF UseOne
  <2>3. r.count - 1 \in Nat
    BY <1>2, <2>1
  <2> QED
    BY <1>2, <2>1, <2>2, <2>3 DEF Run, OneLess
<1>3. CASE run.count # 0
  <2>1. Remaining(run, queue) = run /\ Rest(run, queue) = queue
    BY <1>3 DEF Remaining, Rest
  <2> DEFINE less == UseOne(run)
  <2>2. less \in Run(V) /\ OneLess(less, run)
    BY <1>1, <1>2, <1>3
  <2> HIDE DEF less
  <2>3. Follows(inputs, n, run.value) /\ Tells(Then(less, queue), inputs, n + 1)
    <3>1. Tells(Then(run, queue), inputs, n) /\ run \in Run(V) /\ queue \in Seq(Run(V))
      BY <1>1
    <3> QED
      BY <2>2, <3>1, TellsNext
  <2> QED
    BY <1>1, <2>1, <2>2, <2>3 DEF Gives, Follows, less
<1>4. CASE run.count = 0
  <2>1. Tells(queue, inputs, n)
    BY <1>1, <1>4, TellsSkip
  <2>2. queue # <<>>
    <3>1. n # Len(inputs)
      OBVIOUS
    <3> QED
      BY <2>1, <3>1, TellsAll
  <2>3. /\ Head(queue) \in Run(V) /\ Tail(queue) \in Seq(Run(V))
        /\ Then(Head(queue), Tail(queue)) = queue
        /\ Head(queue) = queue[1] /\ Len(queue) \in Nat \ {0}
        /\ Len(Tail(queue)) = Len(queue) - 1
        /\ \A k \in 1..Len(Tail(queue)) : Tail(queue)[k] = queue[k + 1]
    BY <1>1, <2>2, HeadAndTail
  <2>4. Remaining(run, queue) = Head(queue) /\ Rest(run, queue) = Tail(queue)
    BY <1>4, <2>2 DEF Remaining, Rest, Load
  <2>5. Head(queue).count # 0 /\ \A k \in 1..Len(Tail(queue)) : Tail(queue)[k].count # 0
    <3>1. 1 \in 1..Len(queue)
      BY <2>3
    <3>2. \A k \in 1..Len(Tail(queue)) : k + 1 \in 1..Len(queue)
      BY <2>3
    <3> QED
      BY <1>1, <2>3, <3>1, <3>2
  <2> DEFINE first == Head(queue)
             rest == Tail(queue)
             less == UseOne(first)
  <2>6. less \in Run(V) /\ OneLess(less, first)
    BY <1>2, <2>3, <2>5
  <2>7. Tells(Then(first, rest), inputs, n) /\ first \in Run(V) /\ rest \in Seq(Run(V))
    BY <2>1, <2>3
  <2> HIDE DEF first, rest, less
  <2>8. Follows(inputs, n, first.value) /\ Tells(Then(less, rest), inputs, n + 1)
    BY <2>6, <2>7, TellsNext
  <2> QED
    BY <2>3, <2>4, <2>5, <2>6, <2>8 DEF Gives, Follows, first, rest, less
<1> QED
  BY <1>3, <1>4

(* The inputs on the tape are of their types,                              *)
LEMMA TapedTypes ==
    ASSUME TapeOK
    PROVE  /\ TapedButtons \in Seq(BUTTONS) /\ TapedResets \in Seq(BOOLEAN)
           /\ Len(TapedButtons) = Len(tape) /\ Len(TapedResets) = Len(tape)
           /\ Len(tape) \in Nat
           /\ \A k \in 1..Len(tape) : /\ TapedButtons[k] = tape[k].buttons
                                      /\ TapedResets[k] = tape[k].reset
<1> DEFINE S == [reset : BOOLEAN, buttons : BUTTONS, drawn : Nat]
<1>1. tape \in Seq(S)
  BY DEF TapeOK
<1>2. \A s \in S : s.buttons \in BUTTONS /\ s.reset \in BOOLEAN
  OBVIOUS
<1> HIDE DEF S
<1>3. Len(tape) \in Nat /\ \A k \in 1..Len(tape) : tape[k] \in S
  BY <1>1
<1>4. \A k \in 1..Len(tape) : tape[k].buttons \in BUTTONS /\ tape[k].reset \in BOOLEAN
  BY <1>2, <1>3
<1>5. TapedButtons \in Seq(BUTTONS) /\ Len(TapedButtons) = Len(tape)
  BY <1>3, <1>4 DEF TapedButtons
<1>6. TapedResets \in Seq(BOOLEAN) /\ Len(TapedResets) = Len(tape)
  BY <1>3, <1>4 DEF TapedResets
<1>7. \A k \in 1..Len(tape) : /\ TapedButtons[k] = tape[k].buttons
                              /\ TapedResets[k] = tape[k].reset
  BY DEF TapedButtons, TapedResets
<1> QED
  BY <1>3, <1>5, <1>6, <1>7

(* and grow by one with a recorded step.                                   *)
LEMMA TapedMore ==
    ASSUME TapeOK, NEW reset \in BOOLEAN, NEW buttons \in BUTTONS,
           tape' = Append(tape, [reset |-> reset, buttons |-> buttons, drawn |-> Len(pixels)])
    PROVE  /\ TapedButtons' = Append(TapedButtons, buttons)
           /\ TapedResets' = Append(TapedResets, reset)
<1> DEFINE S == [reset : BOOLEAN, buttons : BUTTONS, drawn : Nat]
           entry == [reset |-> reset, buttons |-> buttons, drawn |-> Len(pixels)]
           n == Len(tape)
<1>1. tape \in Seq(S) /\ tape' = Append(tape, entry)
  BY DEF TapeOK
<1>2. entry.buttons = buttons /\ entry.reset = reset
  OBVIOUS
<1> HIDE DEF S, entry
<1>3. /\ n \in Nat /\ Len(tape') = n + 1
      /\ \A k \in 1..n : tape'[k] = tape[k]
      /\ tape'[n + 1] = entry
  BY <1>1
<1> HIDE DEF n
<1>4. \A k \in 1..n + 1 : tape'[k] = IF k = n + 1 THEN entry ELSE tape[k]
  BY <1>3
<1>5. TapedButtons' = [k \in 1..n + 1 |-> IF k = n + 1 THEN buttons ELSE tape[k].buttons]
  BY <1>2, <1>3, <1>4 DEF TapedButtons
<1>6. TapedResets' = [k \in 1..n + 1 |-> IF k = n + 1 THEN reset ELSE tape[k].reset]
  BY <1>2, <1>3, <1>4 DEF TapedResets
<1>7. /\ TapedButtons \in Seq(BUTTONS) /\ TapedResets \in Seq(BOOLEAN)
      /\ Len(TapedButtons) = n /\ Len(TapedResets) = n
      /\ \A k \in 1..n : TapedButtons[k] = tape[k].buttons /\ TapedResets[k] = tape[k].reset
  BY TapedTypes DEF n
<1>8. Append(TapedButtons, buttons) = [k \in 1..n + 1 |-> IF k = n + 1 THEN buttons ELSE tape[k].buttons]
  <2>1. Append(TapedButtons, buttons)
          = [k \in 1..n + 1 |-> IF k = n + 1 THEN buttons ELSE TapedButtons[k]]
    BY <1>7, AppendIs
  <2> QED
    BY <1>3, <1>7, <2>1
<1>9. Append(TapedResets, reset) = [k \in 1..n + 1 |-> IF k = n + 1 THEN reset ELSE tape[k].reset]
  <2>1. Append(TapedResets, reset)
          = [k \in 1..n + 1 |-> IF k = n + 1 THEN reset ELSE TapedResets[k]]
    BY <1>7, AppendIs
  <2> QED
    BY <1>3, <1>7, <2>1
<1> QED
  BY <1>5, <1>6, <1>8, <1>9

(* An entry written at the end of the log is read last.                    *)
LEMMA FileIsRead ==
    ASSUME NEW file \in Seq(InputEntry), NEW entry \in InputEntry
    PROVE  /\ file \o <<entry>> \in Seq(InputEntry)
           /\ readAll(file \o <<entry>>) = Push(readAll(file), entry)
<1>1. file \o <<entry>> = Append(file, entry) /\ Append(file, entry) \in Seq(InputEntry)
  BY Concats
<1>2. readAll(Append(file, entry)) = Push(readAll(file), entry)
  BY ReadAllOfMore
<1> QED
  BY <1>1, <1>2

(* Without garbage the byte holds the buttons.                             *)
LEMMA MarshalIs ==
    ASSUME NoGarbage, NEW low \in GARBAGE, NEW buttons
    PROVE  marshal(buttons, low) = buttons
<1>1. low = FALSE
  BY RecordingAssumption DEF NoGarbage
<1> QED
  BY <1>1 DEF marshal

(* The entries of the spy's runs, as readAll sorts them.                   *)
LEMMA ButtonsEntryRead ==
    ASSUME NoGarbage, NEW low \in GARBAGE, spyButtons \in Run(BUTTONS),
           NEW file \in Seq(InputEntry), QueuesOK(readAll(file)),
           NEW longer, longer = file \o ButtonsEntry(low)
    PROVE  /\ longer \in Seq(InputEntry)
           /\ QueuesOK(readAll(longer))
           /\ readAll(longer)["BTN"] = Append(readAll(file)["BTN"], spyButtons)
           /\ readAll(longer)["RST"] = readAll(file)["RST"]
<1> DEFINE entry == [kind |-> "BTN", run |-> spyButtons]
<1>1. ButtonsEntry(low) = <<entry>>
  <2>1. marshal(spyButtons.value, low) = spyButtons.value
    BY MarshalIs
  <2>2. [spyButtons EXCEPT !.value = marshal(@, low)] = spyButtons
    BY <2>1 DEF Run
  <2> QED
    BY <2>2 DEF ButtonsEntry
<1>2. entry \in InputEntry
  BY DEF InputEntry
<1>3. longer \in Seq(InputEntry) /\ readAll(longer) = Push(readAll(file), entry)
  BY <1>1, <1>2, FileIsRead
<1> QED
  BY <1>3, PushButtons

LEMMA ResetEntryRead ==
    ASSUME spyReset \in Run(BOOLEAN),
           NEW file \in Seq(InputEntry), QueuesOK(readAll(file)),
           NEW longer, longer = file \o ResetEntry
    PROVE  /\ longer \in Seq(InputEntry)
           /\ QueuesOK(readAll(longer))
           /\ readAll(longer)["RST"] = Append(readAll(file)["RST"], spyReset)
           /\ readAll(longer)["BTN"] = readAll(file)["BTN"]
<1> DEFINE entry == [kind |-> "RST", run |-> spyReset]
<1>1. ResetEntry = <<entry>>
  BY DEF ResetEntry
<1>2. entry \in InputEntry
  BY DEF InputEntry
<1>3. longer \in Seq(InputEntry) /\ readAll(longer) = Push(readAll(file), entry)
  BY <1>1, <1>2, FileIsRead
<1> QED
  BY <1>3, PushReset

(* The inputs at the start.                                                *)
LEMMA InputInit ==
    Init => InputInv
<1> SUFFICES ASSUME Init PROVE InputInv
  OBVIOUS
<1>1. /\ phase = "recording" /\ onTrack = TRUE /\ btnFile = <<>> /\ tape = <<>>
      /\ spyButtons = [value |-> {}, count |-> 0]
      /\ spyReset = [value |-> FALSE, count |-> 0]
  BY DEF Init
<1>2. spyButtons \in Run(BUTTONS) /\ spyReset \in Run(BOOLEAN)
  BY <1>1, RecordingAssumption DEF Run
<1>3. FileOK
  BY <1>1 DEF FileOK
<1>4. QueuesOK(NoQueues) /\ NoQueues["BTN"] = <<>> /\ NoQueues["RST"] = <<>>
  BY DEF QueuesOK, NoQueues
<1>5. readAll(btnFile) = NoQueues
  BY <1>1, ReadAllOfNothing
<1>6. TapedButtons = <<>> /\ TapedResets = <<>>
  BY <1>1 DEF TapedButtons, TapedResets
<1>7. ASSUME NEW V, NEW run \in Run(V), run.count = 0
      PROVE  Logs(Append(<<>>, run), V, <<>>)
  <2>1. <<>> \in Seq(Run(V)) /\ <<>> \in Seq(V)
    OBVIOUS
  <2>2. Tells(Append(<<>>, run), <<>>, 0)
    BY <1>7, <2>1, TellsNothing, TellsEmptyLast
  <2>3. /\ Append(<<>>, run) \in Seq(Run(V)) /\ Len(Append(<<>>, run)) = 1
    BY <2>1
  <2> QED
    BY <2>2, <2>3 DEF Logs
<1>8. spyButtons.count = 0 /\ spyReset.count = 0
  BY <1>1
<1>9. /\ Logs(Append(readAll(btnFile)["BTN"], spyButtons), BUTTONS, TapedButtons)
      /\ Logs(Append(readAll(btnFile)["RST"], spyReset), BOOLEAN, TapedResets)
  BY <1>2, <1>4, <1>5, <1>6, <1>7, <1>8
<1>10. SpyOK
  BY <1>2, <1>3, <1>4, <1>5, <1>9 DEF SpyOK
<1> QED
  BY <1>1, <1>10 DEF InputInv

(* A recorded step keeps the logs true to the tape. *)
LEMMA SpyStep ==
    ASSUME NoGarbage, TapeOK, SpyOK,
           NEW reset \in BOOLEAN, NEW buttons \in BUTTONS, NEW low \in GARBAGE,
           RecordStep(reset, buttons, low)
    PROVE  SpyOK'
<1>1. /\ spyReset' = Extend(spyReset, reset)
      /\ spyButtons' = Extend(spyButtons, buttons)
      /\ btnFile' = btnFile
             \o (IF reset = spyReset.value THEN <<>> ELSE ResetEntry)
             \o (IF buttons = spyButtons.value THEN <<>> ELSE ButtonsEntry(low))
      /\ tape' = Append(tape, [reset |-> reset, buttons |-> buttons, drawn |-> Len(pixels)])
  BY DEF RecordStep
<1>2. /\ btnFile \in Seq(InputEntry)
      /\ spyButtons \in Run(BUTTONS) /\ spyReset \in Run(BOOLEAN)
      /\ QueuesOK(readAll(btnFile))
      /\ Logs(Append(readAll(btnFile)["BTN"], spyButtons), BUTTONS, TapedButtons)
      /\ Logs(Append(readAll(btnFile)["RST"], spyReset), BOOLEAN, TapedResets)
  BY DEF SpyOK, FileOK
<1>3. /\ TapedButtons \in Seq(BUTTONS) /\ TapedResets \in Seq(BOOLEAN)
      /\ TapedButtons' = Append(TapedButtons, buttons)
      /\ TapedResets' = Append(TapedResets, reset)
  BY <1>1, TapedTypes, TapedMore
<1>4. /\ readAll(btnFile)["BTN"] \in Seq(Run(BUTTONS))
      /\ readAll(btnFile)["RST"] \in Seq(Run(BOOLEAN))
  BY <1>2 DEF QueuesOK
<1> DEFINE middle == btnFile \o (IF reset = spyReset.value THEN <<>> ELSE ResetEntry)
<1>5. /\ middle \in Seq(InputEntry)
      /\ QueuesOK(readAll(middle))
      /\ readAll(middle)["BTN"] = readAll(btnFile)["BTN"]
      /\ spyReset' \in Run(BOOLEAN)
      /\ Logs(Append(readAll(middle)["RST"], spyReset'), BOOLEAN, TapedResets')
  <2>1. CASE reset = spyReset.value
    <3>1. middle = btnFile
      BY <1>2, <2>1
    <3>2. /\ Extend(spyReset, reset) \in Run(BOOLEAN)
          /\ Logs(Append(readAll(btnFile)["RST"], Extend(spyReset, reset)), BOOLEAN,
                  Append(TapedResets, reset))
      BY <1>2, <1>3, <1>4, <2>1, LogsOneMore
    <3> QED
      BY <1>1, <1>2, <1>3, <3>1, <3>2
  <2>2. CASE reset # spyReset.value
    <3>1. middle = btnFile \o ResetEntry
      BY <2>2
    <3>2. /\ middle \in Seq(InputEntry)
          /\ QueuesOK(readAll(middle))
          /\ readAll(middle)["RST"] = Append(readAll(btnFile)["RST"], spyReset)
          /\ readAll(middle)["BTN"] = readAll(btnFile)["BTN"]
      BY <1>2, <3>1, ResetEntryRead
    <3>3. /\ Extend(spyReset, reset) \in Run(BOOLEAN)
          /\ Logs(Append(Append(readAll(btnFile)["RST"], spyReset), Extend(spyReset, reset)),
                  BOOLEAN, Append(TapedResets, reset))
      BY <1>2, <1>3, <1>4, <2>2, LogsOneMore
    <3> QED
      BY <1>1, <1>3, <3>2, <3>3
  <2> QED
    BY <2>1, <2>2
<1>6. btnFile' = middle \o (IF buttons = spyButtons.value THEN <<>> ELSE ButtonsEntry(low))
  BY <1>1
<1> HIDE DEF middle
<1>7. /\ btnFile' \in Seq(InputEntry)
      /\ QueuesOK(readAll(btnFile'))
      /\ readAll(btnFile')["RST"] = readAll(middle)["RST"]
      /\ spyButtons' \in Run(BUTTONS)
      /\ Logs(Append(readAll(btnFile')["BTN"], spyButtons'), BUTTONS, TapedButtons')
  <2>1. CASE buttons = spyButtons.value
    <3>1. btnFile' = middle
      BY <1>5, <1>6, <2>1
    <3>2. /\ Extend(spyButtons, buttons) \in Run(BUTTONS)
          /\ Logs(Append(readAll(btnFile)["BTN"], Extend(spyButtons, buttons)), BUTTONS,
                  Append(TapedButtons, buttons))
      BY <1>2, <1>3, <1>4, <2>1, LogsOneMore
    <3> QED
      BY <1>1, <1>3, <1>5, <3>1, <3>2
  <2>2. CASE buttons # spyButtons.value
    <3>1. btnFile' = middle \o ButtonsEntry(low)
      BY <1>6, <2>2
    <3>2. /\ btnFile' \in Seq(InputEntry)
          /\ QueuesOK(readAll(btnFile'))
          /\ readAll(btnFile')["BTN"] = Append(readAll(middle)["BTN"], spyButtons)
          /\ readAll(btnFile')["RST"] = readAll(middle)["RST"]
      BY <1>2, <1>5, <3>1, ButtonsEntryRead
    <3>3. /\ Extend(spyButtons, buttons) \in Run(BUTTONS)
          /\ Logs(Append(Append(readAll(btnFile)["BTN"], spyButtons), Extend(spyButtons, buttons)),
                  BUTTONS, Append(TapedButtons, buttons))
      BY <1>2, <1>3, <1>4, <2>2, LogsOneMore
    <3> QED
      BY <1>1, <1>3, <1>5, <3>2, <3>3
  <2> QED
    BY <2>1, <2>2
<1> QED
  BY <1>5, <1>7 DEF SpyOK, FileOK

(* Closing writes the two runs left over. *)
LEMMA SpyCloses ==
    ASSUME NoGarbage, SpyOK, NEW low \in GARBAGE, Close(low)
    PROVE  ClosedOK'
<1>1. /\ btnFile' = btnFile \o ButtonsEntry(low) \o ResetEntry /\ tape' = tape
  BY DEF Close
<1>2. /\ btnFile \in Seq(InputEntry)
      /\ spyButtons \in Run(BUTTONS) /\ spyReset \in Run(BOOLEAN)
      /\ QueuesOK(readAll(btnFile))
      /\ Logs(Append(readAll(btnFile)["BTN"], spyButtons), BUTTONS, TapedButtons)
      /\ Logs(Append(readAll(btnFile)["RST"], spyReset), BOOLEAN, TapedResets)
  BY DEF SpyOK, FileOK
<1>3. /\ readAll(btnFile)["BTN"] \in Seq(Run(BUTTONS))
      /\ readAll(btnFile)["RST"] \in Seq(Run(BOOLEAN))
  BY <1>2 DEF QueuesOK
<1> DEFINE middle == btnFile \o ButtonsEntry(low)
<1>4. /\ middle \in Seq(InputEntry)
      /\ QueuesOK(readAll(middle))
      /\ readAll(middle)["BTN"] = Append(readAll(btnFile)["BTN"], spyButtons)
      /\ readAll(middle)["RST"] = readAll(btnFile)["RST"]
  BY <1>2, ButtonsEntryRead
<1>5. btnFile' = middle \o ResetEntry
  BY <1>1
<1> HIDE DEF middle
<1>6. /\ QueuesOK(readAll(btnFile'))
      /\ readAll(btnFile')["RST"] = Append(readAll(middle)["RST"], spyReset)
      /\ readAll(btnFile')["BTN"] = readAll(middle)["BTN"]
  BY <1>2, <1>4, <1>5, ResetEntryRead
<1>7. TapedButtons' = TapedButtons /\ TapedResets' = TapedResets
  BY <1>1 DEF TapedButtons, TapedResets
<1>8. /\ readAll(btnFile')["BTN"] # <<>> /\ readAll(btnFile')["RST"] # <<>>
  <2>1. /\ Append(readAll(btnFile)["BTN"], spyButtons) # <<>>
        /\ Append(readAll(btnFile)["RST"], spyReset) # <<>>
    BY <1>2, <1>3
  <2> QED
    BY <1>4, <1>6, <2>1
<1> QED
  BY <1>2, <1>4, <1>6, <1>7, <1>8 DEF ClosedOK

(* The compare interface starts with the first run of each log. *)
LEMMA CompareStarts ==
    ASSUME ClosedOK, Untouched, TapeOK, StartCompare
    PROVE  CompareOK'
<1> DEFINE queues == readAll(btnFile)
<1>1. /\ queues["BTN"] # <<>> /\ queues["RST"] # <<>>
      /\ queues["BTN"] \in Seq(Run(BUTTONS)) /\ queues["RST"] \in Seq(Run(BOOLEAN))
      /\ Logs(queues["BTN"], BUTTONS, TapedButtons)
      /\ Logs(queues["RST"], BOOLEAN, TapedResets)
  BY DEF ClosedOK, QueuesOK
<1>2. /\ cmpButtons' = Load(cmpButtons, queues["BTN"])
      /\ cmpReset' = Load(cmpReset, queues["RST"])
      /\ nextButtons' = Tail(queues["BTN"])
      /\ nextResets' = Tail(queues["RST"])
      /\ tape' = tape /\ pixels' = pixels
      /\ isDone' = isDone /\ step' = step /\ drawn' = drawn /\ compared' = compared
  BY DEF StartCompare, spyVars
<1> HIDE DEF queues
<1>3. cmpButtons' = Head(queues["BTN"]) /\ cmpReset' = Head(queues["RST"])
  BY <1>1, <1>2 DEF Load
<1>4. /\ Gives(cmpButtons', nextButtons', BUTTONS, TapedButtons, 0)
      /\ Gives(cmpReset', nextResets', BOOLEAN, TapedResets, 0)
  BY <1>1, <1>2, <1>3, LogGives
<1>5. TapedButtons' = TapedButtons /\ TapedResets' = TapedResets
  BY <1>2 DEF TapedButtons, TapedResets
<1>6. Len(tape) \in Nat
  BY TapedTypes
<1>7. step' = 0 /\ drawn' = compared' /\ ~isDone' /\ tape' = tape
  BY <1>2 DEF Untouched
<1> QED
  BY <1>4, <1>5, <1>6, <1>7 DEF CompareOK

(* The console is given the inputs of the next recorded step. *)
LEMMA CompareGives ==
    ASSUME CompareOK, TapeOK, pixels # <<>>, compared \in Nat, compared <= Len(pixels),
           reader = "compare", onTrack, ReplayStep
    PROVE  onTrack' /\ CompareOK'
<1> DEFINE reset == Remaining(cmpReset, nextResets)
           buttons == Remaining(cmpButtons, nextButtons)
<1>1. /\ ~Undrawn
      /\ onTrack' = (onTrack /\ InputsAsRecorded(reset.value, buttons.value))
      /\ step' = IF step > Len(tape) THEN step ELSE step + 1
      /\ cmpReset' = UseOne(reset)
      /\ cmpButtons' = UseOne(buttons)
      /\ nextResets' = Rest(cmpReset, nextResets)
      /\ nextButtons' = Rest(cmpButtons, nextButtons)
      /\ tape' = tape /\ pixels' = pixels
      /\ isDone' = isDone /\ drawn' = drawn /\ compared' = compared
  BY DEF ReplayStep, spyVars
<1>2. /\ step \in 0..(Len(tape) + 1)
      /\ step <= Len(tape) =>
             /\ Gives(cmpButtons, nextButtons, BUTTONS, TapedButtons, step)
             /\ Gives(cmpReset, nextResets, BOOLEAN, TapedResets, step)
             /\ drawn = compared
             /\ ~isDone
      /\ step > Len(tape) => compared = Len(pixels)
  BY DEF CompareOK
<1>3. /\ TapedButtons \in Seq(BUTTONS) /\ TapedResets \in Seq(BOOLEAN)
      /\ Len(TapedButtons) = Len(tape) /\ Len(TapedResets) = Len(tape)
      /\ Len(tape) \in Nat
      /\ \A k \in 1..Len(tape) : TapedButtons[k] = tape[k].buttons /\ TapedResets[k] = tape[k].reset
  BY TapedTypes
<1>4. TapedButtons' = TapedButtons /\ TapedResets' = TapedResets
  BY <1>1 DEF TapedButtons, TapedResets
<1> HIDE DEF reset, buttons
<1>5. CASE step < Len(tape)
  <2>1. step \in Nat /\ step <= Len(tape) /\ step + 1 \in 1..Len(tape) /\ ~(step > Len(tape))
    BY <1>2, <1>3, <1>5
  <2>2. /\ buttons.value = TapedButtons[step + 1]
        /\ Gives(UseOne(buttons), Rest(cmpButtons, nextButtons), BUTTONS, TapedButtons, step + 1)
    BY <1>2, <1>3, <1>5, <2>1, GivesNext DEF buttons
  <2>3. /\ reset.value = TapedResets[step + 1]
        /\ Gives(UseOne(reset), Rest(cmpReset, nextResets), BOOLEAN, TapedResets, step + 1)
    BY <1>2, <1>3, <1>5, <2>1, GivesNext DEF reset
  <2>4. InputsAsRecorded(reset.value, buttons.value)
    BY <1>3, <2>1, <2>2, <2>3 DEF InputsAsRecorded
  <2>5. onTrack'
    BY <1>1, <2>4
  <2>6. step' = step + 1 /\ step' \in 0..(Len(tape) + 1) /\ ~(step' > Len(tape))
    BY <1>1, <1>3, <2>1
  <2>7. drawn' = compared' /\ ~isDone'
    BY <1>1, <1>2, <2>1
  <2>8. /\ Gives(cmpButtons', nextButtons', BUTTONS, TapedButtons', step')
        /\ Gives(cmpReset', nextResets', BOOLEAN, TapedResets', step')
    BY <1>1, <1>4, <2>2, <2>3, <2>6
  <2> QED
    BY <1>1, <2>5, <2>6, <2>7, <2>8 DEF CompareOK
<1>6. CASE step = Len(tape)
  <2>0. InputsAsRecorded(reset.value, buttons.value)
    <3>1. ~(step < Len(tape))
      BY <1>3, <1>6
    <3> QED
      BY <3>1 DEF InputsAsRecorded
  <2>1. onTrack'
    BY <1>1, <2>0
  <2>2. tape # <<>> /\ tape[Len(tape)].drawn = Len(pixels)
    BY DEF TapeOK
  <2>3. step \in 1..Len(tape) /\ step \in DOMAIN tape
    <3>1. tape \in Seq([reset : BOOLEAN, buttons : BUTTONS, drawn : Nat])
      BY DEF TapeOK
    <3> DEFINE S == [reset : BOOLEAN, buttons : BUTTONS, drawn : Nat]
    <3> HIDE DEF S
    <3>2. tape \in Seq(S)
      BY <3>1 DEF S
    <3> QED
      BY <1>6, <2>2, <3>2
  <2>4. ~(drawn < Len(pixels))
    BY <1>1, <1>6, <2>2, <2>3 DEF Undrawn, DrawsAsRecorded
  <2>5. drawn = compared /\ Len(pixels) \in Nat
    BY <1>2, <1>3, <1>6 DEF TapeOK
  <2>6. compared' = Len(pixels')
    BY <1>1, <2>4, <2>5
  <2>7. step' = Len(tape) + 1 /\ step' \in 0..(Len(tape) + 1) /\ ~(step' <= Len(tape))
    BY <1>1, <1>3, <1>6
  <2> QED
    BY <1>1, <2>1, <2>6, <2>7 DEF CompareOK
<1>7. CASE step > Len(tape)
  <2>0. InputsAsRecorded(reset.value, buttons.value)
    <3>1. ~(step < Len(tape))
      BY <1>2, <1>3, <1>7
    <3> QED
      BY <3>1 DEF InputsAsRecorded
  <2>1. onTrack'
    BY <1>1, <2>0
  <2>2. step' = step /\ ~(step <= Len(tape)) /\ compared = Len(pixels)
    BY <1>1, <1>2, <1>3, <1>7
  <2> QED
    BY <1>1, <1>2, <1>7, <2>1, <2>2 DEF CompareOK
<1> QED
  BY <1>2, <1>3, <1>5, <1>6, <1>7

(* What the console draws is accepted. *)
LEMMA CompareAccepts ==
    ASSUME PixelInv, CompareOK, onTrack, reader = "compare",
           NEW palette \in PALETTES, ReplayPixel(palette)
    PROVE  phase' # "error" /\ CompareOK'
<1>1. /\ phase = "replaying" /\ step > 0
      /\ (DrawsAsRecorded => Undrawn /\ palette = pixels[drawn + 1])
      /\ drawn' = IF DrawsAsRecorded THEN drawn + 1 ELSE drawn
      /\ colorPixel(palette)
      /\ tape' = tape /\ pixels' = pixels /\ step' = step
      /\ cmpButtons' = cmpButtons /\ cmpReset' = cmpReset
      /\ nextButtons' = nextButtons /\ nextResets' = nextResets
  BY DEF ReplayPixel, spyVars
<1>2. /\ step \in 0..(Len(tape) + 1)
      /\ step <= Len(tape) =>
             /\ Gives(cmpButtons, nextButtons, BUTTONS, TapedButtons, step)
             /\ Gives(cmpReset, nextResets, BOOLEAN, TapedResets, step)
             /\ drawn = compared
             /\ ~isDone
      /\ step > Len(tape) => compared = Len(pixels)
  BY DEF CompareOK
<1>3. /\ TapeOK /\ compared \in Nat /\ compared <= Len(pixels)
      /\ ~isDone => ReaderOK(screenIn, pixels, compared)
      /\ pixels \in Seq(PALETTES)
      /\ \A k \in 1..Len(tape) : tape[k].drawn <= Len(pixels)
  BY <1>1 DEF PixelInv, TapeOK
<1>4. Len(tape) \in Nat /\ Len(pixels) \in Nat /\ DOMAIN tape = 1..Len(tape)
  <2> DEFINE S == [reset : BOOLEAN, buttons : BUTTONS, drawn : Nat]
  <2>1. tape \in Seq(S)
    BY <1>3 DEF TapeOK
  <2> HIDE DEF S
  <2> QED
    BY <1>3, <2>1
<1>5. TapedButtons' = TapedButtons /\ TapedResets' = TapedResets
  BY <1>1 DEF TapedButtons, TapedResets
<1>6. ASSUME ~isDone
      PROVE  /\ isDone' = (screenIn'.value = END)
             /\ compared' = IF isDone' THEN compared ELSE compared + 1
             /\ phase' = IF Accepts(palette, screenIn'.value) THEN phase ELSE "error"
             /\ isDone' => compared = Len(pixels)
             /\ ~isDone' => /\ compared + 1 \in 1..Len(pixels)
                            /\ screenIn'.value = pixels[compared + 1]
  <2>1. /\ screenIn' = read(screenIn)
        /\ isDone' = (screenIn'.value = END)
        /\ compared' = IF isDone' THEN compared ELSE compared + 1
        /\ phase' = IF Accepts(palette, screenIn'.value) THEN phase ELSE "error"
    BY <1>1, <1>6 DEF colorPixel, Compare
  <2>2. /\ read(screenIn).value = END => compared = Len(pixels)
        /\ read(screenIn).value # END =>
               /\ compared + 1 \in 1..Len(pixels)
               /\ read(screenIn).value = pixels[compared + 1]
    BY <1>3, <1>6, ReadsPixel
  <2> QED
    BY <2>1, <2>2
<1>7. CASE step <= Len(tape)
  <2>1. step \in DOMAIN tape /\ step \in 1..Len(tape)
    BY <1>1, <1>2, <1>4, <1>7
  <2>2. DrawsAsRecorded
    BY <2>1 DEF DrawsAsRecorded
  <2>3. drawn < tape[step].drawn /\ palette = pixels[drawn + 1]
    BY <1>1, <2>2 DEF Undrawn
  <2>4. tape[step].drawn \in Nat
    <3> DEFINE S == [reset : BOOLEAN, buttons : BUTTONS, drawn : Nat]
    <3>1. tape \in Seq(S)
      BY <1>3 DEF TapeOK
    <3>2. tape[step] \in S
      <4> HIDE DEF S
      <4> QED
        BY <2>1, <3>1
    <3> QED
      BY <3>2
  <2>5. compared # Len(pixels) /\ drawn = compared /\ ~isDone
    BY <1>2, <1>3, <1>4, <1>7, <2>1, <2>3, <2>4
  <2>6. ~isDone' /\ screenIn'.value = palette
    BY <1>6, <2>3, <2>5
  <2>7. phase' = phase /\ compared' = compared + 1
    BY <1>6, <2>5, <2>6 DEF Accepts
  <2>8. drawn' = compared'
    BY <1>1, <2>2, <2>5, <2>7
  <2> QED
    BY <1>1, <1>2, <1>4, <1>5, <1>7, <2>6, <2>7, <2>8 DEF CompareOK
<1>8. CASE step > Len(tape)
  <2>1. ~(step <= Len(tape)) /\ compared = Len(pixels)
    BY <1>2, <1>4, <1>8
  <2>2. CASE isDone
    <3>1. phase' = phase /\ compared' = compared
      BY <1>1, <2>2 DEF colorPixel
    <3> QED
      BY <1>1, <1>2, <2>1, <3>1 DEF CompareOK
  <2>3. CASE ~isDone
    <3>1. isDone'
      <4>1. compared + 1 \notin 1..Len(pixels)
        BY <1>4, <2>1
      <4> QED
        BY <1>6, <2>3, <4>1
    <3>2. compared' = compared /\ screenIn'.value = END
      BY <1>6, <2>3, <3>1
    <3>3. phase' = phase
      BY <1>6, <2>3, <3>2 DEF Accepts
    <3> QED
      BY <1>1, <1>2, <2>1, <3>2, <3>3 DEF CompareOK
  <2> QED
    BY <2>2, <2>3
<1> QED
  BY <1>2, <1>4, <1>7, <1>8

(* The inputs at every step.                                               *)
LEMMA InputNext ==
    ASSUME NoGarbage, PixelInv, InputInv, [Next]_vars
    PROVE  InputInv'
<1>1. /\ TapeOK /\ onTrack /\ phase # "error"
      /\ phase = "recording" => SpyOK
      /\ phase = "closed" => ClosedOK /\ Untouched
      /\ phase = "replaying" /\ reader = "compare" => CompareOK
      /\ phase = "replaying" => pixels # <<>> /\ reader \in {"compare", "replay"}
      /\ compared \in Nat /\ compared <= Len(pixels)
  BY DEF PixelInv, InputInv
<1>2. ASSUME NEW reset \in BOOLEAN, NEW buttons \in BUTTONS, NEW low \in GARBAGE,
             RecordStep(reset, buttons, low)
      PROVE  InputInv'
  <2>1. phase = "recording" /\ phase' = "recording" /\ onTrack' = onTrack
    BY <1>2 DEF RecordStep, cmpVars
  <2>2. SpyOK'
    BY <1>1, <1>2, <2>1, SpyStep
  <2> QED
    BY <1>1, <2>1, <2>2 DEF InputInv
<1>3. ASSUME NEW palette \in PALETTES, RecordPixel(palette)
      PROVE  InputInv'
  <2>1. /\ phase = "recording" /\ phase' = "recording" /\ onTrack' = onTrack
        /\ tape # <<>>
        /\ tape' = [tape EXCEPT ![Len(tape)].drawn = @ + 1]
        /\ btnFile' = btnFile /\ spyButtons' = spyButtons /\ spyReset' = spyReset
    BY <1>3 DEF RecordPixel, cmpVars
  <2>2. TapedButtons' = TapedButtons /\ TapedResets' = TapedResets
    <3> DEFINE S == [reset : BOOLEAN, buttons : BUTTONS, drawn : Nat]
               n == Len(tape)
    <3>1. tape \in Seq(S)
      BY <1>1 DEF TapeOK
    <3>2. n \in Nat /\ n # 0 /\ n \in 1..n /\ Len(tape') = n /\ \A k \in 1..n : tape[k] \in S
      <4> HIDE DEF S
      <4>1. n \in Nat /\ n # 0 /\ DOMAIN tape = 1..n
        BY <2>1, <3>1
      <4>2. tape' = [tape EXCEPT ![n] = [tape[n] EXCEPT !.drawn = @ + 1]]
        BY <2>1
      <4>3. DOMAIN tape' = 1..n
        BY <4>1, <4>2
      <4> QED
        BY <3>1, <4>1, <4>3
    <3>3. \A k \in 1..n : tape'[k].buttons = tape[k].buttons /\ tape'[k].reset = tape[k].reset
      BY <2>1, <3>1, <3>2
    <3> HIDE DEF n, S
    <3> QED
      BY <3>2, <3>3 DEF TapedButtons, TapedResets, n
  <2>3. SpyOK'
    BY <1>1, <2>1, <2>2 DEF SpyOK, FileOK
  <2> QED
    BY <1>1, <2>1, <2>3 DEF InputInv
<1>4. ASSUME NEW low \in GARBAGE, Close(low)
      PROVE  InputInv'
  <2>1. phase = "recording" /\ phase' = "closed" /\ onTrack' = onTrack
    BY <1>4 DEF Close, cmpVars
  <2>2. ClosedOK'
    BY <1>1, <1>4, <2>1, SpyCloses
  <2> QED
    BY <1>1, <2>1, <2>2 DEF InputInv
<1>5. ASSUME StartReplay
      PROVE  InputInv'
  <2>1. CASE StartCompare
    <3>1. phase = "closed" /\ phase' = "replaying" /\ onTrack' = onTrack
      BY <2>1 DEF StartCompare
    <3>2. CompareOK'
      BY <1>1, <2>1, <3>1, CompareStarts
    <3> QED
      BY <1>1, <3>1, <3>2 DEF InputInv
  <2>2. CASE StartShow
    <3>1. phase' = "replaying" /\ reader' = "replay" /\ onTrack' = onTrack
      BY <2>2 DEF StartShow
    <3> QED
      BY <1>1, <3>1 DEF InputInv
  <2> QED
    BY <1>5, <2>1, <2>2 DEF StartReplay
<1>6. ASSUME ReplayStep
      PROVE  InputInv'
  <2>1. phase = "replaying" /\ reader = "compare" /\ phase' = phase
    BY <1>6 DEF ReplayStep
  <2>2. onTrack' /\ CompareOK'
    BY <1>1, <1>6, <2>1, CompareGives
  <2> QED
    BY <1>1, <2>1, <2>2 DEF InputInv
<1>7. ASSUME NEW palette \in PALETTES, ReplayPixel(palette)
      PROVE  InputInv'
  <2>1. phase = "replaying" /\ reader' = reader /\ onTrack' = onTrack /\ colorPixel(palette)
    BY <1>7 DEF ReplayPixel
  <2>2. phase' \in {"replaying", "error"}
    BY <2>1 DEF colorPixel, Compare
  <2>3. CASE reader = "compare"
    <3>1. phase' # "error" /\ CompareOK'
      BY <1>1, <1>7, <2>1, <2>3, CompareAccepts
    <3> QED
      BY <1>1, <2>1, <2>2, <3>1 DEF InputInv
  <2>4. CASE reader = "replay"
    <3>1. phase' = phase
      BY <2>1, <2>4 DEF colorPixel, Compare, Accepts
    <3> QED
      BY <1>1, <2>1, <2>4, <3>1 DEF InputInv
  <2> QED
    BY <1>1, <2>1, <2>3, <2>4
<1>8. ASSUME Finish
      PROVE  InputInv'
  <2>1. phase' = "finished" /\ onTrack' = onTrack
    BY <1>8 DEF Finish, cmpVars
  <2> QED
    BY <1>1, <2>1 DEF InputInv
<1>9. ASSUME UNCHANGED vars
      PROVE  InputInv'
  BY <1>9 DEF InputInv, SpyOK, FileOK, ClosedOK, CompareOK, TapedButtons, TapedResets,
              vars, spyVars, cmpVars
<1> QED
  BY <1>2, <1>3, <1>4, <1>5, <1>6, <1>7, <1>8, <1>9 DEF Next

(* Replayed for comparison, the console is given at each step exactly the  *)
(* buttons and the reset it was given when the session was recorded:       *)
(* readAll, loadNextButtons and loadNextReset undo what                    *)
(* writeCurrentButtons and writeCurrentReset wrote, although the two kinds *)
(* of runs overlap and share one file. This needs marshal to write only    *)
(* what it is given; with an uninitialised bit set MarshalGarbage.cfg      *)
(* shows the replay go wrong.                                              *)
THEOREM InputsReplayed ==
    NoGarbage /\ SessionsDraw => (Spec => []SameInputs)
<1>1. InputInv => SameInputs
  BY DEF InputInv, SameInputs
<1>2. NoGarbage /\ PixelInv /\ InputInv /\ [Next]_vars => InputInv'
  BY InputNext
<1>3. CASE NoGarbage /\ SessionsDraw
  <2>1. PixelInv /\ InputInv /\ [Next]_vars => InputInv'
    BY <1>2, <1>3
  <2>2. PixelInv /\ [Next]_vars => PixelInv'
    BY <1>3, PixelNext
  <2>3. Spec => []SameInputs
    BY <1>1, <2>1, <2>2, PixelInit, InputInit, PTL DEF Spec
  <2> QED
    BY <2>3
<1> QED
  BY <1>3

(* A pixel compared or shown is the next one recorded.                     *)
LEMMA ReadsBackStep ==
    ASSUME PixelInv, InputInv', [Next]_vars
    PROVE  [compared' > compared =>
                /\ compared' \in DOMAIN pixels
                /\ screenIn'.value = pixels[compared']
                /\ phase' # "error"]_vars
<1> SUFFICES ASSUME compared' > compared
             PROVE  /\ compared' \in DOMAIN pixels
                    /\ screenIn'.value = pixels[compared']
                    /\ phase' # "error"
  OBVIOUS
<1>1. phase' # "error"
  BY DEF InputInv
<1>2. pixels \in Seq(PALETTES) /\ DOMAIN pixels = 1..Len(pixels) /\ compared \in Nat
  BY DEF PixelInv, TapeOK
<1>3. compared' # compared
  BY <1>2
<1>4. PICK palette \in PALETTES : ReplayPixel(palette)
  <2>1. ~UNCHANGED vars
    BY <1>3 DEF vars, cmpVars
  <2>2. ~(\E reset \in BOOLEAN, buttons \in BUTTONS, low \in GARBAGE : RecordStep(reset, buttons, low))
    BY <1>3 DEF RecordStep, cmpVars
  <2>3. ~(\E palette \in PALETTES : RecordPixel(palette))
    BY <1>3 DEF RecordPixel, cmpVars
  <2>4. ~(\E low \in GARBAGE : Close(low))
    BY <1>3 DEF Close, cmpVars
  <2>5. ~StartReplay /\ ~ReplayStep /\ ~Finish
    BY <1>3 DEF StartReplay, StartCompare, StartShow, ReplayStep, Finish, cmpVars
  <2> QED
    BY <2>1, <2>2, <2>3, <2>4, <2>5 DEF Next
<1>5. phase = "replaying" /\ colorPixel(palette)
  BY <1>4 DEF ReplayPixel
<1>6. /\ ~isDone
      /\ screenIn' = read(screenIn)
      /\ isDone' = (screenIn'.value = END)
      /\ compared' = IF isDone' THEN compared ELSE compared + 1
  BY <1>3, <1>5 DEF colorPixel, Compare
<1>7. ReaderOK(screenIn, pixels, compared)
  BY <1>5, <1>6 DEF PixelInv
<1>8. compared' = compared + 1 /\ screenIn'.value # END
  BY <1>3, <1>6
<1>9. /\ compared + 1 \in 1..Len(pixels)
      /\ screenIn'.value = pixels[compared + 1]
  BY <1>2, <1>6, <1>7, <1>8, ReadsPixel
<1> QED
  BY <1>1, <1>2, <1>8, <1>9

(* The nth pixel read from the log is the nth one written, whichever       *)
(* interface reads, and no comparison of a session with its own recording  *)
(* fails: ScreenStream's operator>> undoes its operator<<, and the         *)
(* console, given the same inputs, draws the same pixels.                  *)
THEOREM PixelsReadBack ==
    NoGarbage /\ SessionsDraw => (Spec => ReadsBackPixels)
<1>1. NoGarbage /\ PixelInv /\ InputInv /\ [Next]_vars => InputInv'
  BY InputNext
<1>2. CASE NoGarbage /\ SessionsDraw
  <2>1. PixelInv /\ InputInv /\ [Next]_vars => InputInv'
    BY <1>1, <1>2
  <2>2. PixelInv /\ InputInv' /\ [Next]_vars =>
            [compared' > compared =>
                /\ compared' \in DOMAIN pixels
                /\ screenIn'.value = pixels[compared']
                /\ phase' # "error"]_vars
    BY ReadsBackStep
  <2>3. PixelInv /\ [Next]_vars => PixelInv'
    BY <1>2, PixelNext
  <2>4. Spec => ReadsBackPixels
    BY <2>1, <2>2, <2>3, PixelInit, InputInit, PTL DEF Spec, ReadsBackPixels
  <2> QED
    BY <2>4
<1> QED
  BY <1>2
=============================================================================
