---------------------------- MODULE ReplayProofs ----------------------------
(***************************************************************************)
(* What several of the proofs rest on.  First, induction over data, from   *)
(* the well-foundedness of the numbers: a lemma about sets needs no        *)
(* operator as a parameter.  Then, with it, what the opening of an engine  *)
(* makes of a log, for Console and Experiments.                            *)
(***************************************************************************)
EXTENDS Replay, SequenceTheorems, WellFoundedInduction, TLAPS

\* A non-empty set of natural numbers has a least element.
LEMMA LeastNumber ==
    ASSUME NEW S \in SUBSET Nat, S # {}
    PROVE  \E x \in S : \A y \in S : x <= y
<1>1. PICK x \in S : \A y \in S : ~ (<<y, x>> \in OpToRel(<, Nat))
    <2>1. IsWellFoundedOn(OpToRel(<, Nat), Nat)
        BY NatLessThanWellFounded
    <2> QED
        BY <2>1, WFMin
<1>2. ASSUME NEW y \in S, y < x
      PROVE  <<y, x>> \in OpToRel(<, Nat)
    BY <1>2 DEF OpToRel
<1>3. \A y \in S : ~ (y < x)
    BY <1>1, <1>2
<1> QED
    BY <1>3

\* What holds of 0, and of i + 1 if it does of i, holds up to n.
LEMMA UpTo ==
    ASSUME NEW n \in Nat, NEW S, 0 \in S,
           \A i \in 0 .. n : i \in S /\ i < n => i + 1 \in S
    PROVE  \A i \in 0 .. n : i \in S
<1> SUFFICES ASSUME (0 .. n) \ S # {}
             PROVE  FALSE
    OBVIOUS
<1>1. PICK x \in (0 .. n) \ S : \A y \in (0 .. n) \ S : x <= y
    <2>1. (0 .. n) \ S \in SUBSET Nat
        OBVIOUS
    <2> QED
        BY <2>1, LeastNumber, Zenon
<1>2. x - 1 \in 0 .. n /\ x - 1 < n /\ x - 1 + 1 = x
    BY <1>1
<1>3. x - 1 \in S
    BY <1>1, <1>2
<1> QED
    BY <1>1, <1>2, <1>3

\* g is what step makes of v in n steps.
Computes(g, n, V, v, step) ==
    /\ g \in [0 .. n -> V]
    /\ g[0] = v
    /\ \A i \in 1 .. n : g[i] = step[i][g[i - 1]]

IsComputable(n, V, v, step) == \E g : Computes(g, n, V, v, step)

\* A recursion over the first n numbers defines a function.
LEMMA Recursion ==
    ASSUME NEW n \in Nat, NEW V, NEW v \in V, NEW step \in [1 .. n -> [V -> V]]
    PROVE  IsComputable(n, V, v, step)
<1> DEFINE Upto(m) == {g \in [0 .. n -> V] :
                          /\ g[0] = v
                          /\ \A i \in 1 .. m : g[i] = step[i][g[i - 1]]}
           S == {m \in 0 .. n : Upto(m) # {}}
<1>1. 0 \in S
    <2>1. [i \in 0 .. n |-> v] \in Upto(0)
        OBVIOUS
    <2> QED
        BY <2>1
<1>2. ASSUME NEW m \in 0 .. n, m \in S, m < n
      PROVE  m + 1 \in S
    <2>1. PICK g \in [0 .. n -> V] : g[0] = v /\ \A i \in 1 .. m : g[i] = step[i][g[i - 1]]
        BY <1>2
    <2>2. PICK h : h = [g EXCEPT ![m + 1] = step[m + 1][g[m]]]
        OBVIOUS
    <2>3. m + 1 \in 1 .. n /\ m \in 0 .. n /\ m + 1 \in 0 .. n
        BY <1>2
    <2>4. step[m + 1][g[m]] \in V
        BY <2>1, <2>3
    <2>5. /\ h \in [0 .. n -> V] /\ h[m + 1] = step[m + 1][g[m]]
          /\ \A i \in 0 .. n : i # m + 1 => h[i] = g[i]
        BY <2>1, <2>2, <2>3, <2>4
    <2>6. h[0] = v /\ \A i \in 1 .. (m + 1) : h[i] = step[i][h[i - 1]]
        BY <2>1, <2>3, <2>5
    <2> QED
        BY <2>3, <2>5, <2>6
<1>3. n \in S
    <2> HIDE DEF S
    <2>1. \A i \in 0 .. n : i \in S
        BY <1>1, <1>2, UpTo, Zenon
    <2> QED
        BY <2>1
<1> QED
    BY <1>3 DEF IsComputable, Computes

\* A non-empty set of numbers up to b has a largest.
LEMMA LargestNumber ==
    ASSUME NEW b \in Nat, NEW S \in SUBSET (0 .. b), S # {}
    PROVE  \E x \in S : \A y \in S : x >= y
<1>1. PICK T : T = {d \in 0 .. b : b - d \in S}
    OBVIOUS
<1>2. T \in SUBSET Nat /\ \A y \in S : b - y \in T
    BY <1>1
<1>3. PICK d \in T : \A e \in T : d <= e
    BY <1>2, LeastNumber, Zenon
<1>4. b - d \in S /\ d \in Nat
    BY <1>1, <1>3
<1>5. ASSUME NEW y \in S
      PROVE  b - d >= y
    <2>1. d <= b - y /\ y \in Nat
        BY <1>2, <1>3
    <2> QED
        BY <2>1, <1>4
<1> QED
    BY <1>4, <1>5

\* Max is that.
LEMMA MaxFacts ==
    ASSUME NEW b \in Nat, NEW S \in SUBSET (0 .. b), S # {}
    PROVE  Max(S) \in S /\ \A y \in S : y <= Max(S)
<1>1. PICK x \in S : \A y \in S : x >= y
    BY LargestNumber
<1> QED
    BY <1>1 DEF Max

-----------------------------------------------------------------------------
\* What the recovery of one key's list computes

\* The records and versions of engines whose writers have names from W.
LogRecord(K, W) ==
    [type : {"put", "del", "commit", "torn", "zeros"}, txn_id : Nat,
     commit_ts : Nat, key : K, writer : W, size : Nat \ {0}]

VersionBy(W) ==
    [begin_ts : Nat, end_ts : Nat, writer : W, is_tombstone : BOOLEAN]

VersionOf(r) == NewVersion(r.commit_ts, r.writer, r.type = "del")

\* new has one version more, which is v, and the others but for their ends.
Grown(new, list, v, W) ==
    /\ new \in Seq(VersionBy(W))
    /\ Len(new) = Len(list) + 1
    /\ new[Len(list) + 1] = v
    /\ \A i \in 1 .. Len(list) :
          /\ new[i].begin_ts = list[i].begin_ts
          /\ new[i].writer = list[i].writer

LEMMA InstallFacts ==
    ASSUME NEW W, NEW list \in Seq(VersionBy(W)), NEW v \in VersionBy(W)
    PROVE  Grown(InstallVersion(list, v), list, v, W)
<1> DEFINE closed == CloseOut(list, v.begin_ts)
<1>1. Len(list) \in Nat /\ v.begin_ts \in Nat
    BY LenProperties DEF VersionBy
<1>2. /\ closed \in Seq(VersionBy(W)) /\ Len(closed) = Len(list)
      /\ \A i \in 1 .. Len(list) :
            /\ closed[i].begin_ts = list[i].begin_ts
            /\ closed[i].writer = list[i].writer
    <2>1. CASE list # << >> /\ list[Len(list)].end_ts = 0
        <3>1. Len(list) \in 1 .. Len(list)
            BY <2>1, <1>1, EmptySeq
        <3>2. list[Len(list)] \in VersionBy(W)
            BY <3>1, ElementOfSeq
        <3>3. PICK u : u = [list[Len(list)] EXCEPT !.end_ts = v.begin_ts]
            OBVIOUS
        <3>4. /\ u \in VersionBy(W) /\ u.begin_ts = list[Len(list)].begin_ts
              /\ u.writer = list[Len(list)].writer
            BY <3>2, <3>3, <1>1 DEF VersionBy
        <3>5. closed = [list EXCEPT ![Len(list)] = u]
            BY <2>1, <3>3 DEF CloseOut
        <3> HIDE DEF closed
        <3>6. /\ closed \in Seq(VersionBy(W)) /\ Len(closed) = Len(list)
              /\ \A j \in 1 .. Len(list) :
                    closed[j] = IF j = Len(list) THEN u ELSE list[j]
            BY <3>1, <3>4, <3>5, ExceptSeq
        <3> QED
            BY <3>4, <3>6
    <2>2. CASE ~ (list # << >> /\ list[Len(list)].end_ts = 0)
        BY <2>2 DEF CloseOut
    <2> QED
        BY <2>1, <2>2
<1>3. InstallVersion(list, v) = Append(closed, v)
    BY DEF InstallVersion
<1> HIDE DEF closed
<1>4. /\ Append(closed, v) \in Seq(VersionBy(W))
      /\ Len(Append(closed, v)) = Len(list) + 1
      /\ Append(closed, v)[Len(list) + 1] = v
      /\ \A i \in 1 .. Len(list) : Append(closed, v)[i] = closed[i]
    BY <1>2, AppendProperties
<1> QED
    BY <1>2, <1>3, <1>4 DEF Grown

\* lists are what pass 2 has of key k after each record.
Replays(lists, log, committed, k, W) ==
    /\ lists \in [0 .. Len(log) -> Seq(VersionBy(W))]
    /\ lists[0] = << >>
    /\ \A n \in 1 .. Len(log) :
          lists[n] = IF IsReplayed(log[n], committed, k)
                     THEN InstallVersion(lists[n - 1], VersionOf(log[n]))
                     ELSE lists[n - 1]
    /\ Replayed(log, committed, k) = lists[Len(log)]

LEMMA ReplayIsARecursion ==
    ASSUME NEW K, NEW W, NEW log \in Seq(LogRecord(K, W)), NEW committed, NEW k
    PROVE  \E lists : Replays(lists, log, committed, k, W)
<1> DEFINE V == Seq(VersionBy(W))
           N == 0 .. Len(log)
           Next1(list, n) == IF IsReplayed(log[n], committed, k)
                             THEN InstallVersion(list, VersionOf(log[n]))
                             ELSE list
           step == [n \in 1 .. Len(log) |-> [list \in V |-> Next1(list, n)]]
           Lists(f) == [n \in N |-> IF n = 0 THEN << >>
                          ELSE IF IsReplayed(log[n], committed, k)
                          THEN InstallVersion(f[n - 1], VersionOf(log[n]))
                          ELSE f[n - 1]]
<1>0. Len(log) \in Nat /\ << >> \in V
    BY LenProperties, EmptySeq
<1>1. step \in [1 .. Len(log) -> [V -> V]]
    <2>1. ASSUME NEW n \in 1 .. Len(log), NEW list \in V
          PROVE  Next1(list, n) \in V
        <3>1. log[n] \in LogRecord(K, W)
            BY ElementOfSeq
        <3>2. VersionOf(log[n]) \in VersionBy(W)
            BY <3>1 DEF VersionOf, NewVersion, LogRecord, VersionBy
        <3> QED
            <4>1. Grown(InstallVersion(list, VersionOf(log[n])), list, VersionOf(log[n]), W)
                BY <3>2, InstallFacts
            <4> QED
                BY <4>1 DEF Grown
    <2> QED
        BY <2>1
<1>2. PICK g \in [N -> V] : /\ g[0] = << >>
                            /\ \A n \in 1 .. Len(log) : g[n] = step[n][g[n - 1]]
    <2> HIDE DEF step, V
    <2>1. PICK l, v : l = Len(log) /\ v = << >>
        OBVIOUS
    <2>2. l \in Nat /\ v \in V /\ step \in [1 .. l -> [V -> V]]
        BY <2>1, <1>0, <1>1
    <2>3. IsComputable(l, V, v, step)
        BY <2>2, Recursion
    <2> QED
        BY <2>1, <2>3 DEF IsComputable, Computes
<1>3. \A n \in 1 .. Len(log) : g[n] = Next1(g[n - 1], n)
    <2>1. \A n \in 1 .. Len(log) : n - 1 \in N /\ g[n - 1] \in V
        BY <1>0, <1>2
    <2> QED
        BY <1>2, <2>1
<1>4. g = Lists(g)
    <2>1. \A n \in N : g[n] = Lists(g)[n]
        BY <1>0, <1>2, <1>3
    <2> QED
        BY <2>1, <1>2
<1>5. PICK f : f = (CHOOSE h : h = Lists(h))
    OBVIOUS
<1>6. f = Lists(f)
    BY <1>4, <1>5, Zenon
<1>7. Replayed(log, committed, k) = f[Len(log)]
    BY <1>5, Zenon DEF Replayed, VersionOf
<1>8. \A n \in N : f[n] = g[n]
    <2> DEFINE S == {n \in N : f[n] = g[n]}
    <2>1. 0 \in S
        BY <1>0, <1>2, <1>6
    <2>2. ASSUME NEW n \in N, n \in S, n < Len(log)
          PROVE  n + 1 \in S
        <3>1. n + 1 \in 1 .. Len(log) /\ n + 1 \in N /\ n + 1 - 1 = n /\ n + 1 # 0
            BY <2>2, <1>0
        <3>2. f[n + 1] = Next1(f[n], n + 1)
            BY <1>6, <3>1
        <3>3. g[n + 1] = Next1(g[n], n + 1)
            BY <1>3, <3>1
        <3> QED
            BY <3>1, <3>2, <3>3, <2>2
    <2> HIDE DEF S
    <2>3. \A n \in N : n \in S
        BY <2>1, <2>2, <1>0, UpTo, Zenon
    <2> QED
        BY <2>3 DEF S
<1> QED
    BY <1>0, <1>2, <1>3, <1>7, <1>8, SMTT(30) DEF Replays

\* list is what the recovery of key k has after the first n records of log:
\* versions from records that pass 1 found to be committed, the last of them
\* from the last of these.
Rebuilt(list, log, n, committed, k, W) ==
    /\ list \in Seq(VersionBy(W))
    /\ \A i \in 1 .. Len(list) : \E m \in 1 .. n :
          /\ IsReplayed(log[m], committed, k)
          /\ list[i].begin_ts = log[m].commit_ts
          /\ list[i].writer = log[m].writer
    /\ \/ list = << >> /\ \A m \in 1 .. n : ~ IsReplayed(log[m], committed, k)
       \/ \E m \in 1 .. n :
             /\ IsReplayed(log[m], committed, k)
             /\ \A j \in 1 .. n : j > m => ~ IsReplayed(log[j], committed, k)
             /\ list # << >> /\ list[Len(list)] = VersionOf(log[m])

LEMMA RebuiltStep ==
    ASSUME NEW K, NEW W, NEW log \in Seq(LogRecord(K, W)), NEW committed, NEW k,
           NEW n \in Nat, n < Len(log), NEW list,
           Rebuilt(list, log, n, committed, k, W)
    PROVE  Rebuilt(IF IsReplayed(log[n + 1], committed, k)
                   THEN InstallVersion(list, VersionOf(log[n + 1]))
                   ELSE list,
                   log, n + 1, committed, k, W)
<1>0. Len(log) \in Nat /\ n + 1 \in 1 .. Len(log) /\ 1 .. n \subseteq 1 .. (n + 1)
    BY LenProperties
<1>1. CASE ~ IsReplayed(log[n + 1], committed, k)
    <2>1. \A j \in 1 .. (n + 1) : j \in 1 .. n \/ j = n + 1
        OBVIOUS
    <2> QED
        BY <1>0, <1>1, <2>1 DEF Rebuilt
<1>2. CASE IsReplayed(log[n + 1], committed, k)
    <2>1. log[n + 1] \in LogRecord(K, W)
        BY <1>0, ElementOfSeq
    <2>2. PICK v : v = VersionOf(log[n + 1])
        OBVIOUS
    <2>3. /\ v \in VersionBy(W) /\ v.begin_ts = log[n + 1].commit_ts
          /\ v.writer = log[n + 1].writer
        BY <2>1, <2>2 DEF VersionOf, NewVersion, LogRecord, VersionBy
    <2>4. list \in Seq(VersionBy(W)) /\ Len(list) \in Nat
        BY LenProperties DEF Rebuilt
    <2>5. PICK new : new = InstallVersion(list, v)
        OBVIOUS
    <2>6. /\ new \in Seq(VersionBy(W)) /\ Len(new) = Len(list) + 1
          /\ new[Len(list) + 1] = v
          /\ \A i \in 1 .. Len(list) :
                new[i].begin_ts = list[i].begin_ts /\ new[i].writer = list[i].writer
        <3>1. Grown(new, list, v, W)
            BY <2>3, <2>4, <2>5, InstallFacts
        <3> QED
            BY <3>1 DEF Grown
    <2>7. ASSUME NEW i \in 1 .. Len(new)
          PROVE  \E m \in 1 .. (n + 1) :
                    /\ IsReplayed(log[m], committed, k)
                    /\ new[i].begin_ts = log[m].commit_ts
                    /\ new[i].writer = log[m].writer
        <3>1. CASE i = Len(list) + 1
            <4>1. n + 1 \in 1 .. (n + 1)
                OBVIOUS
            <4> QED
                BY <4>1, <3>1, <1>2, <2>3, <2>6
        <3>2. CASE i # Len(list) + 1
            <4>1. i \in 1 .. Len(list)
                BY <3>2, <2>4, <2>6
            <4> QED
                BY <4>1, <2>6, <1>0 DEF Rebuilt
        <3> QED
            BY <3>1, <3>2
    <2>8. /\ n + 1 \in 1 .. (n + 1)
          /\ \A j \in 1 .. (n + 1) : j > n + 1 => ~ IsReplayed(log[j], committed, k)
          /\ new # << >> /\ new[Len(new)] = v
        <3>1. new # << >>
            BY <2>4, <2>6, EmptySeq
        <3> QED
            BY <3>1, <2>6
    <2>9. Rebuilt(new, log, n + 1, committed, k, W)
        BY <1>2, <2>2, <2>6, <2>7, <2>8 DEF Rebuilt
    <2> QED
        BY <1>2, <2>2, <2>5, <2>9
<1> QED
    BY <1>1, <1>2

LEMMA ReplayedFacts ==
    ASSUME NEW K, NEW W, NEW log \in Seq(LogRecord(K, W)), NEW committed, NEW k
    PROVE  Rebuilt(Replayed(log, committed, k), log, Len(log), committed, k, W)
<1>0. PICK list : Replays(list, log, committed, k, W)
    BY ReplayIsARecursion
<1>1. /\ list \in [0 .. Len(log) -> Seq(VersionBy(W))]
      /\ list[0] = << >>
      /\ \A n \in 1 .. Len(log) :
            list[n] = IF IsReplayed(log[n], committed, k)
                      THEN InstallVersion(list[n - 1], VersionOf(log[n]))
                      ELSE list[n - 1]
      /\ Replayed(log, committed, k) = list[Len(log)]
    BY <1>0 DEF Replays
<1> DEFINE S == {n \in 0 .. Len(log) : Rebuilt(list[n], log, n, committed, k, W)}
<1>2. Len(log) \in Nat
    BY LenProperties
<1>3. 0 \in S
    <2>1. Rebuilt(<< >>, log, 0, committed, k, W)
        BY EmptySeq DEF Rebuilt
    <2> QED
        BY <2>1, <1>1, <1>2
<1>4. ASSUME NEW n \in 0 .. Len(log), n \in S, n < Len(log)
      PROVE  n + 1 \in S
    <2>1. n \in Nat /\ n + 1 \in 1 .. Len(log) /\ n + 1 - 1 = n /\ n + 1 \in 0 .. Len(log)
        BY <1>2, <1>4
    <2>2. list[n + 1] = IF IsReplayed(log[n + 1], committed, k)
                        THEN InstallVersion(list[n], VersionOf(log[n + 1]))
                        ELSE list[n]
        BY <1>1, <2>1
    <2>3. Rebuilt(list[n + 1], log, n + 1, committed, k, W)
        BY <2>1, <2>2, <1>4, RebuiltStep
    <2> QED
        BY <2>1, <2>3
<1>5. Len(log) \in S
    <2> HIDE DEF S
    <2>1. \A n \in 0 .. Len(log) : n \in S
        BY <1>2, <1>3, <1>4, UpTo, Zenon
    <2> QED
        BY <2>1, <1>2
<1> QED
    BY <1>1, <1>5

\* What a get returns, when the last version is the newest and within reach.
LEMMA ReadIsLast ==
    ASSUME NEW W, NEW list \in Seq(VersionBy(W)), list # << >>, NEW ts \in Nat,
           list[Len(list)].end_ts = 0, list[Len(list)].begin_ts <= ts, NEW NotFound
    PROVE  ReadResult(list, Len(list), ts, NotFound)
             = IF list[Len(list)].is_tombstone THEN NotFound ELSE list[Len(list)].writer
<1>1. Len(list) \in Nat /\ Len(list) \in 1 .. Len(list)
    BY EmptySeq, LenProperties
<1>2. PICK places : places = VisibleAt(list, Len(list), ts)
    OBVIOUS
<1>3. Len(list) \in places /\ \A j \in places : j \in 1 .. Len(list)
    BY <1>1, <1>2 DEF VisibleAt, Visible
<1>4. PICK x : x = NewestOf(places)
    OBVIOUS
<1>5. x \in places /\ \A j \in places : j <= x
    BY <1>1, <1>3, <1>4 DEF NewestOf
<1>6. x = Len(list)
    BY <1>1, <1>3, <1>5
<1> QED
    BY <1>2, <1>3, <1>4, <1>6 DEF ReadResult

LEMMA ReadOfNothing ==
    ASSUME NEW ts, NEW NotFound
    PROVE  ReadResult(<< >>, Len(<< >>), ts, NotFound) = NotFound
<1>1. VisibleAt(<< >>, Len(<< >>), ts) = {}
    BY EmptySeq DEF VisibleAt
<1> QED
    BY <1>1 DEF ReadResult

LEMMA IsBounded ==
    ASSUME NEW n \in Nat, NEW f \in [1 .. n -> Nat]
    PROVE  \E b \in Nat : \A i \in 1 .. n : f[i] <= b
<1> DEFINE S == {m \in 0 .. n : \E b \in Nat : \A i \in 1 .. m : f[i] <= b}
<1>1. 0 \in S
    OBVIOUS
<1>2. ASSUME NEW m \in 0 .. n, m \in S, m < n
      PROVE  m + 1 \in S
    <2>1. PICK b \in Nat : \A i \in 1 .. m : f[i] <= b
        BY <1>2
    <2>2. f[m + 1] \in Nat /\ m + 1 \in 0 .. n
        BY <1>2
    <2>3. PICK c \in Nat : b <= c /\ f[m + 1] <= c
        BY <2>2
    <2>4. \A i \in 1 .. (m + 1) : f[i] <= c
        BY <2>1, <2>2, <2>3
    <2> QED
        BY <2>2, <2>4
<1>3. n \in S
    <2> HIDE DEF S
    <2>1. \A i \in 0 .. n : i \in S
        BY <1>1, <1>2, UpTo, Zenon
    <2> QED
        BY <2>1
<1> QED
    BY <1>3

LEMMA PastAllFacts ==
    ASSUME NEW b \in Nat, NEW S \in SUBSET (0 .. b)
    PROVE  PastAll(S) \in Nat \ {0} /\ \A x \in S : x < PastAll(S)
<1>1. PICK T : T = S \cup {0}
    OBVIOUS
<1>2. T \in SUBSET (0 .. b) /\ T # {}
    BY <1>1
<1>3. Max(T) \in T /\ \A y \in T : y <= Max(T)
    BY <1>2, MaxFacts
<1>4. PICK m : m = Max(T)
    OBVIOUS
<1>5. m \in Nat /\ \A y \in S : y <= m
    <2>1. m \in T /\ \A y \in T : y <= m
        BY <1>3, <1>4
    <2> QED
        BY <2>1, <1>1, <1>2
<1>6. PastAll(S) = m + 1
    BY <1>1, <1>4 DEF PastAll
<1> QED
    BY <1>5, <1>6

\* What pass 1 can find in a log: not more than so many.
Maps == {f \in UNION {[D -> Nat] : D \in SUBSET Nat} :
            \E b \in Nat : \A id \in DOMAIN f : id <= b /\ f[id] <= b}

\* Pass 1 finds the ids of the COMMIT records, each with a timestamp that one
\* of them has.
FoundIn(found, log) ==
    /\ \A i \in 1 .. Len(log) :
          log[i].type = "commit" => log[i].txn_id \in DOMAIN found
    /\ \A id \in DOMAIN found :
          \E j \in 1 .. Len(log) : /\ log[j].type = "commit" /\ log[j].txn_id = id
                                   /\ found[id] = log[j].commit_ts

LEMMA CommittedFacts ==
    ASSUME NEW K, NEW W, NEW log \in Seq(LogRecord(K, W))
    PROVE  CommittedTxns(log) \in Maps /\ FoundIn(CommittedTxns(log), log)
<1> DEFINE D == {log[i].txn_id : i \in {j \in 1 .. Len(log) : log[j].type = "commit"}}
<1>0. /\ Len(log) \in Nat
      /\ \A i \in 1 .. Len(log) : log[i].txn_id \in Nat /\ log[i].commit_ts \in Nat
    <2>1. \A i \in 1 .. Len(log) : log[i] \in LogRecord(K, W)
        BY ElementOfSeq
    <2> QED
        BY <2>1, LenProperties DEF LogRecord
<1>1. PICK found : found = CommittedTxns(log)
    OBVIOUS
<1>2. /\ DOMAIN found = D
      /\ \A id \in D : found[id] = log[Max(CommitsOf(log, id))].commit_ts
      /\ found = [id \in D |-> found[id]]
    BY <1>1 DEF CommittedTxns
<1>3. ASSUME NEW id \in D
      PROVE  \E j \in 1 .. Len(log) : /\ log[j].type = "commit" /\ log[j].txn_id = id
                                      /\ found[id] = log[j].commit_ts
    <2>1. PICK S : S = CommitsOf(log, id)
        OBVIOUS
    <2>2. S \in SUBSET (0 .. Len(log)) /\ S # {}
        BY <2>1, <1>0 DEF CommitsOf
    <2>3. Max(S) \in S
        BY <2>2, <1>0, MaxFacts
    <2> QED
        BY <2>1, <2>3, <1>2 DEF CommitsOf
<1>4. \A i \in 1 .. Len(log) : log[i].type = "commit" => log[i].txn_id \in D
    OBVIOUS
<1> HIDE DEF D
<1>5. D \in SUBSET Nat /\ found \in [D -> Nat]
    <2>1. D \in SUBSET Nat
        BY <1>0 DEF D
    <2>2. \A id \in D : found[id] \in Nat
        BY <1>0, <1>3
    <2> QED
        BY <2>1, <2>2, <1>2
<1>6. PICK b \in Nat : \A i \in 1 .. Len(log) : log[i].txn_id <= b
    <2>1. PICK f : f = [i \in 1 .. Len(log) |-> log[i].txn_id]
        OBVIOUS
    <2>2. f \in [1 .. Len(log) -> Nat]
        BY <2>1, <1>0
    <2>3. \E b \in Nat : \A i \in 1 .. Len(log) : f[i] <= b
        BY <2>2, <1>0, IsBounded
    <2> QED
        BY <2>1, <2>3
<1>7. PICK c \in Nat : \A i \in 1 .. Len(log) : log[i].commit_ts <= c
    <2>1. PICK f : f = [i \in 1 .. Len(log) |-> log[i].commit_ts]
        OBVIOUS
    <2>2. f \in [1 .. Len(log) -> Nat]
        BY <2>1, <1>0
    <2>3. \E b1 \in Nat : \A i \in 1 .. Len(log) : f[i] <= b1
        BY <2>2, <1>0, IsBounded
    <2> QED
        BY <2>1, <2>3
<1>8. found \in Maps
    <2>1. PICK d \in Nat : b <= d /\ c <= d
        OBVIOUS
    <2>2. ASSUME NEW id \in D
          PROVE  id <= d /\ found[id] <= d
        <3>1. PICK j \in 1 .. Len(log) : log[j].txn_id = id /\ found[id] = log[j].commit_ts
            BY <1>3
        <3>2. /\ log[j].txn_id <= b /\ log[j].commit_ts <= c
              /\ log[j].txn_id \in Nat /\ log[j].commit_ts \in Nat
            BY <1>0, <1>6, <1>7
        <3> QED
            BY <2>1, <3>1, <3>2
    <2>3. DOMAIN found = D
        BY <1>5
    <2> QED
        BY <2>1, <2>2, <2>3, <1>5 DEF Maps
<1> QED
    BY <1>1, <1>2, <1>3, <1>4, <1>8 DEF FoundIn

-----------------------------------------------------------------------------
\* How much of a log is whole, where it is cut, and what is read of it

LEMMA WholePrefixFacts ==
    ASSUME NEW K, NEW W, NEW log \in Seq(LogRecord(K, W))
    PROVE  /\ WholePrefix(log) \in 0 .. Len(log)
           /\ \A i \in 1 .. WholePrefix(log) : ~ IsTorn(log[i])
           /\ WholePrefix(log) < Len(log) => IsTorn(log[WholePrefix(log) + 1])
<1>0. Len(log) \in Nat
    BY LenProperties
<1>1. PICK S : S = {n \in 0 .. Len(log) : IsUntorn(SubSeq(log, 1, n))}
    OBVIOUS
<1>2. \A n \in 0 .. Len(log) : n \in S <=> \A i \in 1 .. n : ~ IsTorn(log[i])
    <2>1. \A n \in 0 .. Len(log) :
             /\ Len(SubSeq(log, 1, n)) = n
             /\ \A i \in 1 .. n : SubSeq(log, 1, n)[i] = log[i]
        BY <1>0
    <2> QED
        BY <1>1, <2>1 DEF IsUntorn
<1>3. Max(S) \in S /\ \A n \in S : n <= Max(S)
    <2>1. 0 \in 0 .. Len(log) /\ \A i \in 1 .. 0 : ~ IsTorn(log[i])
        BY <1>0
    <2>2. S \in SUBSET (0 .. Len(log)) /\ S # {}
        BY <1>1, <1>2, <2>1
    <2> QED
        BY <2>2, <1>0, MaxFacts
<1>4. PICK m : m = Max(S)
    OBVIOUS
<1>5. m \in 0 .. Len(log) /\ m \in S /\ \A n \in S : n <= m
    BY <1>1, <1>3, <1>4
<1>6. WholePrefix(log) = m
    BY <1>1, <1>4 DEF WholePrefix
<1>7. ASSUME m < Len(log), ~ IsTorn(log[m + 1])
      PROVE  FALSE
    <2>1. m + 1 \in 0 .. Len(log) /\ \A i \in 1 .. (m + 1) : i <= m \/ i = m + 1
        BY <1>0, <1>5, <1>7
    <2>2. \A i \in 1 .. (m + 1) : ~ IsTorn(log[i])
        BY <2>1, <1>2, <1>5, <1>7
    <2>3. m + 1 \in S
        BY <2>1, <2>2, <1>2
    <2> QED
        BY <2>3, <1>5
<1> QED
    BY <1>2, <1>5, <1>6, <1>7

LEMMA UntornIsWhole ==
    ASSUME NEW K, NEW W, NEW log \in Seq(LogRecord(K, W)), IsUntorn(log)
    PROVE  WholePrefix(log) = Len(log)
<1>1. PICK m : m = WholePrefix(log)
    OBVIOUS
<1>2. m \in 0 .. Len(log) /\ (m < Len(log) => IsTorn(log[m + 1])) /\ Len(log) \in Nat
    BY <1>1, WholePrefixFacts, LenProperties
<1>3. m < Len(log) => m + 1 \in 1 .. Len(log)
    BY <1>2
<1> QED
    BY <1>1, <1>2, <1>3 DEF IsUntorn

\* end[n] is where the n-th record of the log ends.
EndsAt(end, log) ==
    /\ end \in [0 .. Len(log) -> Nat]
    /\ end[0] = 0
    /\ \A n \in 1 .. Len(log) : end[n] = end[n - 1] + log[n].size

LEMMA BytesFacts ==
    ASSUME NEW K, NEW W, NEW log \in Seq(LogRecord(K, W))
    PROVE  EndsAt(Total(log), log)
<1> DEFINE N == 0 .. Len(log)
           step == [n \in 1 .. Len(log) |-> [x \in Nat |-> x + log[n].size]]
           End(f) == [n \in N |-> IF n = 0 THEN 0 ELSE f[n - 1] + log[n].size]
<1>0. Len(log) \in Nat /\ \A n \in 1 .. Len(log) : log[n].size \in Nat
    <2>1. \A n \in 1 .. Len(log) : log[n] \in LogRecord(K, W)
        BY ElementOfSeq
    <2> QED
        BY <2>1, LenProperties DEF LogRecord
<1>1. PICK g \in [N -> Nat] : g[0] = 0 /\ \A n \in 1 .. Len(log) : g[n] = step[n][g[n - 1]]
    <2>1. step \in [1 .. Len(log) -> [Nat -> Nat]]
        BY <1>0
    <2> HIDE DEF step
    <2>2. PICK l, v : l = Len(log) /\ v = 0
        OBVIOUS
    <2>3. IsComputable(l, Nat, v, step)
        BY <2>1, <2>2, <1>0, Recursion
    <2> QED
        BY <2>2, <2>3 DEF IsComputable, Computes
<1>2. \A n \in 1 .. Len(log) : g[n] = g[n - 1] + log[n].size
    <2>1. \A n \in 1 .. Len(log) : n - 1 \in 0 .. Len(log)
        BY LenProperties
    <2>2. \A n \in 1 .. Len(log) : g[n - 1] \in Nat
        <3>1. g \in [0 .. Len(log) -> Nat]
            OBVIOUS
        <3> HIDE DEF N, step, End
        <3> QED
            BY <2>1, <3>1
    <2>3. ASSUME NEW n \in 1 .. Len(log)
          PROVE  g[n] = g[n - 1] + log[n].size
        <3>1. step[n] = [x \in Nat |-> x + log[n].size]
            OBVIOUS
        <3>2. g[n - 1] \in Nat /\ g[n] = step[n][g[n - 1]]
            BY <1>1, <2>2
        <3> QED
            BY <3>1, <3>2
    <2> QED
        BY <2>3
<1>3. g = End(g)
    <2>1. \A n \in N : g[n] = End(g)[n]
        BY <1>0, <1>1, <1>2
    <2> QED
        BY <2>1, <1>1
<1>4. PICK f : f = (CHOOSE h : h = End(h))
    OBVIOUS
<1>5. f = End(f)
    BY <1>3, <1>4, Zenon
<1>6. Total(log) = f
    BY <1>4, Zenon DEF Total
<1>7. \A n \in N : f[n] = g[n]
    <2> DEFINE S == {n \in N : f[n] = g[n]}
    <2>1. 0 \in S
        BY <1>0, <1>1, <1>5
    <2>2. ASSUME NEW n \in N, n \in S, n < Len(log)
          PROVE  n + 1 \in S
        <3>1. n + 1 \in 1 .. Len(log) /\ n + 1 \in N /\ n + 1 - 1 = n /\ n + 1 # 0
            BY <2>2, <1>0
        <3>2. f[n + 1] = f[n] + log[n + 1].size
            BY <1>5, <3>1
        <3>3. g[n + 1] = g[n] + log[n + 1].size
            BY <1>2, <3>1
        <3> QED
            BY <3>1, <3>2, <3>3, <2>2
    <2> HIDE DEF S
    <2>3. \A n \in N : n \in S
        BY <2>1, <2>2, <1>0, UpTo, Zenon
    <2> QED
        BY <2>3 DEF S
<1>8. f = g
    BY <1>1, <1>5, <1>7
<1> QED
    BY <1>1, <1>2, <1>6, <1>8 DEF EndsAt

\* Every record takes a byte at least.
LEMMA BytesGrow ==
    ASSUME NEW K, NEW W, NEW log \in Seq(LogRecord(K, W)), NEW end, EndsAt(end, log),
           NEW m \in 0 .. Len(log)
    PROVE  \A n \in 0 .. Len(log) : m < n => end[m] < end[n]
<1> DEFINE S == {n \in 0 .. Len(log) : m < n => end[m] < end[n]}
<1>0. Len(log) \in Nat /\ \A n \in 1 .. Len(log) : log[n].size \in Nat \ {0}
    <2>1. \A n \in 1 .. Len(log) : log[n] \in LogRecord(K, W)
        BY ElementOfSeq
    <2> QED
        BY <2>1, LenProperties DEF LogRecord
<1>1. 0 \in S
    BY <1>0
<1>2. ASSUME NEW n \in 0 .. Len(log), n \in S, n < Len(log)
      PROVE  n + 1 \in S
    <2>1. n + 1 \in 1 .. Len(log) /\ n + 1 - 1 = n
        BY <1>0, <1>2
    <2>2. /\ end[n + 1] = end[n] + log[n + 1].size /\ log[n + 1].size \in Nat \ {0}
          /\ end[n] \in Nat /\ end[m] \in Nat
        <3> HIDE DEF S
        <3>1. PICK p \in 1 .. Len(log) : p = n + 1 /\ p - 1 = n
            BY <2>1
        <3>2. end[p] = end[p - 1] + log[p].size /\ log[p].size \in Nat \ {0}
            BY <1>0 DEF EndsAt
        <3>3. end[n] \in Nat /\ end[m] \in Nat
            BY DEF EndsAt
        <3> QED
            BY <3>1, <3>2, <3>3
    <2>3. m < n + 1 => m < n \/ m = n
        BY <1>0
    <2> QED
        BY <2>1, <2>2, <2>3, <1>2
<1> HIDE DEF S
<1>3. \A n \in 0 .. Len(log) : n \in S
    BY <1>1, <1>2, <1>0, UpTo, Zenon
<1> QED
    BY <1>3 DEF S

\* A log that is cut begins as it did, and damage may follow.
LEMMA CutFacts ==
    ASSUME NEW K, NEW W, NEW log \in Seq(LogRecord(K, W)), NEW v \in Nat,
           NEW none \in K, none \in W
    PROVE  /\ CutAt(log, v, none) \in Seq(LogRecord(K, W))
           /\ \A i \in 1 .. Len(CutAt(log, v, none)) :
                 \/ i <= Len(log) /\ CutAt(log, v, none)[i] = log[i]
                 \/ IsTorn(CutAt(log, v, none)[i])
<1>0. Len(log) \in Nat
    BY LenProperties
<1>1. PICK end : end = Total(log)
    OBVIOUS
<1>2. EndsAt(end, log)
    BY <1>1, BytesFacts
<1>3. PICK S : S = {m \in 0 .. Len(log) : end[m] <= v}
    OBVIOUS
<1>4. PICK n : n = Max(S)
    OBVIOUS
<1>5. n \in 0 .. Len(log) /\ end[n] <= v
    <2>1. S \in SUBSET (0 .. Len(log)) /\ 0 \in S
        BY <1>0, <1>2, <1>3 DEF EndsAt
    <2>2. n \in S
        BY <2>1, <1>0, <1>4, MaxFacts
    <2> QED
        BY <2>2, <1>3
<1>6. PICK front : front = SubSeq(log, 1, n)
    OBVIOUS
<1>7. /\ front \in Seq(LogRecord(K, W)) /\ Len(front) = n
      /\ \A i \in 1 .. n : front[i] = log[i]
    BY <1>0, <1>5, <1>6
<1>8. PICK left : left = IF n = Len(log) \/ log[n + 1].type = "zeros" THEN "zeros" ELSE "torn"
    OBVIOUS
<1>9. PICK r : r = Damage(left, v - end[n], none)
    OBVIOUS
<1>10. CutAt(log, v, none) = IF end[n] = v THEN front ELSE Append(front, r)
    BY <1>1, <1>3, <1>4, <1>6, <1>8, <1>9 DEF CutAt
<1>11. CASE end[n] = v
    BY <1>0, <1>5, <1>7, <1>10, <1>11
<1>12. CASE end[n] # v
    <2>1. left \in {"torn", "zeros"} /\ v - end[n] \in Nat \ {0}
        <3>1. end[n] \in Nat
            BY <1>2, <1>5 DEF EndsAt
        <3> QED
            BY <3>1, <1>5, <1>8, <1>12
    <2>2. r \in LogRecord(K, W) /\ IsTorn(r)
        BY <2>1, <1>9 DEF Damage, Record, LogRecord, IsTorn
    <2>3. PICK new : new = Append(front, r)
        OBVIOUS
    <2>4. /\ new \in Seq(LogRecord(K, W)) /\ Len(new) = n + 1 /\ new[n + 1] = r
          /\ \A i \in 1 .. n : new[i] = front[i]
        BY <2>2, <2>3, <1>7, AppendProperties
    <2>5. \A i \in 1 .. (n + 1) : i \in 1 .. n \/ i = n + 1
        BY <1>0, <1>5
    <2>6. CutAt(log, v, none) = new
        BY <2>3, <1>10, <1>12
    <2> QED
        BY <2>2, <2>4, <2>5, <2>6, <1>0, <1>5, <1>7
<1> QED
    BY <1>11, <1>12

\* Where a record ends no part of one is left.
LEMMA CutBehind ==
    ASSUME NEW K, NEW W, NEW log \in Seq(LogRecord(K, W)), NEW m \in 0 .. Len(log),
           NEW none
    PROVE  /\ Total(log)[m] \in Nat
           /\ CutAt(log, Total(log)[m], none) = SubSeq(log, 1, m)
<1>0. Len(log) \in Nat
    BY LenProperties
<1>1. PICK end : end = Total(log)
    OBVIOUS
<1>2. EndsAt(end, log)
    BY <1>1, BytesFacts
<1>3. PICK S : S = {n \in 0 .. Len(log) : end[n] <= end[m]}
    OBVIOUS
<1>4. \A n \in S : n <= m
    <2>1. \A n \in 0 .. Len(log) : m < n => end[m] < end[n]
        BY <1>2, BytesGrow
    <2>2. \A n \in 0 .. Len(log) : end[n] \in Nat
        BY <1>2 DEF EndsAt
    <2> QED
        BY <2>1, <2>2, <1>0, <1>3
<1>5. m \in S
    <2>1. end[m] \in Nat
        BY <1>2 DEF EndsAt
    <2> QED
        BY <2>1, <1>3
<1>6. PICK n : n = Max(S)
    OBVIOUS
<1>7. n = m
    <2>1. S \in SUBSET (0 .. Len(log))
        BY <1>3
    <2>2. n \in S /\ m <= n
        BY <2>1, <1>0, <1>5, <1>6, MaxFacts
    <2> QED
        BY <2>1, <2>2, <1>0, <1>4
<1>8. CutAt(log, end[m], none) = SubSeq(log, 1, m)
    BY <1>1, <1>3, <1>6, <1>7 DEF CutAt
<1> QED
    BY <1>1, <1>2, <1>8 DEF EndsAt

LEMMA SeqOfIsSeq ==
    ASSUME NEW S, NEW n \in Nat, NEW q \in SeqOf(S, n)
    PROVE  q \in Seq(S)
BY SeqDef DEF SeqOf

\* What may be read of a log: whole records of it, and garbage.
IsReadOf(read, log, garbage) ==
    \A i \in 1 .. Len(read) :
        /\ ~ IsTorn(read[i])
        /\ \/ \E j \in 1 .. Len(log) : read[i] = log[j]
           \/ read[i] \in garbage

LEMMA ReadingsFacts ==
    ASSUME NEW K, NEW W, NEW log \in Seq(LogRecord(K, W)),
           NEW garbage \in SUBSET LogRecord(K, W), \A r \in garbage : ~ IsTorn(r),
           NEW most \in Nat, NEW read \in Readings(log, garbage, most)
    PROVE  /\ read \in Seq(LogRecord(K, W))
           /\ IsReadOf(read, log, garbage)
<1> DEFINE Good == {r \in LogRecord(K, W) :
                      /\ ~ IsTorn(r)
                      /\ (\E j \in 1 .. Len(log) : r = log[j]) \/ r \in garbage}
<1>0. Len(log) \in Nat /\ \A i \in 1 .. Len(log) : log[i] \in LogRecord(K, W)
    BY LenProperties, ElementOfSeq
<1>1. PICK n : n = WholePrefix(log)
    OBVIOUS
<1>2. n \in 0 .. Len(log) /\ \A i \in 1 .. n : ~ IsTorn(log[i])
    BY <1>1, WholePrefixFacts
<1>3. PICK rest : rest = Rest(log)
    OBVIOUS
<1>4. /\ DOMAIN rest = 1 .. Len(rest)
      /\ \A i \in 1 .. Len(rest) : \E j \in 1 .. Len(log) : rest[i] = log[j]
    <2>1. rest = SubSeq(log, n + 1, Len(log))
        BY <1>1, <1>3 DEF Rest
    <2>2. /\ rest \in Seq(LogRecord(K, W)) /\ Len(rest) = Len(log) - n
          /\ \A i \in 1 .. (Len(log) - n) : rest[i] = log[n + i]
        BY <2>1, <1>0, <1>2
    <2> QED
        BY <2>2, <1>0, <1>2, LenProperties
<1>5. PICK t \in ReadBehind(rest, garbage, most) : read = SubSeq(log, 1, n) \o t
    BY <1>1, <1>3 DEF Readings
<1>6. t \in Seq(Good)
    <2>1. CASE t = << >>
        BY <2>1, EmptySeq
    <2>2. CASE t \in SeqOf({r \in Range(rest) : ~ IsTorn(r)} \cup garbage, most)
        <3>1. PICK S : S = {r \in Range(rest) : ~ IsTorn(r)} \cup garbage
            OBVIOUS
        <3>2. t \in Seq(S)
            BY <2>2, <3>1, SeqOfIsSeq
        <3>3. S \subseteq Good
            BY <3>1, <1>0, <1>4 DEF Range
        <3> QED
            BY <3>2, <3>3, SeqMonotonic
    <2> QED
        BY <2>1, <2>2, <1>5 DEF ReadBehind
<1>7. SubSeq(log, 1, n) \in Seq(Good)
    <2>1. PICK front : front = SubSeq(log, 1, n)
        OBVIOUS
    <2>2. /\ front \in Seq(LogRecord(K, W)) /\ Len(front) = n
          /\ \A i \in 1 .. n : front[i] = log[i]
        BY <2>1, <1>0, <1>2
    <2>3. \A i \in 1 .. Len(front) : front[i] \in Good
        BY <2>2, <1>0, <1>2
    <2> HIDE DEF Good
    <2>4. front \in [1 .. n -> Good] /\ n \in Nat
        BY <2>2, <2>3, <1>0, <1>2, LenProperties
    <2>5. [1 .. n -> Good] \subseteq Seq(Good)
        BY <2>4, SeqDef
    <2> QED
        BY <2>1, <2>4, <2>5
<1>8. read \in Seq(Good)
    <2> HIDE DEF Good
    <2> QED
        BY <1>5, <1>6, <1>7, ConcatProperties
<1>9. \A i \in 1 .. Len(read) : read[i] \in Good
    <2> HIDE DEF Good
    <2> QED
        BY <1>8, ElementOfSeq
<1>10. Good \subseteq LogRecord(K, W)
    OBVIOUS
<1>11. read \in Seq(LogRecord(K, W))
    <2> HIDE DEF Good
    <2> QED
        BY <1>8, <1>10, SeqMonotonic
<1> QED
    BY <1>9, <1>11 DEF IsReadOf

\* A whole log is read as it is, and nothing raises.
LEMMA UntornIsReadAsItIs ==
    ASSUME NEW K, NEW W, NEW log \in Seq(LogRecord(K, W)), IsUntorn(log),
           NEW garbage, NEW most
    PROVE  Readings(log, garbage, most) = {log} /\ OnlyZeros(Rest(log))
<1>0. Len(log) \in Nat
    BY LenProperties
<1>1. WholePrefix(log) = Len(log)
    BY UntornIsWhole
<1>2. PICK rest : rest = Rest(log)
    OBVIOUS
<1>3. Len(rest) = 0 /\ SubSeq(log, 1, Len(log)) = log
    <2>1. rest = SubSeq(log, Len(log) + 1, Len(log))
        BY <1>1, <1>2 DEF Rest
    <2> QED
        BY <2>1, <1>0, SubSeqFull
<1>4. OnlyZeros(rest)
    BY <1>3 DEF OnlyZeros
<1>5. log \o << >> = log
    BY ConcatEmptySeq
<1>6. ReadBehind(rest, garbage, most) = {<< >>}
    BY <1>4 DEF ReadBehind
<1>7. Readings(log, garbage, most) = {log \o << >>}
    BY <1>1, <1>2, <1>3, <1>6 DEF Readings
<1> QED
    BY <1>2, <1>4, <1>5, <1>7
=============================================================================
