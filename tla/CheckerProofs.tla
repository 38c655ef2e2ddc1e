---------------------------- MODULE CheckerProofs ----------------------------
(***************************************************************************)
(* What the checker's verdicts are worth, for histories of any length, of  *)
(* any number of transactions and keys and with any number of flaws.       *)
(***************************************************************************)
EXTENDS CheckerProperties, ReplayProofs

-----------------------------------------------------------------------------
\* The inductive invariant: what the history says of the store.

Event ==
    [type : {"Begin"}, txn : Txn, start_ts : Nat]
    \cup [type : {"Read", "Write"}, txn : Txn, key : Key,
          value : Txn \cup {None}]
    \cup [type : {"Commit"}, txn : Txn, commit_ts : Nat]
    \cup [type : {"Abort"}, txn : Txn]
    \cup [type : {"Crash"}]
    \cup [type : {"Recovered"}, key : Key, value : Txn \cup {None}]

TypeOK ==
    /\ history \in Seq(Event)
    /\ state \in [Txn -> {"UNBORN", "ACTIVE", "COMMITTED", "ABORTED", "LOST"}]
    /\ start_ts \in [Txn -> Nat]
    /\ write_set \in [Txn -> [Key -> {"none", "put", "del"}]]
    /\ commits \in Seq([txn : Txn, ts : Nat])
    /\ next_ts = Len(commits) + 1
    /\ unlisted \in SUBSET Key
    /\ unheard \in SUBSET Txn

\* A transaction has begun if its BEGIN is in the history.
BeginsTold ==
    /\ \A i \in Places(history, "Begin") :
          /\ state[history[i].txn] # "UNBORN"
          /\ history[i].start_ts = start_ts[history[i].txn]
    /\ \A t \in Txn : state[t] # "UNBORN" => HasBegun(history, t)
    /\ \A t \in Txn : start_ts[t] <= Len(commits)

\* The timestamp of a commit is its place among the commits ...
CommitsCounted ==
    /\ \A j \in 1 .. Len(commits) :
          /\ commits[j].ts = j
          /\ state[commits[j].txn] =
                IF commits[j].txn \in unheard THEN "LOST" ELSE "COMMITTED"
    /\ \A i, j \in 1 .. Len(commits) :
          commits[i].txn = commits[j].txn => i = j

\* ... and the history has it, if its caller heard of it.
CommitsTold ==
    /\ \A i \in Places(history, "Commit") :
          /\ history[i].commit_ts \in 1 .. Len(commits)
          /\ commits[history[i].commit_ts].txn = history[i].txn
          /\ history[i].txn \notin unheard
    /\ \A j \in 1 .. Len(commits) :
          commits[j].txn \notin unheard => HasCommitted(history, commits[j].txn)

\* Who is active began after the commit that nobody heard of.
UnheardIsOld ==
    \A j \in 1 .. Len(commits), t \in Txn :
        commits[j].txn \in unheard /\ state[t] = "ACTIVE" => j <= start_ts[t]

\* Every change is in the history, with its value.
WriteTold(i) ==
    LET t == history[i].txn
        k == history[i].key
    IN  write_set[t][k] # "none" /\ history[i].value = ResultOf(t, k)

WritesTold ==
    /\ \A i \in Places(history, "Write") : WriteTold(i)
    /\ \A t \in Txn, k \in Key : write_set[t][k] # "none" =>
          /\ WritesOf(history, t, k) # {}
          /\ state[t] # "UNBORN"

\* What the read at place i should have returned, by the store's own data.
OwnBefore(i) ==
    {j \in WritesOf(history, history[i].txn, history[i].key) : j < i}

Right(i) ==
    IF OwnBefore(i) # {} THEN ResultOf(history[i].txn, history[i].key)
    ELSE Value(history[i].key, start_ts[history[i].txn])

ReadsTold ==
    /\ \A i \in Places(history, "Read") : state[history[i].txn] # "UNBORN"
    /\ "misread" \in flaws <=>
          \E i \in Places(history, "Read") : history[i].value # Right(i)

\* Commit i wrote k.
Wrote(i, k) == write_set[commits[i].txn][k] # "none"

\* Commit j of k went over commit i, which its transaction had not seen.
Overwritten(i, j, k) ==
    i < j /\ Wrote(i, k) /\ Wrote(j, k) /\ i > start_ts[commits[j].txn]

ConflictsTold ==
    IF "conflict" \in flaws
    THEN \E i, j \in 1 .. Len(commits), k \in Key :
            /\ Overwritten(i, j, k)
            /\ {commits[i].txn, commits[j].txn} \cap unheard = {}
    ELSE \A i, j \in 1 .. Len(commits), k \in Key : ~ Overwritten(i, j, k)

\* The key of the recovered value at i lost a write, or shows one that was
\* not committed.  c is the place of the crash, n the commits before it.
LostAt(i, n) ==
    /\ history[i].value # Value(history[i].key, n)
    /\ Versions(history[i].key, n) # {}

GhostAt(i, c, n) ==
    LET v == history[i].value
        k == history[i].key
    IN  /\ v \in Txn /\ v # Value(k, n)
        /\ write_set[v][k] = "put"
        /\ \E j \in WritesOf(history, v, k) : j < c
        /\ \E j \in Places(history, "Begin") : j < c /\ history[j].txn = v

\* What the history up to the crash says of it.
CrashTold(c, n) ==
    /\ Places(history, "Crash") = {c}
    /\ \A i \in Places(history, "Commit") : i < c <=> history[i].commit_ts <= n
    /\ \A i \in Places(history, "Write") :
          i > c => \A j \in 1 .. n : commits[j].txn # history[i].txn
    /\ \A t \in unheard : n > 0 /\ commits[n].txn = t

\* Until every key is listed nothing else happens.
Resting(c, n) ==
    Recovering =>
        /\ Len(commits) = n
        /\ \A t \in Txn : state[t] # "ACTIVE"
        /\ \A i \in Places(history, "Begin") \cup Places(history, "Write") : i < c

\* Every key that is no longer unlisted has one recovered value.
RecoveryTold(c) ==
    /\ \A i \in Places(history, "Recovered") :
          i > c /\ history[i].key \notin unlisted
    /\ \A k \in Key \ unlisted :
          \E i \in Places(history, "Recovered") : history[i].key = k
    /\ \A i, j \in Places(history, "Recovered") :
          history[i].key = history[j].key => i = j

RecoveryFlaws(c, n) ==
    /\ {"lost", "ghost"} \cap flaws = {} =>
          \A i \in Places(history, "Recovered") :
              history[i].value = Value(history[i].key, n)
    /\ "lost" \in flaws =>
          \E i \in Places(history, "Recovered") : LostAt(i, n)
    /\ "ghost" \in flaws =>
          \E i \in Places(history, "Recovered") : GhostAt(i, c, n)

AfterCrash(c, n) ==
    /\ CrashTold(c, n)
    /\ Resting(c, n)
    /\ RecoveryTold(c)
    /\ RecoveryFlaws(c, n)

NothingRecovered ==
    /\ unlisted = {} /\ unheard = {}
    /\ Places(history, "Recovered") = {}
    /\ {"lost", "ghost"} \cap flaws = {}

CrashesTold ==
    IF Crashed(history)
    THEN \E c \in 1 .. Len(history), n \in 0 .. Len(commits) : AfterCrash(c, n)
    ELSE NothingRecovered

StoreTold ==
    /\ TypeOK
    /\ BeginsTold
    /\ CommitsCounted
    /\ CommitsTold
    /\ UnheardIsOld
    /\ WritesTold
    /\ ReadsTold
    /\ ConflictsTold
    /\ CrashesTold

-----------------------------------------------------------------------------
\* A history with one event more.

\* g is h and e.
OneMore(h, g, e) ==
    /\ Len(h) \in Nat /\ Len(g) = Len(h) + 1
    /\ g[Len(h) + 1] = e
    /\ \A i \in 1 .. Len(h) : g[i] = h[i]

\* The history of the next state is that.
LEMMA RecordFacts ==
    ASSUME TypeOK, NEW e, Note(e)
    PROVE  OneMore(history, history', e) /\ (e \in Event => history' \in Seq(Event))
BY DEF Note, TypeOK, OneMore

\* The places of a type of event in it: the old ones, and perhaps its last.
LEMMA PlacesOfOneMore ==
    ASSUME NEW h, NEW g, NEW e, OneMore(h, g, e), NEW type
    PROVE  /\ Places(g, type) = IF e.type = type
                                THEN Places(h, type) \cup {Len(h) + 1}
                                ELSE Places(h, type)
           /\ \A i \in Places(h, type) : i \in 1 .. Len(h) /\ g[i] = h[i]
           /\ g[Len(h) + 1] = e
BY DEF OneMore, Places

\* What the events of a type have.
LEMMA EventFacts ==
    ASSUME TypeOK
    PROVE  /\ \A i \in Places(history, "Begin") :
                 history[i].txn \in Txn /\ history[i].start_ts \in Nat
           /\ \A i \in Places(history, "Read") \cup Places(history, "Write") :
                 /\ history[i].txn \in Txn /\ history[i].key \in Key
                 /\ history[i].value \in Txn \cup {None}
           /\ \A i \in Places(history, "Commit") :
                 history[i].txn \in Txn /\ history[i].commit_ts \in Nat
           /\ \A i \in Places(history, "Recovered") :
                 /\ history[i].key \in Key
                 /\ history[i].value \in Txn \cup {None}
<1>1. \A i \in 1 .. Len(history) : history[i] \in Event
    BY DEF TypeOK
<1> QED
    BY <1>1 DEF Places, Event

-----------------------------------------------------------------------------
\* What a key has at a time.

\* Commits are of transactions.
LEMMA CommitTypes ==
    ASSUME TypeOK
    PROVE  Len(commits) \in Nat /\ \A j \in 1 .. Len(commits) : commits[j].txn \in Txn
<1>1. commits \in Seq([txn : Txn, ts : Nat])
    BY DEF TypeOK
<1>2. ASSUME NEW j \in 1 .. Len(commits)
      PROVE  commits[j] \in [txn : Txn, ts : Nat]
    BY <1>1, ElementOfSeq, Zenon
<1> QED
    BY <1>1, <1>2

\* The last of the versions up to a timestamp, and its value.
LEMMA ValueFacts ==
    ASSUME TypeOK, NEW k \in Key, NEW ts, Versions(k, ts) # {}
    PROVE  \E j \in Versions(k, ts) :
              /\ \A i \in Versions(k, ts) : i <= j
              /\ Value(k, ts) = ResultOf(commits[j].txn, k)
<1>1. Len(commits) \in Nat
    BY DEF TypeOK
<1>2. Versions(k, ts) \subseteq 0 .. Len(commits)
    BY <1>1 DEF Versions
<1>3. /\ Max(Versions(k, ts)) \in Versions(k, ts)
      /\ \A i \in Versions(k, ts) : i <= Max(Versions(k, ts))
    BY <1>1, <1>2, MaxFacts
<1> QED
    BY <1>3 DEF Value

\* It is a transaction, or None.
LEMMA ValueType ==
    ASSUME TypeOK, NEW k \in Key, NEW ts
    PROVE  Value(k, ts) \in Txn \cup {None}
<1>1. CASE Versions(k, ts) = {}
    BY <1>1 DEF Value
<1>2. CASE Versions(k, ts) # {}
    <2>1. PICK j \in Versions(k, ts) : Value(k, ts) = ResultOf(commits[j].txn, k)
        BY <1>2, ValueFacts
    <2>2. commits[j].txn \in Txn
        <3>1. j \in 1 .. Len(commits)
            BY DEF Versions
        <3> QED
            BY <3>1, CommitTypes
    <2> QED
        BY <2>1, <2>2 DEF ResultOf
<1> QED
    BY <1>1, <1>2

\* So is the answer of a get.
LEMMA AnswerType ==
    ASSUME TypeOK, NEW t \in Txn, NEW k \in Key
    PROVE  Answer(t, k) \in Txn \cup {None}
<1>1. Value(k, start_ts[t]) \in Txn \cup {None}
    BY ValueType
<1> QED
    BY <1>1 DEF Answer, ResultOf

-----------------------------------------------------------------------------
\* What no step undoes.

\* The commits so far, with what they wrote and what they could see.
Forward ==
    /\ \E e : OneMore(history, history', e)
    /\ Len(commits) <= Len(commits')
    /\ \A j \in 1 .. Len(commits) :
          /\ commits'[j] = commits[j]
          /\ write_set'[commits[j].txn] = write_set[commits[j].txn]
    /\ \A t \in Txn, k \in Key :
          write_set[t][k] # "none" => write_set'[t][k] = write_set[t][k]
    /\ \A t \in Txn : state[t] # "UNBORN" =>
          state'[t] # "UNBORN" /\ start_ts'[t] = start_ts[t]

\* The types of the new state.
LEMMA TypeStep ==
    ASSUME TypeOK, Next
    PROVE  TypeOK'
<1>1. ASSUME NEW t \in Txn, BeginTxn(t)
      PROVE  TypeOK'
    <2>1. next_ts - 1 \in Nat /\ Begin(t, next_ts - 1) \in Event
        BY DEF TypeOK, Event, Begin
    <2>2. history' \in Seq(Event)
        BY <1>1, <2>1, RecordFacts DEF BeginTxn
    <2> QED
        BY <1>1, <2>1, <2>2 DEF BeginTxn, TypeOK
<1>2. ASSUME NEW t \in Txn, CommitTxn(t)
      PROVE  TypeOK'
    <2>1. Commit(t, next_ts) \in Event
        BY DEF TypeOK, Event, Commit
    <2>2. history' \in Seq(Event)
        BY <1>2, <2>1, RecordFacts DEF CommitTxn
    <2> QED
        BY <1>2, <2>2 DEF CommitTxn, TypeOK
<1>3. ASSUME NEW t \in Txn, AbortTxn(t)
      PROVE  TypeOK'
    <2>1. Abort(t) \in Event
        BY DEF Event, Abort
    <2>2. history' \in Seq(Event)
        BY <1>3, <2>1, RecordFacts DEF AbortTxn
    <2> QED
        BY <1>3, <2>2 DEF AbortTxn, TypeOK
<1>4. ASSUME NEW t \in Txn, NEW k \in Key, Get(t, k)
      PROVE  TypeOK'
    <2>1. Answer(t, k) \in Txn \cup {None}
        BY AnswerType
    <2>2. Read(t, k, Answer(t, k)) \in Event
        BY <2>1 DEF Event, Read
    <2>3. history' \in Seq(Event)
        BY <1>4, <2>2, RecordFacts DEF Get
    <2> QED
        BY <1>4, <2>3 DEF Get, TypeOK
<1>5. ASSUME NEW t \in Txn, NEW k \in Key, Misread(t, k)
      PROVE  TypeOK'
    <2>1. PICK v \in Rumoured(k) : Note(Read(t, k, v))
        BY <1>5 DEF Misread
    <2>2. Read(t, k, v) \in Event
        BY DEF Event, Read, Rumoured
    <2>3. history' \in Seq(Event)
        BY <2>1, <2>2, RecordFacts
    <2> QED
        BY <1>5, <2>3 DEF Misread, TypeOK
<1>6. ASSUME NEW t \in Txn, NEW k \in Key, NEW op \in {"put", "del"},
             Change(t, k, op)
      PROVE  TypeOK'
    <2>1. Write(t, k, IF op = "put" THEN t ELSE None) \in Event
        BY DEF Event, Write
    <2>2. history' \in Seq(Event)
        BY <1>6, <2>1, RecordFacts DEF Change
    <2> QED
        BY <1>6, <2>2 DEF Change, TypeOK
<1>7. ASSUME ProcessCrash
      PROVE  TypeOK'
    <2>1. Crash \in Event
        BY DEF Event, Crash
    <2>2. history' \in Seq(Event)
        BY <1>7, <2>1, RecordFacts DEF ProcessCrash
    <2>3. /\ commits' \in Seq([txn : Txn, ts : Nat])
          /\ next_ts' = Len(commits') + 1
          /\ unheard' \in SUBSET Txn
        <3>1. CASE UNCHANGED <<commits, next_ts, unheard>>
            BY <3>1 DEF TypeOK
        <3>2. CASE ~ UNCHANGED <<commits, next_ts, unheard>>
            <4>1. PICK t \in Txn : /\ commits' = Append(commits, [txn |-> t, ts |-> next_ts])
                                   /\ next_ts' = next_ts + 1
                                   /\ unheard' = {t}
                BY <1>7, <3>2 DEF ProcessCrash
            <4> QED
                BY <4>1 DEF TypeOK
        <3> QED
            BY <3>1, <3>2
    <2>4. state' \in [Txn -> {"UNBORN", "ACTIVE", "COMMITTED", "ABORTED", "LOST"}]
        BY <1>7 DEF ProcessCrash, TypeOK
    <2>5. /\ start_ts' = start_ts /\ write_set' = write_set
          /\ unlisted' \in SUBSET Key
        BY <1>7 DEF ProcessCrash
    <2> QED
        BY <2>2, <2>3, <2>4, <2>5 DEF TypeOK
<1>8. ASSUME NEW k \in Key, Recover(k)
      PROVE  TypeOK'
    <2>1. PICK v \in Txn \cup {None} : Note(Recovered(k, v))
        <3>1. next_ts \in Nat
            BY DEF TypeOK
        <3>2. Value(k, next_ts) \in Txn \cup {None}
            BY <3>1, ValueType
        <3> QED
            BY <1>8, <3>2 DEF Recover, Rumoured
    <2>2. Recovered(k, v) \in Event
        BY DEF Event, Recovered
    <2>3. history' \in Seq(Event)
        BY <2>1, <2>2, RecordFacts
    <2> QED
        BY <1>8, <2>3 DEF Recover, TypeOK
<1> QED
    BY <1>1, <1>2, <1>3, <1>4, <1>5, <1>6, <1>7, <1>8 DEF Next

\* What each action adds to the history, and to the flaws.
Begins(e) == \E t \in Txn : BeginTxn(t) /\ e = Begin(t, next_ts - 1)

Commits(e) == \E t \in Txn : CommitTxn(t) /\ e = Commit(t, next_ts)

Aborts(e) == \E t \in Txn : AbortTxn(t) /\ e = Abort(t)

Reads(e) ==
    \E t \in Txn, k \in Key, v \in Txn \cup {None} :
        /\ Get(t, k) \/ Misread(t, k)
        /\ e = Read(t, k, v)
        /\ flaws' = IF v = Answer(t, k) THEN flaws ELSE flaws \cup {"misread"}

Writes(e) ==
    \E t \in Txn, k \in Key, op \in {"put", "del"} :
        Change(t, k, op) /\ e = Write(t, k, IF op = "put" THEN t ELSE None)

Crashes(e) == ProcessCrash /\ e = Crash

Recovers(e) ==
    \E k \in Key, v \in Txn \cup {None} :
        /\ Recover(k)
        /\ e = Recovered(k, v)
        /\ IF v = Value(k, next_ts)
           THEN flaws' = flaws
           ELSE /\ v \in Rumoured(k)
                /\ flaws' = flaws \cup
                      {IF v = None \/ IsCommitted(v) THEN "lost" ELSE "ghost"}

Does(e) ==
    \/ Begins(e) \/ Commits(e) \/ Aborts(e) \/ Reads(e) \/ Writes(e)
    \/ Crashes(e) \/ Recovers(e)

\* Every step does one of these things.
LEMMA StepDoes ==
    ASSUME TypeOK, Next
    PROVE  \E e : OneMore(history, history', e) /\ Does(e)
<1>1. ASSUME NEW e, Note(e), Does(e)
      PROVE  \E f : OneMore(history, history', f) /\ Does(f)
    <2>1. OneMore(history, history', e)
        BY <1>1, RecordFacts
    <2> QED
        BY <1>1, <2>1
<1>2. ASSUME NEW t \in Txn, BeginTxn(t)
      PROVE  Note(Begin(t, next_ts - 1)) /\ Begins(Begin(t, next_ts - 1))
    <2>1. Note(Begin(t, next_ts - 1))
        BY <1>2 DEF BeginTxn
    <2> QED
        BY <1>2, <2>1 DEF Begins
<1>3. ASSUME NEW t \in Txn, CommitTxn(t)
      PROVE  Note(Commit(t, next_ts)) /\ Commits(Commit(t, next_ts))
    <2>1. Note(Commit(t, next_ts))
        BY <1>3 DEF CommitTxn
    <2> QED
        BY <1>3, <2>1 DEF Commits
<1>4. ASSUME NEW t \in Txn, AbortTxn(t)
      PROVE  Note(Abort(t)) /\ Aborts(Abort(t))
    <2>1. Note(Abort(t))
        BY <1>4 DEF AbortTxn
    <2> QED
        BY <1>4, <2>1 DEF Aborts
<1>5. ASSUME NEW t \in Txn, NEW k \in Key, Get(t, k) \/ Misread(t, k)
      PROVE  \E v \in Txn \cup {None} :
                Note(Read(t, k, v)) /\ Reads(Read(t, k, v))
    <2>1. Answer(t, k) \in Txn \cup {None} /\ Rumoured(k) \subseteq Txn \cup {None}
        BY AnswerType DEF Rumoured
    <2>2. PICK v \in Txn \cup {None} :
              /\ Note(Read(t, k, v))
              /\ flaws' = IF v = Answer(t, k) THEN flaws ELSE flaws \cup {"misread"}
        <3>1. CASE Get(t, k)
            <4>1. Note(Read(t, k, Answer(t, k))) /\ flaws' = flaws
                BY <3>1 DEF Get
            <4> QED
                BY <2>1, <4>1
        <3>2. CASE Misread(t, k)
            <4>1. PICK v \in Rumoured(k) \ {Answer(t, k)} : Note(Read(t, k, v))
                BY <3>2 DEF Misread
            <4>2. flaws' = flaws \cup {"misread"}
                BY <3>2 DEF Misread, HasFlaw
            <4> QED
                BY <2>1, <4>1, <4>2
        <3> QED
            BY <1>5, <3>1, <3>2
    <2> QED
        BY <1>5, <2>2 DEF Reads
<1>6. ASSUME NEW t \in Txn, NEW k \in Key, NEW op \in {"put", "del"},
             Change(t, k, op)
      PROVE  \E e : Note(e) /\ Writes(e)
    <2>1. Note(Write(t, k, IF op = "put" THEN t ELSE None))
        BY <1>6 DEF Change
    <2> QED
        BY <1>6, <2>1 DEF Writes
<1>7. ASSUME ProcessCrash
      PROVE  Note(Crash) /\ Crashes(Crash)
    BY <1>7 DEF ProcessCrash, Crashes
<1>8. ASSUME NEW k \in Key, Recover(k)
      PROVE  \E v \in Txn \cup {None} :
                Note(Recovered(k, v)) /\ Recovers(Recovered(k, v))
    <2>1. Value(k, next_ts) \in Txn \cup {None} /\ Rumoured(k) \subseteq Txn \cup {None}
        BY ValueType DEF Rumoured
    <2>2. PICK v \in Txn \cup {None} :
              /\ Note(Recovered(k, v))
              /\ IF v = Value(k, next_ts)
                 THEN flaws' = flaws
                 ELSE /\ v \in Rumoured(k)
                      /\ flaws' = flaws \cup
                            {IF v = None \/ IsCommitted(v) THEN "lost" ELSE "ghost"}
        <3>1. CASE Note(Recovered(k, Value(k, next_ts))) /\ flaws' = flaws
            BY <2>1, <3>1
        <3>2. ASSUME NEW v \in Rumoured(k) \ {Value(k, next_ts)},
                     Note(Recovered(k, v)),
                     HasFlaw(IF v = None \/ IsCommitted(v) THEN "lost" ELSE "ghost")
              PROVE  /\ v \in Txn \cup {None} /\ v # Value(k, next_ts)
                     /\ flaws' = flaws \cup
                            {IF v = None \/ IsCommitted(v) THEN "lost" ELSE "ghost"}
            BY <2>1, <3>2 DEF HasFlaw
        <3> QED
            BY <1>8, <3>1, <3>2 DEF Recover
    <2> QED
        BY <1>8, <2>2 DEF Recovers
<1> QED
    BY <1>1, <1>2, <1>3, <1>4, <1>5, <1>6, <1>7, <1>8 DEF Next, Does

\* No step undoes what is past.
LEMMA StepForward ==
    ASSUME TypeOK, CommitsCounted, WritesTold, Next
    PROVE  Forward
<1>1. \E e : OneMore(history, history', e)
    BY StepDoes
<1>2. Len(commits) \in Nat /\ commits \in Seq([txn : Txn, ts : Nat])
    BY DEF TypeOK
<1>3. /\ Len(commits) <= Len(commits')
      /\ \A j \in 1 .. Len(commits) : commits'[j] = commits[j]
    <2>1. commits' = commits \/ \E t \in Txn : commits' = Append(commits, [txn |-> t, ts |-> next_ts])
        BY DEF Next, BeginTxn, CommitTxn, AbortTxn, Get, Misread, Change, ProcessCrash, Recover
    <2>2. next_ts \in Nat
        BY <1>2 DEF TypeOK
    <2>3. CASE commits' = commits
        BY <1>2, <2>3
    <2>4. CASE \E t \in Txn : commits' = Append(commits, [txn |-> t, ts |-> next_ts])
        <3>1. PICK t \in Txn : commits' = Append(commits, [txn |-> t, ts |-> next_ts])
            BY <2>4
        <3> QED
            BY <1>2, <2>2, <3>1
    <2> QED
        BY <2>1, <2>3, <2>4
<1>4. \/ write_set' = write_set
      \/ \E t \in Txn, k \in Key, op \in {"put", "del"} : Change(t, k, op)
    BY DEF Next, BeginTxn, CommitTxn, AbortTxn, Get, Misread, ProcessCrash, Recover
<1>5. ASSUME NEW j \in 1 .. Len(commits)
      PROVE  write_set'[commits[j].txn] = write_set[commits[j].txn]
    <2>1. commits[j].txn \in Txn
        BY CommitTypes
    <2>2. state[commits[j].txn] # "ACTIVE"
        BY DEF CommitsCounted
    <2> QED
        BY <1>4, <2>1, <2>2 DEF Change, TypeOK
<1>6. ASSUME NEW t \in Txn, NEW k \in Key, write_set[t][k] # "none"
      PROVE  write_set'[t][k] = write_set[t][k]
    <2>1. CASE write_set' = write_set
        BY <2>1
    <2>2. ASSUME NEW u \in Txn, NEW l \in Key, NEW op, Change(u, l, op)
          PROVE  write_set'[t][k] = write_set[t][k]
        <3>1. ~ (t = u /\ k = l)
            BY <1>6, <2>2 DEF Change
        <3>2. write_set' = [write_set EXCEPT ![u][l] = op]
            BY <2>2 DEF Change
        <3> QED
            BY <3>1, <3>2 DEF TypeOK
    <2> QED
        BY <1>4, <2>1, <2>2
<1>7. ASSUME NEW t \in Txn, state[t] # "UNBORN"
      PROVE  state'[t] # "UNBORN"
    BY <1>7 DEF Next, BeginTxn, CommitTxn, AbortTxn, Get, Misread, Change, ProcessCrash, Recover, TypeOK
<1>8. ASSUME NEW t \in Txn, state[t] # "UNBORN"
      PROVE  start_ts'[t] = start_ts[t]
    BY <1>8 DEF Next, BeginTxn, CommitTxn, AbortTxn, Get, Misread, Change, ProcessCrash, Recover, TypeOK
<1> QED
    BY <1>1, <1>3, <1>5, <1>6, <1>7, <1>8 DEF Forward

\* The past of a step: what stays as it was.
LEMMA PastStays ==
    ASSUME Forward, TypeOK
    PROVE  /\ Len(history) \in Nat /\ Len(history') = Len(history) + 1
           /\ \A i \in 1 .. Len(history) : history'[i] = history[i]
BY DEF Forward, OneMore

\* The value of a key at a time that is past.
LEMMA ValueStays ==
    ASSUME Forward, TypeOK, TypeOK', CommitsCounted, CommitsCounted',
           NEW k \in Key, NEW n \in 0 .. Len(commits)
    PROVE  Versions(k, n)' = Versions(k, n) /\ Value(k, n)' = Value(k, n)
<1>1. Len(commits) \in Nat /\ Len(commits') \in Nat /\ Len(commits) <= Len(commits')
    BY DEF TypeOK, Forward
<1>2. /\ \A j \in 1 .. Len(commits) : commits[j].ts = j
      /\ \A j \in 1 .. Len(commits') : commits'[j].ts = j
    BY DEF CommitsCounted
<1>3. \A j \in 1 .. Len(commits) :
          commits'[j] = commits[j] /\ write_set'[commits[j].txn] = write_set[commits[j].txn]
    BY DEF Forward
<1>4. Versions(k, n)' = Versions(k, n)
    <2>1. ASSUME NEW j
          PROVE  j \in Versions(k, n)' <=> j \in Versions(k, n)
        BY <1>1, <1>2, <1>3 DEF Versions
    <2> QED
        BY <2>1 DEF Versions
<1>5. CASE Versions(k, n) = {}
    BY <1>4, <1>5 DEF Value
<1>6. CASE Versions(k, n) # {}
    <2>1. PICK j \in 1 .. Len(commits) : j = Max(Versions(k, n))
        <3>1. Versions(k, n) \subseteq 0 .. Len(commits)
            BY <1>1 DEF Versions
        <3> QED
            BY <1>1, <1>6, <3>1, MaxFacts DEF Versions
    <2>2. Value(k, n) = ResultOf(commits[j].txn, k)
        BY <1>6, <2>1 DEF Value
    <2>3. /\ Versions(k, n)' # {} /\ j = Max(Versions(k, n)')
          /\ commits'[j] = commits[j]
          /\ write_set'[commits[j].txn] = write_set[commits[j].txn]
        BY <1>3, <1>4, <1>6, <2>1
    <2>4. PICK u : u = commits[j].txn
        OBVIOUS
    <2>5. Value(k, n) = IF write_set[u][k] = "put" THEN u ELSE None
        BY <2>2, <2>4 DEF ResultOf
    <2>6. /\ Versions(k, n)' # {} /\ commits'[Max(Versions(k, n)')].txn = u
          /\ write_set'[u] = write_set[u]
        BY <2>3, <2>4
    <2>7. Value(k, n)' = IF write_set'[u][k] = "put" THEN u ELSE None
        BY <2>6 DEF Value, ResultOf
    <2> QED
        BY <1>4, <2>5, <2>6, <2>7
<1> QED
    BY <1>4, <1>5, <1>6

-----------------------------------------------------------------------------
\* What the history tells, step by step.

\* A step from a state in which the invariant holds.
Stepping(e) ==
    /\ StoreTold
    /\ TypeOK' /\ Forward
    /\ OneMore(history, history', e) /\ Does(e)

\* The events of a type after a step: those before, and perhaps the new one.
LEMMA EventsAfter ==
    ASSUME NEW e, Stepping(e), NEW type
    PROVE  /\ Places(history, type) \subseteq 1 .. Len(history)
           /\ Places(history', type) = IF e.type = type
                                       THEN Places(history, type) \cup {Len(history) + 1}
                                       ELSE Places(history, type)
           /\ \A i \in Places(history, type) : history'[i] = history[i]
           /\ history'[Len(history) + 1] = e
           /\ Len(history) \in Nat
<1>1. OneMore(history, history', e)
    BY DEF Stepping
<1>2. Places(history, type) \subseteq 1 .. Len(history)
    BY DEF Places
<1>3. /\ Places(history', type) = IF e.type = type
                                  THEN Places(history, type) \cup {Len(history) + 1}
                                  ELSE Places(history, type)
      /\ \A i \in Places(history, type) : history'[i] = history[i]
      /\ history'[Len(history) + 1] = e
    BY <1>1, PlacesOfOneMore
<1>4. Len(history) \in Nat
    BY <1>1 DEF OneMore
<1> QED
    BY <1>2, <1>3, <1>4

\* The classes of the events.
LEMMA TypesOfEvents ==
    ASSUME NEW e
    PROVE  /\ Begins(e) => e.type = "Begin"
           /\ Commits(e) => e.type = "Commit"
           /\ Aborts(e) => e.type = "Abort"
           /\ Reads(e) => e.type = "Read"
           /\ Writes(e) => e.type = "Write"
           /\ Crashes(e) => e.type = "Crash"
           /\ Recovers(e) => e.type = "Recovered"
<1>1. Begins(e) => e.type = "Begin"
    BY DEF Begins, Begin
<1>2. Commits(e) => e.type = "Commit"
    BY DEF Commits, Commit
<1>3. Aborts(e) => e.type = "Abort"
    BY DEF Aborts, Abort
<1>4. Reads(e) => e.type = "Read"
    BY DEF Reads, Read
<1>5. Writes(e) => e.type = "Write"
    BY DEF Writes, Write
<1>6. Crashes(e) => e.type = "Crash"
    BY DEF Crashes, Crash
<1>7. Recovers(e) => e.type = "Recovered"
    BY DEF Recovers, Recovered
<1> QED
    BY <1>1, <1>2, <1>3, <1>4, <1>5, <1>6, <1>7

\* What the BEGIN events tell stays true.
LEMMA BeginsStep ==
    ASSUME NEW e, Stepping(e)
    PROVE  BeginsTold'
<1>1. /\ TypeOK /\ TypeOK' /\ BeginsTold /\ Forward /\ Does(e)
    BY DEF Stepping, StoreTold
<1>2. Len(commits) \in Nat /\ Len(commits') \in Nat /\ Len(commits) <= Len(commits')
    BY <1>1 DEF TypeOK, Forward
<1>3. \A i \in Places(history, "Begin") : history[i].txn \in Txn
    BY <1>1, EventFacts
<1>4. /\ Places(history, "Begin") \subseteq Places(history', "Begin")
      /\ \A i \in Places(history, "Begin") : history'[i] = history[i]
    BY EventsAfter
<1>5. \A i \in Places(history, "Begin") :
          /\ state'[history[i].txn] # "UNBORN"
          /\ history[i].start_ts = start_ts'[history[i].txn]
    BY <1>1, <1>3 DEF BeginsTold, Forward
<1>6. CASE Begins(e)
    <2>1. PICK t \in Txn : BeginTxn(t) /\ e = Begin(t, next_ts - 1)
        BY <1>6 DEF Begins
    <2>2. /\ state'[t] = "ACTIVE" /\ start_ts'[t] = next_ts - 1
          /\ \A u \in Txn \ {t} : state'[u] = state[u] /\ start_ts'[u] = start_ts[u]
          /\ commits' = commits
        BY <1>1, <2>1 DEF BeginTxn, TypeOK
    <2>3. e.type = "Begin" /\ e.txn = t /\ e.start_ts = next_ts - 1
        BY <2>1 DEF Begin
    <2>4. /\ Places(history', "Begin") = Places(history, "Begin") \cup {Len(history) + 1}
          /\ history'[Len(history) + 1] = e
        BY <2>3, EventsAfter
    <2>5. ASSUME NEW i \in Places(history', "Begin")
          PROVE  /\ state'[history'[i].txn] # "UNBORN"
                 /\ history'[i].start_ts = start_ts'[history'[i].txn]
        BY <1>4, <1>5, <2>2, <2>3, <2>4
    <2>6. ASSUME NEW u \in Txn, state'[u] # "UNBORN"
          PROVE  HasBegun(history', u)
        <3>1. CASE u = t
            BY <2>3, <2>4, <3>1 DEF HasBegun
        <3>2. CASE u # t
            <4>1. HasBegun(history, u)
                BY <1>1, <2>2, <2>6, <3>2 DEF BeginsTold
            <4> QED
                BY <1>4, <4>1 DEF HasBegun
        <3> QED
            BY <3>1, <3>2
    <2>7. ASSUME NEW u \in Txn
          PROVE  start_ts'[u] <= Len(commits')
        <3>1. start_ts[u] <= Len(commits) /\ next_ts - 1 = Len(commits)
            BY <1>1, <1>2 DEF BeginsTold, TypeOK
        <3> QED
            BY <1>2, <2>2, <3>1
    <2> QED
        BY <2>5, <2>6, <2>7 DEF BeginsTold
<1>7. CASE ~ Begins(e)
    <2>1. /\ start_ts' = start_ts
          /\ \A u \in Txn : state'[u] # "UNBORN" => state[u] # "UNBORN"
        BY <1>1, <1>7 DEF Does, Commits, Aborts, Reads, Writes, Crashes, Recovers,
           CommitTxn, AbortTxn, Get, Misread, Change, ProcessCrash, Recover, TypeOK
    <2>2. e.type # "Begin"
        BY <1>1, <1>7, TypesOfEvents DEF Does
    <2>3. Places(history', "Begin") = Places(history, "Begin")
        BY <2>2, EventsAfter
    <2>4. ASSUME NEW u \in Txn, state'[u] # "UNBORN"
          PROVE  HasBegun(history', u)
        <3>1. HasBegun(history, u)
            BY <1>1, <2>1, <2>4 DEF BeginsTold
        <3> QED
            BY <1>4, <3>1 DEF HasBegun
    <2>5. ASSUME NEW u \in Txn
          PROVE  start_ts'[u] <= Len(commits')
        <3>1. start_ts[u] \in Nat /\ start_ts[u] <= Len(commits)
            BY <1>1 DEF BeginsTold, TypeOK
        <3> QED
            BY <1>2, <2>1, <3>1
    <2> QED
        BY <1>4, <1>5, <2>3, <2>4, <2>5 DEF BeginsTold
<1> QED
    BY <1>6, <1>7

\* The commit that nobody heard of is one of the commits.
LEMMA UnheardFacts ==
    ASSUME StoreTold, NEW t \in unheard
    PROVE  /\ Crashed(history) /\ t \in Txn /\ state[t] = "LOST"
           /\ \E j \in 1 .. Len(commits) : commits[j].txn = t
<1>1. TypeOK /\ CommitsCounted /\ CrashesTold
    BY DEF StoreTold
<1>2. Crashed(history)
    BY <1>1 DEF CrashesTold, NothingRecovered
<1>3. PICK c \in 1 .. Len(history), n \in 0 .. Len(commits) : AfterCrash(c, n)
    BY <1>1, <1>2 DEF CrashesTold
<1>4. n > 0 /\ commits[n].txn = t
    BY <1>3 DEF AfterCrash, CrashTold
<1>5. n \in 1 .. Len(commits)
    BY <1>1, <1>4 DEF TypeOK
<1>6. state[t] = "LOST"
    BY <1>1, <1>4, <1>5 DEF CommitsCounted
<1> QED
    BY <1>1, <1>2, <1>4, <1>5, <1>6 DEF TypeOK

\* t's commit is heard of, or not.
HeardCommit(e, t) ==
    /\ e = Commit(t, next_ts)
    /\ unheard' = unheard
    /\ state' = [state EXCEPT ![t] = "COMMITTED"]
    /\ IF Conflicts(t) THEN flaws' = flaws \cup {"conflict"} ELSE flaws' = flaws

UnheardCommit(e, t) ==
    /\ e = Crash /\ ~ Crashed(history)
    /\ unheard' = {t}
    /\ state' = [u \in Txn |-> IF state[u] = "ACTIVE" THEN "LOST" ELSE state[u]]
    /\ ~ Conflicts(t) /\ flaws' = flaws

NewCommit(e, t) ==
    /\ state[t] = "ACTIVE"
    /\ commits' = Append(commits, [txn |-> t, ts |-> next_ts])
    /\ start_ts' = start_ts /\ write_set' = write_set
    /\ HeardCommit(e, t) \/ UnheardCommit(e, t)

\* Without a commit the commits, and the states of what has ended, stay.
NoCommit(e) ==
    /\ e.type # "Commit"
    /\ commits' = commits /\ unheard' = unheard
    /\ \A t \in Txn : state[t] \in {"COMMITTED", "LOST"} => state'[t] = state[t]
    /\ \A t \in Txn : state'[t] = "ACTIVE" =>
          state[t] = "ACTIVE" \/ start_ts'[t] = Len(commits)
    /\ flaws' = flaws \/ \E f \in {"misread", "lost", "ghost"} : flaws' = flaws \cup {f}

\* A step commits one transaction, or none.
LEMMA CommitOrNot ==
    ASSUME NEW e, Stepping(e)
    PROVE  NoCommit(e) \/ \E t \in Txn : NewCommit(e, t)
<1>1. TypeOK /\ TypeOK' /\ Does(e)
    BY DEF Stepping, StoreTold
<1>2. CASE Commits(e)
    <2>1. PICK t \in Txn : CommitTxn(t) /\ e = Commit(t, next_ts)
        BY <1>2 DEF Commits
    <2>2. IF Conflicts(t) THEN flaws' = flaws \cup {"conflict"} ELSE flaws' = flaws
        BY <2>1 DEF CommitTxn, HasFlaw
    <2>3. NewCommit(e, t)
        BY <2>1, <2>2 DEF CommitTxn, NewCommit, HeardCommit
    <2> QED
        BY <2>3
<1>3. CASE Crashes(e)
    <2>1. ProcessCrash /\ e = Crash
        BY <1>3 DEF Crashes
    <2>2. CASE UNCHANGED <<commits, next_ts, unheard>>
        <3>1. \A t \in Txn : /\ state[t] \in {"COMMITTED", "LOST"} => state'[t] = state[t]
                             /\ state'[t] # "ACTIVE"
            BY <1>1, <2>1 DEF ProcessCrash, TypeOK
        <3> QED
            BY <2>1, <2>2, <3>1 DEF ProcessCrash, NoCommit, Crash
    <2>3. CASE ~ UNCHANGED <<commits, next_ts, unheard>>
        <3>1. PICK t \in Txn : /\ state[t] = "ACTIVE" /\ ~ Conflicts(t)
                               /\ commits' = Append(commits, [txn |-> t, ts |-> next_ts])
                               /\ unheard' = {t}
            BY <2>1, <2>3 DEF ProcessCrash
        <3>2. NewCommit(e, t)
            BY <2>1, <3>1 DEF ProcessCrash, NewCommit, UnheardCommit
        <3> QED
            BY <3>2
    <2> QED
        BY <2>2, <2>3
<1>4. CASE Begins(e)
    <2>1. PICK t \in Txn : BeginTxn(t) /\ e = Begin(t, next_ts - 1)
        BY <1>4 DEF Begins
    <2>2. Len(commits) \in Nat /\ next_ts = Len(commits) + 1
        BY <1>1 DEF TypeOK
    <2>3. /\ start_ts'[t] = Len(commits)
          /\ \A u \in Txn : u # t => state'[u] = state[u]
          /\ state[t] = "UNBORN"
        BY <1>1, <2>1, <2>2 DEF BeginTxn, TypeOK
    <2>4. e.type # "Commit"
        BY <2>1 DEF Begin
    <2> QED
        BY <2>1, <2>3, <2>4 DEF BeginTxn, NoCommit
<1>5. CASE Aborts(e)
    <2>1. PICK t \in Txn : AbortTxn(t) /\ e = Abort(t)
        BY <1>5 DEF Aborts
    <2>2. /\ \A u \in Txn : u # t => state'[u] = state[u]
          /\ state[t] = "ACTIVE" /\ state'[t] = "ABORTED"
        BY <1>1, <2>1 DEF AbortTxn, TypeOK
    <2> QED
        BY <2>1, <2>2 DEF AbortTxn, NoCommit, Abort
<1>6. CASE Reads(e) \/ Writes(e) \/ Recovers(e)
    <2>1. e.type # "Commit"
        BY <1>6, TypesOfEvents
    <2>2. commits' = commits /\ unheard' = unheard /\ state' = state
        BY <1>6 DEF Reads, Writes, Recovers, Get, Misread, Change, Recover
    <2>3. flaws' = flaws \/ \E f \in {"misread", "lost", "ghost"} : flaws' = flaws \cup {f}
        BY <1>6 DEF Reads, Writes, Recovers, Change
    <2> QED
        BY <2>1, <2>2, <2>3 DEF NoCommit
<1> QED
    BY <1>1, <1>2, <1>3, <1>4, <1>5, <1>6 DEF Does

\* The commits are counted, one by one.
LEMMA CountedStep ==
    ASSUME NEW e, Stepping(e)
    PROVE  CommitsCounted'
<1>1. /\ TypeOK /\ TypeOK' /\ CommitsCounted /\ Forward /\ StoreTold
    BY DEF Stepping, StoreTold
<1>2. /\ Len(commits) \in Nat /\ commits \in Seq([txn : Txn, ts : Nat])
      /\ next_ts = Len(commits) + 1
    BY <1>1 DEF TypeOK
<1>3. \A j \in 1 .. Len(commits) : commits[j].txn \in Txn
    BY <1>1, CommitTypes
<1>4. CASE NoCommit(e)
    <2>1. \A j \in 1 .. Len(commits) : state'[commits[j].txn] = state[commits[j].txn]
        BY <1>1, <1>3, <1>4 DEF NoCommit, CommitsCounted
    <2>2. commits' = commits /\ unheard' = unheard
        BY <1>4 DEF NoCommit
    <2> QED
        BY <1>1, <2>1, <2>2 DEF CommitsCounted
<1>5. ASSUME NEW t \in Txn, NewCommit(e, t)
      PROVE  CommitsCounted'
    <2>1. /\ Len(commits') = Len(commits) + 1
          /\ commits'[Len(commits) + 1] = [txn |-> t, ts |-> next_ts]
          /\ \A j \in 1 .. Len(commits) : commits'[j] = commits[j]
        BY <1>2, <1>5 DEF NewCommit
    <2>2. PICK m : m = Len(commits) + 1
        OBVIOUS
    <2>3. commits'[m].txn = t /\ commits'[m].ts = m
        BY <1>2, <2>1, <2>2
    <2>4. \A j \in 1 .. Len(commits) : commits[j].txn # t
        BY <1>1, <1>5 DEF CommitsCounted, NewCommit
    <2>5. t \notin unheard
        BY <1>1, <1>5, UnheardFacts DEF NewCommit
    <2>6. /\ state'[t] = IF t \in unheard' THEN "LOST" ELSE "COMMITTED"
          /\ \A j \in 1 .. Len(commits) : state'[commits[j].txn] =
                IF commits[j].txn \in unheard' THEN "LOST" ELSE "COMMITTED"
        <3>1. CASE HeardCommit(e, t)
            <4>1. unheard' = unheard /\ state' = [state EXCEPT ![t] = "COMMITTED"]
                BY <3>1 DEF HeardCommit
            <4> QED
                BY <1>1, <1>3, <2>4, <2>5, <4>1 DEF CommitsCounted, TypeOK
        <3>2. CASE UnheardCommit(e, t)
            <4>1. unheard = {}
                BY <1>1, <3>2, UnheardFacts DEF UnheardCommit
            <4>2. \A j \in 1 .. Len(commits) : state[commits[j].txn] = "COMMITTED"
                BY <1>1, <4>1 DEF CommitsCounted
            <4>3. /\ unheard' = {t}
                  /\ state' = [u \in Txn |-> IF state[u] = "ACTIVE" THEN "LOST" ELSE state[u]]
                BY <3>2 DEF UnheardCommit
            <4>4. state[t] = "ACTIVE"
                BY <1>5 DEF NewCommit
            <4> QED
                BY <1>3, <2>4, <4>2, <4>3, <4>4
        <3> QED
            BY <1>5, <3>1, <3>2 DEF NewCommit
    <2>7. \A j \in 1 .. Len(commits') : j = m \/ j \in 1 .. Len(commits)
        BY <1>2, <2>1, <2>2
    <2>8. ASSUME NEW j \in 1 .. Len(commits')
          PROVE  /\ commits'[j].ts = j
                 /\ state'[commits'[j].txn] =
                       IF commits'[j].txn \in unheard' THEN "LOST" ELSE "COMMITTED"
        <3>1. CASE j = m
            BY <2>3, <2>6, <3>1
        <3>2. CASE j \in 1 .. Len(commits)
            BY <1>1, <2>1, <2>6, <3>2 DEF CommitsCounted
        <3> QED
            BY <2>7, <3>1, <3>2
    <2>9. ASSUME NEW i \in 1 .. Len(commits'), NEW j \in 1 .. Len(commits'),
                 commits'[i].txn = commits'[j].txn
          PROVE  i = j
        BY <1>1, <2>1, <2>3, <2>4, <2>7, <2>9 DEF CommitsCounted
    <2> QED
        BY <2>8, <2>9 DEF CommitsCounted
<1> QED
    BY <1>4, <1>5, CommitOrNot

\* The commits somebody heard of, and no others, are told.
LEMMA CommitsToldStep ==
    ASSUME NEW e, Stepping(e)
    PROVE  CommitsTold'
<1>1. /\ TypeOK /\ TypeOK' /\ CommitsCounted /\ CommitsTold /\ Forward /\ StoreTold
    BY DEF Stepping, StoreTold
<1>2. /\ Len(commits) \in Nat /\ commits \in Seq([txn : Txn, ts : Nat])
      /\ next_ts = Len(commits) + 1
    BY <1>1 DEF TypeOK
<1>3. /\ Places(history, "Commit") \subseteq Places(history', "Commit")
      /\ \A i \in Places(history, "Commit") : history'[i] = history[i]
    BY EventsAfter
<1>4. CASE NoCommit(e)
    <2>1. commits' = commits /\ unheard' = unheard /\ e.type # "Commit"
        BY <1>4 DEF NoCommit
    <2>2. Places(history', "Commit") = Places(history, "Commit")
        BY <2>1, EventsAfter
    <2>3. ASSUME NEW t, HasCommitted(history, t)
          PROVE  HasCommitted(history', t)
        BY <1>3, <2>3 DEF HasCommitted
    <2> QED
        BY <1>1, <1>3, <2>1, <2>2, <2>3 DEF CommitsTold
<1>5. ASSUME NEW t \in Txn, NewCommit(e, t)
      PROVE  CommitsTold'
    <2>1. PICK m : m = Len(commits) + 1
        OBVIOUS
    <2>2. /\ Len(commits') = m /\ m \in Nat
          /\ commits'[m].txn = t
          /\ \A j \in 1 .. Len(commits) : commits'[j] = commits[j]
          /\ \A j \in 1 .. m : j = m \/ j \in 1 .. Len(commits)
        BY <1>2, <1>5, <2>1 DEF NewCommit
    <2>3. \A j \in 1 .. Len(commits) : commits[j].txn # t
        BY <1>1, <1>5 DEF CommitsCounted, NewCommit
    <2>4. t \notin unheard
        BY <1>1, <1>5, UnheardFacts DEF NewCommit
    <2>5. ASSUME NEW i \in Places(history, "Commit")
          PROVE  /\ history'[i].commit_ts \in 1 .. Len(commits')
                 /\ commits'[history'[i].commit_ts].txn = history'[i].txn
                 /\ history'[i].txn \notin unheard'
        <3>1. PICK ts : ts = history[i].commit_ts
            OBVIOUS
        <3>2. /\ ts \in 1 .. Len(commits) /\ commits[ts].txn = history[i].txn
              /\ history[i].txn \notin unheard
            BY <1>1, <3>1 DEF CommitsTold
        <3>3. ts \in 1 .. Len(commits') /\ commits'[ts].txn = history[i].txn
            BY <1>2, <2>1, <2>2, <3>2
        <3>4. history[i].txn \notin unheard'
            BY <1>5, <2>3, <3>2 DEF NewCommit, HeardCommit, UnheardCommit
        <3> QED
            BY <1>3, <3>1, <3>3, <3>4
    <2>6. CASE HeardCommit(e, t)
        <3>1. /\ e.type = "Commit" /\ e.txn = t /\ e.commit_ts = m
              /\ unheard' = unheard
            BY <1>2, <2>1, <2>6 DEF HeardCommit, Commit
        <3>2. /\ Places(history', "Commit") = Places(history, "Commit") \cup {Len(history) + 1}
              /\ history'[Len(history) + 1] = e
            BY <3>1, EventsAfter
        <3>3. m \in 1 .. Len(commits')
            BY <1>2, <2>1, <2>2
        <3>4. ASSUME NEW i \in Places(history', "Commit")
              PROVE  /\ history'[i].commit_ts \in 1 .. Len(commits')
                     /\ commits'[history'[i].commit_ts].txn = history'[i].txn
                     /\ history'[i].txn \notin unheard'
            BY <2>2, <2>4, <2>5, <3>1, <3>2, <3>3
        <3>5. ASSUME NEW j \in 1 .. Len(commits'), commits'[j].txn \notin unheard'
              PROVE  HasCommitted(history', commits'[j].txn)
            <4>1. CASE j = m
                BY <2>2, <3>1, <3>2, <4>1 DEF HasCommitted
            <4>2. CASE j \in 1 .. Len(commits)
                <5>1. HasCommitted(history, commits[j].txn)
                    BY <1>1, <2>2, <3>1, <3>5, <4>2 DEF CommitsTold
                <5> QED
                    BY <1>3, <2>2, <4>2, <5>1 DEF HasCommitted
            <4> QED
                BY <2>2, <4>1, <4>2
        <3> QED
            BY <3>4, <3>5 DEF CommitsTold
    <2>7. CASE UnheardCommit(e, t)
        <3>1. e.type # "Commit" /\ unheard' = {t}
            BY <2>7 DEF UnheardCommit, Crash
        <3>2. Places(history', "Commit") = Places(history, "Commit")
            BY <3>1, EventsAfter
        <3>3. unheard = {}
            BY <1>1, <2>7, UnheardFacts DEF UnheardCommit
        <3>4. ASSUME NEW j \in 1 .. Len(commits'), commits'[j].txn \notin unheard'
              PROVE  HasCommitted(history', commits'[j].txn)
            <4>1. j \in 1 .. Len(commits)
                BY <2>2, <3>1, <3>4
            <4>2. HasCommitted(history, commits[j].txn)
                BY <1>1, <3>3, <4>1 DEF CommitsTold
            <4> QED
                BY <1>3, <2>2, <4>1, <4>2 DEF HasCommitted
        <3> QED
            BY <2>5, <3>2, <3>4 DEF CommitsTold
    <2> QED
        BY <1>5, <2>6, <2>7 DEF NewCommit
<1> QED
    BY <1>4, <1>5, CommitOrNot

\* Nobody who is active began before the commit that nobody heard of.
LEMMA UnheardStep ==
    ASSUME NEW e, Stepping(e)
    PROVE  UnheardIsOld'
<1>1. /\ TypeOK /\ TypeOK' /\ UnheardIsOld /\ Forward /\ StoreTold
      /\ CommitsCounted /\ CommitsCounted'
    BY CountedStep DEF Stepping, StoreTold
<1>2. Len(commits) \in Nat
    BY <1>1 DEF TypeOK
<1>3. CASE NoCommit(e)
    <2>1. ASSUME NEW j \in 1 .. Len(commits'), NEW t \in Txn,
                 commits'[j].txn \in unheard', state'[t] = "ACTIVE"
          PROVE  j <= start_ts'[t]
        <3>1. commits' = commits /\ unheard' = unheard
            BY <1>3 DEF NoCommit
        <3>2. CASE state[t] = "ACTIVE"
            <4>1. start_ts'[t] = start_ts[t]
                BY <1>1, <3>2 DEF Forward
            <4> QED
                BY <1>1, <2>1, <3>1, <3>2, <4>1 DEF UnheardIsOld
        <3>3. CASE state[t] # "ACTIVE"
            <4>1. start_ts'[t] = Len(commits)
                BY <1>3, <2>1, <3>3 DEF NoCommit
            <4> QED
                BY <1>2, <3>1, <4>1
        <3> QED
            BY <3>2, <3>3
    <2> QED
        BY <2>1 DEF UnheardIsOld
<1>4. ASSUME NEW t \in Txn, NewCommit(e, t)
      PROVE  UnheardIsOld'
    <2>1. CASE HeardCommit(e, t)
        <3>1. /\ unheard' = unheard /\ start_ts' = start_ts
              /\ \A u \in Txn : state'[u] = "ACTIVE" => state[u] = "ACTIVE"
            BY <1>1, <1>4, <2>1 DEF NewCommit, HeardCommit, TypeOK
        <3>2. ASSUME NEW j \in 1 .. Len(commits'), commits'[j].txn \in unheard'
              PROVE  j \in 1 .. Len(commits) /\ commits[j].txn \in unheard
            <4>1. PICK i \in 1 .. Len(commits) : commits[i].txn = commits'[j].txn
                BY <1>1, <3>1, <3>2, UnheardFacts
            <4>2. i \in 1 .. Len(commits') /\ commits'[i] = commits[i]
                <5>1. Len(commits') \in Nat /\ Len(commits) <= Len(commits')
                    BY <1>1 DEF Forward, TypeOK
                <5> QED
                    BY <1>1, <1>2, <5>1 DEF Forward
            <4>3. i = j
                BY <1>1, <4>1, <4>2 DEF CommitsCounted
            <4> QED
                BY <3>1, <3>2, <4>1, <4>3
        <3> QED
            BY <1>1, <3>1, <3>2 DEF UnheardIsOld
    <2>2. CASE UnheardCommit(e, t)
        <3>1. \A u \in Txn : state'[u] # "ACTIVE"
            BY <2>2 DEF UnheardCommit
        <3> QED
            BY <3>1 DEF UnheardIsOld
    <2> QED
        BY <1>4, <2>1, <2>2 DEF NewCommit
<1> QED
    BY <1>3, <1>4, CommitOrNot

\* Every change is told with its value.
LEMMA WritesStep ==
    ASSUME NEW e, Stepping(e)
    PROVE  WritesTold'
<1>1. /\ TypeOK /\ TypeOK' /\ WritesTold /\ Forward /\ Does(e)
    BY DEF Stepping, StoreTold
<1>2. /\ Places(history, "Write") \subseteq Places(history', "Write")
      /\ \A i \in Places(history, "Write") : history'[i] = history[i]
    BY EventsAfter
<1>3. ASSUME NEW i \in Places(history, "Write")
      PROVE  WriteTold(i)'
    <2>1. PICK t \in Txn, k \in Key : t = history[i].txn /\ k = history[i].key
        BY <1>1, EventFacts
    <2>2. write_set[t][k] # "none" /\ history[i].value = ResultOf(t, k)
        BY <1>1, <2>1 DEF WritesTold, WriteTold
    <2>3. write_set'[t][k] = write_set[t][k]
        BY <1>1, <2>2 DEF Forward
    <2> QED
        BY <1>2, <2>1, <2>2, <2>3 DEF WriteTold, ResultOf
<1>4. ASSUME NEW t \in Txn, NEW k \in Key, WritesOf(history, t, k) # {}
      PROVE  WritesOf(history', t, k) # {}
    BY <1>2, <1>4 DEF WritesOf
<1>5. CASE Writes(e)
    <2>1. PICK t \in Txn, k \in Key, op \in {"put", "del"} :
              Change(t, k, op) /\ e = Write(t, k, IF op = "put" THEN t ELSE None)
        BY <1>5 DEF Writes
    <2>2. /\ write_set'[t][k] = op
          /\ \A u \in Txn, l \in Key : u # t \/ l # k => write_set'[u][l] = write_set[u][l]
          /\ state' = state /\ state[t] = "ACTIVE"
        BY <1>1, <2>1 DEF Change, TypeOK
    <2>3. /\ e.type = "Write" /\ e.txn = t /\ e.key = k
          /\ e.value = IF op = "put" THEN t ELSE None
        BY <2>1 DEF Write
    <2>4. /\ Places(history', "Write") = Places(history, "Write") \cup {Len(history) + 1}
          /\ history'[Len(history) + 1] = e
        BY <2>3, EventsAfter
    <2>5. ASSUME NEW i \in Places(history', "Write")
          PROVE  WriteTold(i)'
        <3>1. CASE i = Len(history) + 1
            BY <2>2, <2>3, <2>4, <3>1 DEF WriteTold, ResultOf
        <3>2. CASE i # Len(history) + 1
            BY <1>3, <2>4, <3>2
        <3> QED
            BY <3>1, <3>2
    <2>6. ASSUME NEW u \in Txn, NEW l \in Key, write_set'[u][l] # "none"
          PROVE  WritesOf(history', u, l) # {} /\ state'[u] # "UNBORN"
        <3>1. CASE u = t /\ l = k
            BY <2>2, <2>3, <2>4, <3>1 DEF WritesOf
        <3>2. CASE u # t \/ l # k
            BY <1>1, <1>4, <2>2, <2>6, <3>2 DEF WritesTold
        <3> QED
            BY <3>1, <3>2
    <2> QED
        BY <2>5, <2>6 DEF WritesTold
<1>6. CASE ~ Writes(e)
    <2>1. write_set' = write_set
        BY <1>1, <1>6 DEF Does, Begins, Commits, Aborts, Reads, Crashes, Recovers,
           BeginTxn, CommitTxn, AbortTxn, Get, Misread, ProcessCrash, Recover
    <2>2. e.type # "Write"
        BY <1>1, <1>6, TypesOfEvents DEF Does
    <2>3. Places(history', "Write") = Places(history, "Write")
        BY <2>2, EventsAfter
    <2>4. ASSUME NEW u \in Txn, NEW l \in Key, write_set'[u][l] # "none"
          PROVE  WritesOf(history', u, l) # {} /\ state'[u] # "UNBORN"
        <3>1. WritesOf(history, u, l) # {} /\ state[u] # "UNBORN"
            BY <1>1, <2>1, <2>4 DEF WritesTold
        <3> QED
            BY <1>1, <1>4, <3>1 DEF Forward
    <2> QED
        BY <1>3, <2>3, <2>4 DEF WritesTold
<1> QED
    BY <1>5, <1>6

\* What a past read should have returned does not change any more.
LEMMA RightStays ==
    ASSUME NEW e, Stepping(e), NEW i \in Places(history, "Read")
    PROVE  Right(i)' = Right(i)
<1>1. /\ TypeOK /\ TypeOK' /\ WritesTold /\ ReadsTold /\ BeginsTold /\ Forward
      /\ CommitsCounted /\ CommitsCounted'
    BY CountedStep DEF Stepping, StoreTold
<1>2. PICK t \in Txn, k \in Key : t = history[i].txn /\ k = history[i].key
    BY <1>1, EventFacts
<1>3. history'[i] = history[i] /\ i \in 1 .. Len(history) /\ Len(history) \in Nat
    BY EventsAfter
<1>4. ASSUME NEW j
      PROVE  j \in OwnBefore(i)' <=> j \in OwnBefore(i)
    <2>1. /\ Places(history, "Write") \subseteq 1 .. Len(history)
          /\ Places(history', "Write") \subseteq Places(history, "Write") \cup {Len(history) + 1}
          /\ Places(history, "Write") \subseteq Places(history', "Write")
          /\ \A l \in Places(history, "Write") : history'[l] = history[l]
        BY EventsAfter
    <2> QED
        BY <1>3, <2>1 DEF OwnBefore, WritesOf
<1>5. OwnBefore(i)' = OwnBefore(i)
    <2>1. OwnBefore(i) = {j \in OwnBefore(i) : TRUE}
        OBVIOUS
    <2> QED
        BY <1>4 DEF OwnBefore
<1>6. CASE OwnBefore(i) # {}
    <2>1. WritesOf(history, t, k) # {}
        BY <1>2, <1>6 DEF OwnBefore
    <2>2. write_set[t][k] # "none"
        BY <1>1, <2>1 DEF WritesOf, WritesTold, WriteTold
    <2>3. write_set'[t][k] = write_set[t][k]
        BY <1>1, <2>2 DEF Forward
    <2> QED
        BY <1>2, <1>3, <1>5, <1>6, <2>3 DEF Right, ResultOf
<1>7. CASE OwnBefore(i) = {}
    <2>1. PICK T \in 0 .. Len(commits) : T = start_ts[t]
        BY <1>1, <1>2 DEF BeginsTold, TypeOK
    <2>2. start_ts'[t] = T
        BY <1>1, <1>2, <2>1 DEF ReadsTold, Forward
    <2>3. Value(k, T)' = Value(k, T)
        BY <1>1, ValueStays
    <2>4. Right(i) = Value(k, T)
        BY <1>2, <1>7, <2>1 DEF Right
    <2>5. history'[i].key = k /\ start_ts'[history'[i].txn] = T /\ OwnBefore(i)' = {}
        BY <1>2, <1>3, <1>5, <1>7, <2>2
    <2>6. Right(i)' = Value(k, T)'
        BY <2>5 DEF Right
    <2> QED
        BY <2>3, <2>4, <2>6
<1> QED
    BY <1>6, <1>7

\* What a get is to return is what the history says it should have returned.
LEMMA RightOfRead ==
    ASSUME NEW e, Stepping(e), NEW t \in Txn, NEW k \in Key, NEW v,
           e = Read(t, k, v), UNCHANGED <<state, start_ts, write_set, commits>>,
           NEW m, m = Len(history) + 1
    PROVE  Right(m)' = Answer(t, k)
<1>1. /\ TypeOK /\ TypeOK' /\ WritesTold /\ BeginsTold /\ Forward
      /\ CommitsCounted /\ CommitsCounted'
    BY CountedStep DEF Stepping, StoreTold
<1>2. e.type = "Read" /\ e.txn = t /\ e.key = k
    BY DEF Read
<1>3. m = Len(history) + 1
    OBVIOUS
<1>4. /\ Places(history', "Write") = Places(history, "Write")
      /\ Places(history, "Write") \subseteq 1 .. Len(history) /\ Len(history) \in Nat
      /\ \A l \in Places(history, "Write") : history'[l] = history[l]
    BY <1>2, EventsAfter
<1>5. history'[m] = e
    BY <1>3, EventsAfter
<1>6. OwnBefore(m)' = {} <=> WritesOf(history, t, k) = {}
    <2>1. OwnBefore(m)' = {j \in WritesOf(history', t, k) : j < m}
        BY <1>2, <1>5 DEF OwnBefore
    <2>2. WritesOf(history', t, k) = WritesOf(history, t, k)
        BY <1>4 DEF WritesOf
    <2>3. \A j \in WritesOf(history, t, k) : j < m
        BY <1>3, <1>4 DEF WritesOf
    <2> QED
        BY <2>1, <2>2, <2>3
<1>7. WritesOf(history, t, k) = {} <=> write_set[t][k] = "none"
    BY <1>1 DEF WritesTold, WriteTold, WritesOf
<1>8. PICK T \in 0 .. Len(commits) : T = start_ts[t]
    BY <1>1 DEF BeginsTold, TypeOK
<1>9. Value(k, T)' = Value(k, T)
    BY <1>1, ValueStays
<1>10. CASE write_set[t][k] = "none"
    <2>1. OwnBefore(m)' = {} /\ history'[m].key = k /\ start_ts'[history'[m].txn] = T
        BY <1>2, <1>5, <1>6, <1>7, <1>8, <1>10
    <2>2. Right(m)' = Value(k, T)'
        BY <2>1 DEF Right
    <2>3. Answer(t, k) = Value(k, T)
        BY <1>8, <1>10 DEF Answer
    <2> QED
        BY <1>3, <1>9, <2>2, <2>3
<1>11. CASE write_set[t][k] # "none"
    <2>1. OwnBefore(m)' # {} /\ history'[m].key = k /\ history'[m].txn = t
        BY <1>2, <1>5, <1>6, <1>7, <1>11
    <2>2. Right(m)' = IF write_set'[t][k] = "put" THEN t ELSE None
        BY <2>1 DEF Right, ResultOf
    <2>3. Answer(t, k) = IF write_set[t][k] = "put" THEN t ELSE None
        BY <1>11 DEF Answer, ResultOf
    <2> QED
        BY <1>3, <2>2, <2>3
<1> QED
    BY <1>10, <1>11

\* A flaw of another kind changes nothing for the reads.
LEMMA ReadsStep ==
    ASSUME NEW e, Stepping(e)
    PROVE  ReadsTold'
<1>1. /\ TypeOK /\ TypeOK' /\ ReadsTold /\ Forward /\ Does(e)
    BY DEF Stepping, StoreTold
<1>2. \A i \in Places(history, "Read") : history'[i] = history[i] /\ history[i].txn \in Txn
    BY <1>1, EventsAfter, EventFacts
<1>3. \A i \in Places(history, "Read") : Right(i)' = Right(i)
    BY RightStays
<1>4. \A i \in Places(history, "Read") : state'[history'[i].txn] # "UNBORN"
    BY <1>1, <1>2 DEF ReadsTold, Forward
<1>5. CASE Reads(e)
    <2>1. PICK t \in Txn, k \in Key, v \in Txn \cup {None} :
              /\ Get(t, k) \/ Misread(t, k)
              /\ e = Read(t, k, v)
              /\ flaws' = IF v = Answer(t, k) THEN flaws ELSE flaws \cup {"misread"}
        BY <1>5 DEF Reads
    <2>2. UNCHANGED <<state, start_ts, write_set, commits>> /\ state[t] = "ACTIVE"
        BY <2>1 DEF Get, Misread, MayRead
    <2>4. PICK m : m = Len(history) + 1
        OBVIOUS
    <2>5. e.type = "Read" /\ e.txn = t /\ e.key = k /\ e.value = v
        BY <2>1 DEF Read
    <2>6. /\ Places(history', "Read") = Places(history, "Read") \cup {m}
          /\ history'[m] = e
        BY <2>4, <2>5, EventsAfter
    <2>7. Right(m)' = Answer(t, k)
        BY <2>1, <2>2, <2>4, RightOfRead
    <2>8. \A i \in Places(history', "Read") : state'[history'[i].txn] # "UNBORN"
        BY <1>4, <2>2, <2>5, <2>6
    <2>9. (\E i \in Places(history', "Read") : history'[i].value # Right(i)')
            <=> \/ v # Answer(t, k)
                \/ \E i \in Places(history, "Read") : history[i].value # Right(i)
        BY <1>2, <1>3, <2>5, <2>6, <2>7
    <2>10. "misread" \in flaws' <=> v # Answer(t, k) \/ "misread" \in flaws
        BY <2>1
    <2> QED
        BY <1>1, <2>8, <2>9, <2>10 DEF ReadsTold
<1>6. CASE ~ Reads(e)
    <2>1. e.type # "Read"
        BY <1>1, <1>6, TypesOfEvents DEF Does
    <2>2. Places(history', "Read") = Places(history, "Read")
        BY <2>1, EventsAfter
    <2>3. "misread" \in flaws' <=> "misread" \in flaws
        <3>1. CASE Recovers(e)
            BY <3>1 DEF Recovers
        <3>2. CASE Begins(e) \/ Aborts(e) \/ Writes(e) \/ Crashes(e)
            <4>1. flaws' = flaws
                BY <3>2 DEF Begins, Aborts, Writes, Crashes, BeginTxn, AbortTxn,
                   Change, ProcessCrash
            <4> QED
                BY <4>1
        <3>3. CASE Commits(e)
            <4>1. flaws' = flaws \/ flaws' = flaws \cup {"conflict"}
                BY <3>3 DEF Commits, CommitTxn, HasFlaw
            <4> QED
                BY <4>1
        <3> QED
            BY <1>1, <1>6, <3>1, <3>2, <3>3 DEF Does
    <2>4. (\E i \in Places(history', "Read") : history'[i].value # Right(i)')
            <=> \E i \in Places(history, "Read") : history[i].value # Right(i)
        BY <1>2, <1>3, <2>2
    <2> QED
        BY <1>1, <1>4, <2>2, <2>3, <2>4 DEF ReadsTold
<1> QED
    BY <1>5, <1>6

\* Whether a past commit was overwritten unseen does not change any more.
LEMMA OverwrittenStays ==
    ASSUME NEW e, Stepping(e), NEW i \in 1 .. Len(commits),
           NEW j \in 1 .. Len(commits), NEW k \in Key
    PROVE  Overwritten(i, j, k)' = Overwritten(i, j, k)
<1>1. TypeOK /\ CommitsCounted /\ Forward
    BY DEF Stepping, StoreTold
<1>2. PICK t, u : t = commits[i].txn /\ u = commits[j].txn
    OBVIOUS
<1>3. t \in Txn /\ u \in Txn /\ state[u] # "UNBORN"
    BY <1>1, <1>2, CommitTypes DEF CommitsCounted
<1>4. /\ commits'[i] = commits[i] /\ commits'[j] = commits[j]
      /\ write_set'[t] = write_set[t] /\ write_set'[u] = write_set[u]
      /\ start_ts'[u] = start_ts[u]
    BY <1>1, <1>2, <1>3 DEF Forward
<1> QED
    BY <1>2, <1>4 DEF Overwritten, Wrote

\* A new commit that overwrote one unseen is a conflict that was let pass.
LEMMA ConflictsStep ==
    ASSUME NEW e, Stepping(e)
    PROVE  ConflictsTold'
<1>1. /\ TypeOK /\ TypeOK' /\ ConflictsTold /\ CommitsCounted /\ UnheardIsOld /\ Forward
      /\ StoreTold
    BY DEF Stepping, StoreTold
<1>2. Len(commits) \in Nat
    BY <1>1 DEF TypeOK
<1>3. \A i, j \in 1 .. Len(commits), k \in Key :
          Overwritten(i, j, k)' = Overwritten(i, j, k)
    BY OverwrittenStays
<1>4. CASE NoCommit(e)
    <2>1. commits' = commits /\ unheard' = unheard
        BY <1>4 DEF NoCommit
    <2>2. "conflict" \in flaws' <=> "conflict" \in flaws
        BY <1>4 DEF NoCommit
    <2> QED
        BY <1>1, <1>3, <2>1, <2>2 DEF ConflictsTold
<1>5. ASSUME NEW t \in Txn, NewCommit(e, t)
      PROVE  ConflictsTold'
    <2>1. PICK m : m = Len(commits) + 1
        OBVIOUS
    <2>2. commits \in Seq([txn : Txn, ts : Nat])
        BY <1>1 DEF TypeOK
    <2>3. /\ Len(commits') = m /\ m \in Nat
          /\ commits'[m].txn = t
          /\ \A j \in 1 .. Len(commits) : commits'[j] = commits[j]
          /\ \A j \in 1 .. m : j = m \/ j \in 1 .. Len(commits)
          /\ \A j \in 1 .. Len(commits) : j \in 1 .. m /\ j < m
        BY <1>2, <1>5, <2>1, <2>2 DEF NewCommit
    <2>4. \A j \in 1 .. Len(commits) : commits[j].txn # t /\ commits[j].txn \in Txn
        BY <1>1, <1>5, CommitTypes DEF CommitsCounted, NewCommit
    <2>5. start_ts'[t] = start_ts[t] /\ write_set' = write_set
        BY <1>5 DEF NewCommit
    <2>6. \A i \in 1 .. Len(commits), k \in Key :
              Overwritten(i, m, k)' <=> /\ Wrote(i, k) /\ write_set[t][k] # "none"
                                        /\ i > start_ts[t]
        BY <2>3, <2>5 DEF Overwritten, Wrote
    <2>7. Conflicts(t) <=> \E i \in 1 .. Len(commits), k \in Key : Overwritten(i, m, k)'
        <3>1. \A i \in 1 .. Len(commits) : commits[i].ts = i
            BY <1>1 DEF CommitsCounted
        <3> QED
            BY <2>6, <3>1 DEF Conflicts, Wrote
    <2>8. \A j \in 1 .. m, k \in Key : ~ Overwritten(m, j, k)'
        BY <2>3 DEF Overwritten
    <2>9. \A j \in 1 .. Len(commits) : commits[j].txn \notin unheard => commits[j].txn \notin unheard'
        BY <1>5, <2>4 DEF NewCommit, HeardCommit, UnheardCommit
    <2>10. CASE Conflicts(t)
        <3>1. HeardCommit(e, t)
            BY <1>5, <2>10 DEF NewCommit, UnheardCommit
        <3>2. "conflict" \in flaws' /\ unheard' = unheard
            BY <2>10, <3>1 DEF HeardCommit
        <3>3. PICK i \in 1 .. Len(commits), k \in Key : Overwritten(i, m, k)'
            BY <2>7, <2>10
        <3>4. state[t] = "ACTIVE"
            BY <1>5 DEF NewCommit
        <3>5. commits[i].txn \notin unheard
            <4>1. i > start_ts[t] /\ start_ts[t] \in Nat
                BY <1>1, <2>6, <3>3 DEF TypeOK
            <4> QED
                BY <1>1, <1>2, <3>4, <4>1 DEF UnheardIsOld
        <3>6. t \notin unheard
            BY <1>1, <3>4, UnheardFacts
        <3>7. commits'[i].txn \notin unheard' /\ commits'[m].txn \notin unheard'
            BY <2>3, <3>2, <3>5, <3>6
        <3>8. i \in 1 .. Len(commits') /\ m \in 1 .. Len(commits')
            BY <1>2, <2>1, <2>3
        <3> QED
            BY <3>2, <3>3, <3>7, <3>8 DEF ConflictsTold
    <2>11. CASE ~ Conflicts(t)
        <3>1. flaws' = flaws
            BY <1>5, <2>11 DEF NewCommit, HeardCommit, UnheardCommit
        <3>2. CASE "conflict" \in flaws
            <4>1. PICK i \in 1 .. Len(commits), j \in 1 .. Len(commits), k \in Key :
                      /\ Overwritten(i, j, k)
                      /\ {commits[i].txn, commits[j].txn} \cap unheard = {}
                BY <1>1, <3>2 DEF ConflictsTold
            <4>2. Overwritten(i, j, k)'
                BY <1>3, <4>1
            <4>3. {commits'[i].txn, commits'[j].txn} \cap unheard' = {}
                BY <2>3, <2>9, <4>1
            <4>4. i \in 1 .. Len(commits') /\ j \in 1 .. Len(commits')
                BY <2>3
            <4> QED
                BY <3>1, <3>2, <4>2, <4>3, <4>4 DEF ConflictsTold
        <3>3. CASE "conflict" \notin flaws
            <4>1. \A i \in 1 .. Len(commits), k \in Key : ~ Overwritten(i, m, k)'
                BY <2>7, <2>11
            <4>2. \A i, j \in 1 .. Len(commits), k \in Key : ~ Overwritten(i, j, k)'
                BY <1>1, <1>3, <3>3 DEF ConflictsTold
            <4>3. \A i, j \in 1 .. m, k \in Key : ~ Overwritten(i, j, k)'
                BY <2>3, <2>8, <4>1, <4>2
            <4> QED
                BY <2>3, <3>1, <3>3, <4>3 DEF ConflictsTold
        <3> QED
            BY <3>2, <3>3
    <2> QED
        BY <2>10, <2>11
<1> QED
    BY <1>4, <1>5, CommitOrNot

-----------------------------------------------------------------------------
\* The crash, and what comes after it.

\* A step after the crash: no other crash, and no unheard commit.
LEMMA AfterCrashFacts ==
    ASSUME NEW e, Stepping(e), Crashed(history)
    PROVE  /\ ~ Crashes(e) /\ e.type # "Crash"
           /\ unheard' = unheard
           /\ Places(history', "Crash") = Places(history, "Crash")
<1>1. ~ Crashes(e)
    BY DEF Crashes, ProcessCrash
<1>2. e.type # "Crash"
    BY <1>1, TypesOfEvents DEF Stepping, Does
<1>3. unheard' = unheard
    BY CommitOrNot DEF NoCommit, NewCommit, HeardCommit, UnheardCommit
<1> QED
    BY <1>1, <1>2, <1>3, EventsAfter

\* A commit or a change after the crash is one of a new transaction.
LEMMA CrashToldStep ==
    ASSUME NEW e, Stepping(e), Crashed(history),
           NEW c \in 1 .. Len(history), NEW n \in 0 .. Len(commits), CrashTold(c, n)
    PROVE  CrashTold(c, n)'
<1>1. /\ TypeOK /\ TypeOK' /\ CommitsCounted /\ CommitsTold /\ Forward /\ Does(e)
    BY DEF Stepping, StoreTold
<1>2. Len(commits) \in Nat /\ Len(history) \in Nat /\ next_ts = Len(commits) + 1
    BY <1>1 DEF TypeOK
<1>3. Places(history', "Crash") = {c}
    BY AfterCrashFacts DEF CrashTold
<1>4. \A j \in 1 .. Len(commits) : commits'[j] = commits[j]
    BY <1>1 DEF Forward
<1>5. ASSUME NEW i \in Places(history', "Commit")
      PROVE  i < c <=> history'[i].commit_ts <= n
    <2>1. CASE i \in Places(history, "Commit")
        BY <2>1, EventsAfter DEF CrashTold
    <2>2. CASE i \notin Places(history, "Commit")
        <3>1. e.type = "Commit" /\ i = Len(history) + 1 /\ history'[i] = e
            BY <1>5, <2>2, EventsAfter
        <3>2. Commits(e)
            BY <1>1, <3>1, TypesOfEvents DEF Does
        <3>3. e.commit_ts = next_ts
            BY <3>2 DEF Commits, Commit
        <3> QED
            BY <1>2, <3>1, <3>3
    <2> QED
        BY <2>1, <2>2
<1>6. ASSUME NEW i \in Places(history', "Write"), i > c, NEW j \in 1 .. n
      PROVE  commits'[j].txn # history'[i].txn
    <2>1. j \in 1 .. Len(commits) /\ commits'[j] = commits[j]
        BY <1>2, <1>4
    <2>2. CASE i \in Places(history, "Write")
        <3>1. history'[i] = history[i]
            BY <2>2, EventsAfter
        <3> QED
            BY <1>6, <2>1, <2>2, <3>1 DEF CrashTold
    <2>3. CASE i \notin Places(history, "Write")
        <3>1. e.type = "Write" /\ i = Len(history) + 1 /\ history'[i] = e
            BY <1>6, <2>3, EventsAfter
        <3>2. Writes(e)
            BY <1>1, <3>1, TypesOfEvents DEF Does
        <3>3. PICK t \in Txn, k \in Key, op \in {"put", "del"} :
                  Change(t, k, op) /\ e = Write(t, k, IF op = "put" THEN t ELSE None)
            BY <3>2 DEF Writes
        <3>4. e.txn = t /\ state[t] = "ACTIVE"
            BY <3>3 DEF Change, Write
        <3> QED
            BY <1>1, <2>1, <3>1, <3>4 DEF CommitsCounted
    <2> QED
        BY <2>2, <2>3
<1>7. ASSUME NEW t \in unheard'
      PROVE  n > 0 /\ commits'[n].txn = t
    <2>1. n > 0 /\ commits[n].txn = t
        BY <1>7, AfterCrashFacts DEF CrashTold
    <2>2. n \in 1 .. Len(commits)
        BY <1>2, <2>1
    <2> QED
        BY <1>4, <2>1, <2>2
<1> QED
    BY <1>3, <1>5, <1>6, <1>7 DEF CrashTold

\* As long as keys are unlisted only they are listed.
LEMMA RestingStep ==
    ASSUME NEW e, Stepping(e), Crashed(history),
           NEW c \in 1 .. Len(history), NEW n \in 0 .. Len(commits), Resting(c, n)
    PROVE  Resting(c, n)'
<1>1. TypeOK /\ Does(e) /\ ~ Crashes(e)
    BY AfterCrashFacts DEF Stepping, StoreTold
<1>2. CASE Recovers(e)
    <2>1. PICK k \in Key, v \in Txn \cup {None} : Recover(k) /\ e = Recovered(k, v)
        BY <1>2 DEF Recovers
    <2>2. Recovering /\ UNCHANGED <<commits, state>>
        BY <2>1 DEF Recover, Recovering
    <2>3. e.type = "Recovered"
        BY <2>1 DEF Recovered
    <2>4. /\ Places(history', "Begin") = Places(history, "Begin")
          /\ Places(history', "Write") = Places(history, "Write")
        BY <2>3, EventsAfter
    <2> QED
        BY <2>2, <2>4 DEF Resting
<1>3. CASE ~ Recovers(e)
    <2>1. unlisted' = unlisted
        BY <1>1, <1>3 DEF Does, Begins, Commits, Aborts, Reads, Writes,
           BeginTxn, CommitTxn, AbortTxn, Get, Misread, Change
    <2>2. ~ Recovering \/ \E t \in Txn : state[t] = "ACTIVE"
        BY <1>1, <1>3 DEF Does, Begins, Commits, Aborts, Reads, Writes,
           BeginTxn, CommitTxn, AbortTxn, Get, Misread, Change, MayRead
    <2>3. ~ Recovering
        BY <2>2 DEF Resting
    <2> QED
        BY <2>1, <2>3 DEF Resting, Recovering
<1> QED
    BY <1>2, <1>3

\* Every key is listed once.
LEMMA RecoveryToldStep ==
    ASSUME NEW e, Stepping(e), Crashed(history),
           NEW c \in 1 .. Len(history), RecoveryTold(c)
    PROVE  RecoveryTold(c)'
<1>1. TypeOK /\ Does(e) /\ ~ Crashes(e)
    BY AfterCrashFacts DEF Stepping, StoreTold
<1>2. /\ Places(history, "Recovered") \subseteq Places(history', "Recovered")
      /\ Places(history, "Recovered") \subseteq 1 .. Len(history)
      /\ \A i \in Places(history, "Recovered") : history'[i] = history[i]
    BY EventsAfter
<1>3. CASE Recovers(e)
    <2>1. PICK k \in Key, v \in Txn \cup {None} : Recover(k) /\ e = Recovered(k, v)
        BY <1>3 DEF Recovers
    <2>2. k \in unlisted /\ unlisted' = unlisted \ {k}
        BY <2>1 DEF Recover
    <2>3. e.type = "Recovered" /\ e.key = k
        BY <2>1 DEF Recovered
    <2>4. PICK m : m = Len(history) + 1
        OBVIOUS
    <2>5. /\ Places(history', "Recovered") = Places(history, "Recovered") \cup {m}
          /\ history'[m] = e
        BY <2>3, <2>4, EventsAfter
    <2>6. m > c /\ m \notin Places(history, "Recovered")
        BY <1>2, <2>4, EventsAfter
    <2>7. ASSUME NEW i \in Places(history', "Recovered")
          PROVE  i > c /\ history'[i].key \notin unlisted'
        BY <1>2, <2>2, <2>3, <2>5, <2>6 DEF RecoveryTold
    <2>8. ASSUME NEW l \in Key \ unlisted'
          PROVE  \E i \in Places(history', "Recovered") : history'[i].key = l
        <3>1. CASE l = k
            BY <2>3, <2>5, <3>1
        <3>2. CASE l # k
            <4>1. l \in Key \ unlisted
                BY <2>2, <2>8, <3>2
            <4>2. PICK i \in Places(history, "Recovered") : history[i].key = l
                BY <4>1 DEF RecoveryTold
            <4> QED
                BY <1>2, <4>2
        <3> QED
            BY <3>1, <3>2
    <2>9. ASSUME NEW i \in Places(history', "Recovered"), NEW j \in Places(history', "Recovered"),
                 history'[i].key = history'[j].key
          PROVE  i = j
        <3>1. \A l \in Places(history, "Recovered") : history'[l].key # k
            BY <1>2, <2>2 DEF RecoveryTold
        <3>2. history'[m].key = k
            BY <2>3, <2>5
        <3> QED
            BY <1>2, <2>5, <2>9, <3>1, <3>2 DEF RecoveryTold
    <2> QED
        BY <2>7, <2>8, <2>9 DEF RecoveryTold
<1>4. CASE ~ Recovers(e)
    <2>1. unlisted' = unlisted
        BY <1>1, <1>4 DEF Does, Begins, Commits, Aborts, Reads, Writes,
           BeginTxn, CommitTxn, AbortTxn, Get, Misread, Change
    <2>2. e.type # "Recovered"
        BY <1>1, <1>4, TypesOfEvents DEF Does
    <2>3. Places(history', "Recovered") = Places(history, "Recovered")
        BY <2>2, EventsAfter
    <2> QED
        BY <1>2, <2>1, <2>3 DEF RecoveryTold
<1> QED
    BY <1>3, <1>4

\* The value of a key now, and after the last commit.
LEMMA ValueNow ==
    ASSUME TypeOK, CommitsCounted, NEW k \in Key
    PROVE  Value(k, next_ts) = Value(k, Len(commits))
<1>1. Len(commits) \in Nat /\ next_ts = Len(commits) + 1
    BY DEF TypeOK
<1>2. \A j \in 1 .. Len(commits) : commits[j].ts = j
    BY DEF CommitsCounted
<1>3. Versions(k, next_ts) = Versions(k, Len(commits))
    BY <1>1, <1>2 DEF Versions
<1> QED
    BY <1>3 DEF Value

\* A recovered value that is wrong stays wrong.
LEMMA FlawsStay ==
    ASSUME NEW e, Stepping(e), NEW c \in 1 .. Len(history),
           NEW n \in 0 .. Len(commits), NEW i \in Places(history, "Recovered")
    PROVE  /\ LostAt(i, n) => LostAt(i, n)'
           /\ GhostAt(i, c, n) => GhostAt(i, c, n)'
           /\ history[i].value = Value(history[i].key, n)
                 => (history[i].value = Value(history[i].key, n))'
<1>1. /\ TypeOK /\ TypeOK' /\ Forward /\ CommitsCounted /\ CommitsCounted'
    BY CountedStep DEF Stepping, StoreTold
<1>2. PICK k \in Key, v \in Txn \cup {None} : k = history[i].key /\ v = history[i].value
    BY <1>1, EventFacts
<1>3. history'[i].key = k /\ history'[i].value = v
    BY <1>2, EventsAfter
<1>4. Value(k, n)' = Value(k, n) /\ Versions(k, n)' = Versions(k, n)
    BY <1>1, ValueStays
<1>5. LostAt(i, n) => LostAt(i, n)'
    <2>1. LostAt(i, n) <=> v # Value(k, n) /\ Versions(k, n) # {}
        BY <1>2 DEF LostAt
    <2>2. LostAt(i, n)' <=> v # Value(k, n)' /\ Versions(k, n)' # {}
        BY <1>3 DEF LostAt
    <2> QED
        BY <1>4, <2>1, <2>2
<1>6. ASSUME GhostAt(i, c, n)
      PROVE  GhostAt(i, c, n)'
    <2>1. /\ v \in Txn /\ v # Value(k, n) /\ write_set[v][k] = "put"
          /\ \E j \in WritesOf(history, v, k) : j < c
          /\ \E j \in Places(history, "Begin") : j < c /\ history[j].txn = v
        BY <1>2, <1>6 DEF GhostAt
    <2>2. write_set'[v][k] = "put"
        BY <1>1, <2>1 DEF Forward
    <2>3. \E j \in WritesOf(history', v, k) : j < c
        <3>1. PICK j \in WritesOf(history, v, k) : j < c
            BY <2>1
        <3>2. j \in Places(history', "Write") /\ history'[j] = history[j]
            BY EventsAfter DEF WritesOf
        <3>3. j \in WritesOf(history', v, k)
            BY <3>2 DEF WritesOf
        <3> QED
            BY <3>1, <3>3
    <2>4. \E j \in Places(history', "Begin") : j < c /\ history'[j].txn = v
        <3>1. PICK j \in Places(history, "Begin") : j < c /\ history[j].txn = v
            BY <2>1
        <3>2. j \in Places(history', "Begin") /\ history'[j] = history[j]
            BY EventsAfter
        <3> QED
            BY <3>1, <3>2
    <2>5. v # Value(k, n)'
        BY <1>4, <2>1
    <2> QED
        BY <1>3, <2>1, <2>2, <2>3, <2>4, <2>5 DEF GhostAt
<1>7. history[i].value = Value(history[i].key, n)
        => (history[i].value = Value(history[i].key, n))'
    BY <1>2, <1>3, <1>4
<1> QED
    BY <1>5, <1>6, <1>7

\* A wrong recovered value is a flaw, of the kind it is called.
LEMMA RecoveryFlawsStep ==
    ASSUME NEW e, Stepping(e), Crashed(history),
           NEW c \in 1 .. Len(history), NEW n \in 0 .. Len(commits), AfterCrash(c, n)
    PROVE  RecoveryFlaws(c, n)'
<1>1. /\ TypeOK /\ TypeOK' /\ Forward /\ CommitsCounted /\ CommitsCounted' /\ WritesTold
      /\ BeginsTold /\ Does(e) /\ ~ Crashes(e)
    BY CountedStep, AfterCrashFacts DEF Stepping, StoreTold
<1>2. /\ \A i \in Places(history, "Recovered") : history'[i] = history[i]
      /\ Places(history, "Recovered") \subseteq Places(history', "Recovered")
    BY EventsAfter
<1>3. RecoveryFlaws(c, n) /\ Resting(c, n)
    BY DEF AfterCrash
<1>4. /\ "lost" \in flaws =>
            \E i \in Places(history', "Recovered") : LostAt(i, n)'
      /\ "ghost" \in flaws =>
            \E i \in Places(history', "Recovered") : GhostAt(i, c, n)'
      /\ {"lost", "ghost"} \cap flaws = {} =>
            \A i \in Places(history, "Recovered") : (history[i].value = Value(history[i].key, n))'
    BY <1>2, <1>3, FlawsStay DEF RecoveryFlaws
<1>5. CASE Recovers(e)
    <2>1. PICK k \in Key, v \in Txn \cup {None} :
              /\ Recover(k)
              /\ e = Recovered(k, v)
              /\ IF v = Value(k, next_ts)
                 THEN flaws' = flaws
                 ELSE /\ v \in Rumoured(k)
                      /\ flaws' = flaws \cup
                            {IF v = None \/ IsCommitted(v) THEN "lost" ELSE "ghost"}
        BY <1>5 DEF Recovers
    <2>2. e.type = "Recovered" /\ e.key = k /\ e.value = v
        BY <2>1 DEF Recovered
    <2>3. PICK m : m = Len(history) + 1
        OBVIOUS
    <2>4. /\ Places(history', "Recovered") = Places(history, "Recovered") \cup {m}
          /\ history'[m].key = k /\ history'[m].value = v
        BY <2>2, <2>3, EventsAfter
    <2>5. /\ Len(commits) = n
          /\ \A i \in Places(history, "Begin") \cup Places(history, "Write") : i < c
        BY <1>3, <2>1 DEF Resting, Recover, Recovering
    <2>6. Value(k, next_ts) = Value(k, n)
        BY <1>1, <2>5, ValueNow
    <2>7. Value(k, n)' = Value(k, n) /\ Versions(k, n)' = Versions(k, n)
        BY <1>1, ValueStays
    <2>8. CASE v = Value(k, next_ts)
        <3>1. flaws' = flaws
            BY <2>1, <2>8
        <3>2. (history[m].value = Value(history[m].key, n))'
            BY <2>4, <2>6, <2>7, <2>8
        <3>3. {"lost", "ghost"} \cap flaws = {} =>
                  \A i \in Places(history', "Recovered") :
                      (history[i].value = Value(history[i].key, n))'
            BY <1>4, <2>4, <3>2
        <3> QED
            BY <1>4, <3>1, <3>3 DEF RecoveryFlaws
    <2>9. CASE v # Value(k, next_ts) /\ (v = None \/ IsCommitted(v))
        <3>1. flaws' = flaws \cup {"lost"} /\ v \in Rumoured(k)
            BY <2>1, <2>9
        <3>2. Versions(k, n) # {}
            <4>1. CASE v = None
                BY <2>6, <2>9, <4>1 DEF Value
            <4>2. CASE v # None /\ IsCommitted(v)
                <5>1. PICK j \in 1 .. Len(commits) : commits[j].txn = v
                    BY <4>2 DEF IsCommitted
                <5>2. write_set[v][k] # "none"
                    BY <3>1, <4>2 DEF Rumoured
                <5>3. commits[j].ts <= n
                    BY <1>1, <2>5 DEF CommitsCounted
                <5> QED
                    BY <5>1, <5>2, <5>3 DEF Versions
            <4> QED
                BY <2>9, <4>1, <4>2
        <3>3. LostAt(m, n)'
            <4>1. v # Value(k, n)' /\ Versions(k, n)' # {}
                BY <2>6, <2>7, <2>9, <3>2
            <4> QED
                BY <2>4, <4>1 DEF LostAt
        <3>4. "ghost" \in flaws' => "ghost" \in flaws
            BY <3>1
        <3> QED
            BY <1>4, <2>4, <3>1, <3>3, <3>4 DEF RecoveryFlaws
    <2>10. CASE v # Value(k, next_ts) /\ v # None /\ ~ IsCommitted(v)
        <3>1. flaws' = flaws \cup {"ghost"} /\ v \in Txn /\ write_set[v][k] = "put"
            BY <2>1, <2>10 DEF Rumoured
        <3>2. WritesOf(history, v, k) # {} /\ HasBegun(history, v)
            BY <1>1, <3>1 DEF WritesTold, BeginsTold
        <3>3. \E j \in WritesOf(history', v, k) : j < c
            <4>1. PICK j \in WritesOf(history, v, k) : j < c
                BY <2>5, <3>2 DEF WritesOf
            <4>2. j \in Places(history', "Write") /\ history'[j] = history[j]
                BY EventsAfter DEF WritesOf
            <4>3. j \in WritesOf(history', v, k)
                BY <4>2 DEF WritesOf
            <4> QED
                BY <4>1, <4>3
        <3>4. \E j \in Places(history', "Begin") : j < c /\ history'[j].txn = v
            <4>1. PICK j \in Places(history, "Begin") : j < c /\ history[j].txn = v
                BY <2>5, <3>2 DEF HasBegun
            <4>2. j \in Places(history', "Begin") /\ history'[j] = history[j]
                BY EventsAfter
            <4> QED
                BY <4>1, <4>2
        <3>5. v # Value(k, n)'
            BY <2>6, <2>7, <2>10
        <3>6. write_set'[v][k] = "put"
            BY <1>1, <3>1 DEF Forward
        <3>7. GhostAt(m, c, n)'
            BY <2>4, <3>1, <3>3, <3>4, <3>5, <3>6 DEF GhostAt
        <3>8. "lost" \in flaws' => "lost" \in flaws
            BY <3>1
        <3> QED
            BY <1>4, <2>4, <3>1, <3>7, <3>8 DEF RecoveryFlaws
    <2> QED
        BY <2>8, <2>9, <2>10
<1>6. CASE ~ Recovers(e)
    <2>1. e.type # "Recovered"
        BY <1>1, <1>6, TypesOfEvents DEF Does
    <2>2. Places(history', "Recovered") = Places(history, "Recovered")
        BY <2>1, EventsAfter
    <2>3. flaws' = flaws \/ flaws' = flaws \cup {"misread"} \/ flaws' = flaws \cup {"conflict"}
        <3>1. CASE Reads(e)
            BY <3>1 DEF Reads
        <3>2. CASE Begins(e) \/ Aborts(e) \/ Writes(e)
            BY <3>2 DEF Begins, Aborts, Writes, BeginTxn, AbortTxn, Change
        <3>3. CASE Commits(e)
            BY <3>3 DEF Commits, CommitTxn, HasFlaw
        <3> QED
            BY <1>1, <1>6, <3>1, <3>2, <3>3 DEF Does
    <2>4. /\ "lost" \in flaws' <=> "lost" \in flaws
          /\ "ghost" \in flaws' <=> "ghost" \in flaws
        BY <2>3
    <2> QED
        BY <1>4, <2>2, <2>4 DEF RecoveryFlaws
<1> QED
    BY <1>5, <1>6

\* The crash itself: every event is before it.
LEMMA CrashStep ==
    ASSUME NEW e, Stepping(e), Crashes(e), NEW c, c = Len(history) + 1,
           NEW n, n = Len(commits')
    PROVE  AfterCrash(c, n)'
<1>1. /\ TypeOK /\ TypeOK' /\ CommitsCounted /\ CommitsTold /\ Forward /\ StoreTold
      /\ ProcessCrash /\ e = Crash /\ e.type = "Crash"
    BY TypesOfEvents DEF Stepping, StoreTold, Crashes
<1>2. /\ Len(commits) \in Nat /\ Len(commits') \in Nat /\ Len(commits) <= n
      /\ Len(history) \in Nat
    BY <1>1 DEF TypeOK, Forward
<1>3. NothingRecovered /\ Places(history, "Crash") = {}
    BY <1>1 DEF StoreTold, CrashesTold, ProcessCrash, Crashed
<1>4. Places(history', "Crash") = {c}
    BY <1>1, <1>3, EventsAfter
<1>5. ASSUME NEW type, type # "Crash"
      PROVE  /\ Places(history', type) = Places(history, type)
             /\ \A i \in Places(history', type) : i < c /\ history'[i] = history[i]
    <2>1. /\ Places(history, type) \subseteq 1 .. Len(history)
          /\ Places(history', type) = Places(history, type)
          /\ \A i \in Places(history, type) : history'[i] = history[i]
        BY <1>1, <1>5, EventsAfter
    <2> QED
        BY <1>2, <2>1
<1>6. \A i \in Places(history', "Commit") : i < c /\ history'[i].commit_ts <= n
    BY <1>1, <1>2, <1>5 DEF CommitsTold
<1>7. ASSUME NEW t \in unheard'
      PROVE  n > 0 /\ commits'[n].txn = t
    <2>1. unheard = {}
        BY <1>3 DEF NothingRecovered
    <2>2. PICK u \in Txn : commits' = Append(commits, [txn |-> u, ts |-> next_ts]) /\ unheard' = {u}
        BY <1>1, <1>7, <2>1 DEF ProcessCrash
    <2>3. commits \in Seq([txn : Txn, ts : Nat])
        BY <1>1 DEF TypeOK
    <2> QED
        BY <1>2, <1>7, <2>2, <2>3
<1>8. CrashTold(c, n)'
    <2>1. ASSUME NEW i \in Places(history', "Write")
          PROVE  ~ (i > c)
        <3>1. i < c /\ i \in 1 .. Len(history')
            BY <1>5 DEF Places
        <3> QED
            BY <1>2, <3>1
    <2> QED
        BY <1>4, <1>6, <1>7, <2>1 DEF CrashTold
<1>9. Resting(c, n)'
    <2>1. \A t \in Txn : state'[t] # "ACTIVE"
        BY <1>1 DEF ProcessCrash
    <2>2. \A i \in Places(history', "Begin") \cup Places(history', "Write") : i < c
        BY <1>5
    <2>3. Len(commits') = n
        OBVIOUS
    <2> QED
        BY <2>1, <2>2, <2>3 DEF Resting
<1>10. RecoveryTold(c)' /\ RecoveryFlaws(c, n)'
    <2>1. Places(history', "Recovered") = {} /\ {"lost", "ghost"} \cap flaws' = {}
        BY <1>1, <1>3, <1>5 DEF NothingRecovered, ProcessCrash
    <2>2. Key \ unlisted' = {}
        BY <1>1 DEF ProcessCrash
    <2> QED
        BY <2>1, <2>2 DEF RecoveryTold, RecoveryFlaws
<1> QED
    BY <1>8, <1>9, <1>10 DEF AfterCrash

\* What is known of each crash stays true.
LEMMA CrashesStep ==
    ASSUME NEW e, Stepping(e)
    PROVE  CrashesTold'
<1>1. /\ TypeOK /\ TypeOK' /\ Forward /\ StoreTold /\ Does(e) /\ CrashesTold
    BY DEF Stepping, StoreTold
<1>2. /\ Len(history) \in Nat /\ Len(history') = Len(history) + 1
      /\ Len(commits) \in Nat /\ Len(commits') \in Nat /\ Len(commits) <= Len(commits')
    <2>1. Len(history) \in Nat /\ Len(history') = Len(history) + 1
        BY <1>1, PastStays
    <2>2. Len(commits) \in Nat /\ Len(commits') \in Nat /\ Len(commits) <= Len(commits')
        BY <1>1 DEF TypeOK, Forward
    <2> QED
        BY <2>1, <2>2
<1>3. CASE Crashes(e)
    <2>1. PICK c, n : c = Len(history) + 1 /\ n = Len(commits')
        OBVIOUS
    <2>2. AfterCrash(c, n)'
        BY <1>3, <2>1, CrashStep
    <2>3. c \in 1 .. Len(history') /\ n \in 0 .. Len(commits')
        BY <1>2, <2>1
    <2>4. Crashed(history')
        BY <2>2 DEF AfterCrash, CrashTold, Crashed
    <2> QED
        BY <2>2, <2>3, <2>4 DEF CrashesTold
<1>4. CASE ~ Crashes(e) /\ Crashed(history)
    <2>1. PICK c \in 1 .. Len(history), n \in 0 .. Len(commits) : AfterCrash(c, n)
        BY <1>1, <1>4 DEF CrashesTold
    <2>2. AfterCrash(c, n)'
        <3>1. CrashTold(c, n) /\ Resting(c, n) /\ RecoveryTold(c)
            BY <2>1 DEF AfterCrash
        <3>2. CrashTold(c, n)'
            BY <1>4, <3>1, CrashToldStep
        <3>3. Resting(c, n)'
            BY <1>4, <3>1, RestingStep
        <3>4. RecoveryTold(c)'
            BY <1>4, <3>1, RecoveryToldStep
        <3>5. RecoveryFlaws(c, n)'
            BY <1>4, <2>1, RecoveryFlawsStep
        <3> QED
            BY <3>2, <3>3, <3>4, <3>5 DEF AfterCrash
    <2>3. c \in 1 .. Len(history') /\ n \in 0 .. Len(commits')
        BY <1>2
    <2>4. Crashed(history')
        BY <2>2 DEF AfterCrash, CrashTold, Crashed
    <2> QED
        BY <2>2, <2>3, <2>4 DEF CrashesTold
<1>5. CASE ~ Crashes(e) /\ ~ Crashed(history)
    <2>1. NothingRecovered
        BY <1>1, <1>5 DEF CrashesTold
    <2>2. ~ Recovers(e)
        BY <2>1 DEF Recovers, Recover, NothingRecovered
    <2>3. e.type # "Crash" /\ e.type # "Recovered"
        BY <1>1, <1>5, <2>2, TypesOfEvents DEF Does
    <2>4. ~ Crashed(history') /\ Places(history', "Recovered") = {}
        BY <1>5, <2>1, <2>3, EventsAfter DEF Crashed, NothingRecovered
    <2>5. unlisted' = unlisted /\ unheard' = unheard
        BY <1>1, <1>5, <2>2 DEF Does, Begins, Commits, Aborts, Reads, Writes,
           BeginTxn, CommitTxn, AbortTxn, Get, Misread, Change
    <2>6. flaws' = flaws \/ flaws' = flaws \cup {"misread"} \/ flaws' = flaws \cup {"conflict"}
        <3>1. CASE Reads(e)
            BY <3>1 DEF Reads
        <3>2. CASE Begins(e) \/ Aborts(e) \/ Writes(e)
            BY <3>2 DEF Begins, Aborts, Writes, BeginTxn, AbortTxn, Change
        <3>3. CASE Commits(e)
            BY <3>3 DEF Commits, CommitTxn, HasFlaw
        <3> QED
            BY <1>1, <1>5, <2>2, <3>1, <3>2, <3>3 DEF Does
    <2>7. {"lost", "ghost"} \cap flaws' = {}
        BY <2>1, <2>6 DEF NothingRecovered
    <2> QED
        BY <2>1, <2>4, <2>5, <2>7 DEF CrashesTold, NothingRecovered
<1> QED
    BY <1>3, <1>4, <1>5

-----------------------------------------------------------------------------
\* The invariant.

\* An empty history tells all there is of a new store.
LEMMA StoreToldInit ==
    ASSUME Init
    PROVE  StoreTold
<1>1. TypeOK
    BY DEF Init, TypeOK
<1>2. \A type : Places(history, type) = {}
    BY DEF Init, Places
<1>3. BeginsTold
    BY <1>2 DEF Init, BeginsTold
<1>4. CommitsCounted /\ CommitsTold /\ UnheardIsOld
    BY <1>2 DEF Init, CommitsCounted, CommitsTold, UnheardIsOld
<1>5. WritesTold /\ ReadsTold
    BY <1>2 DEF Init, WritesTold, ReadsTold
<1>6. ConflictsTold
    BY DEF Init, ConflictsTold
<1>7. CrashesTold
    BY <1>2 DEF Init, CrashesTold, Crashed, NothingRecovered
<1> QED
    BY <1>1, <1>3, <1>4, <1>5, <1>6, <1>7 DEF StoreTold

\* All of it is kept.
LEMMA StoreToldStep ==
    ASSUME StoreTold, [Next]_vars
    PROVE  StoreTold'
<1>1. CASE Next
    <2>1. TypeOK /\ CommitsCounted /\ WritesTold
        BY DEF StoreTold
    <2>2. TypeOK'
        BY <1>1, <2>1, TypeStep
    <2>3. Forward
        BY <1>1, <2>1, StepForward
    <2>4. PICK e : OneMore(history, history', e) /\ Does(e)
        BY <1>1, <2>1, StepDoes
    <2>5. Stepping(e)
        BY <2>2, <2>3, <2>4 DEF Stepping
    <2>6. BeginsTold' /\ CommitsCounted' /\ CommitsTold' /\ UnheardIsOld'
        BY <2>5, BeginsStep, CountedStep, CommitsToldStep, UnheardStep
    <2>7. WritesTold' /\ ReadsTold' /\ ConflictsTold' /\ CrashesTold'
        BY <2>5, WritesStep, ReadsStep, ConflictsStep, CrashesStep
    <2> QED
        BY <2>2, <2>6, <2>7 DEF StoreTold
<1>2. CASE UNCHANGED vars
    <2>1. UNCHANGED <<history, state, start_ts, write_set, commits, next_ts, unlisted,
                      flaws, unheard>>
        BY <1>2 DEF vars
    <2>2. TypeOK'
        BY <2>1 DEF StoreTold, TypeOK
    <2>3. BeginsTold' /\ CommitsCounted' /\ CommitsTold' /\ UnheardIsOld'
        BY <2>1 DEF StoreTold, BeginsTold, HasBegun, CommitsCounted, CommitsTold,
           HasCommitted, UnheardIsOld, Places
    <2>4. WritesTold'
        BY <2>1 DEF StoreTold, WritesTold, WriteTold, WritesOf, ResultOf, Places
    <2>5. ReadsTold'
        <3>1. ASSUME NEW i
              PROVE  Right(i)' = Right(i)
            BY <2>1 DEF Right, OwnBefore, WritesOf, Value, Versions, ResultOf, Places
        <3> QED
            BY <2>1, <3>1 DEF StoreTold, ReadsTold, Places
    <2>6. ConflictsTold'
        BY <2>1 DEF StoreTold, ConflictsTold, Overwritten, Wrote
    <2>7. CrashesTold'
        <3>1. CASE Crashed(history)
            <4>1. PICK c \in 1 .. Len(history), n \in 0 .. Len(commits) : AfterCrash(c, n)
                BY <3>1 DEF StoreTold, CrashesTold
            <4>2. CrashTold(c, n)' /\ Resting(c, n)' /\ RecoveryTold(c)'
                BY <2>1, <4>1 DEF AfterCrash, CrashTold, Resting, RecoveryTold, Recovering, Places
            <4>3. ASSUME NEW i
                  PROVE  /\ LostAt(i, n)' = LostAt(i, n) /\ GhostAt(i, c, n)' = GhostAt(i, c, n)
                         /\ (history[i].value = Value(history[i].key, n))'
                               = (history[i].value = Value(history[i].key, n))
                BY <2>1 DEF LostAt, GhostAt, WritesOf, Value, Versions, ResultOf, Places
            <4>4. RecoveryFlaws(c, n)'
                BY <2>1, <4>1, <4>3 DEF AfterCrash, RecoveryFlaws, Places
            <4> QED
                BY <2>1, <3>1, <4>1, <4>2, <4>4 DEF CrashesTold, AfterCrash, Crashed, Places
        <3>2. CASE ~ Crashed(history)
            BY <2>1, <3>2 DEF StoreTold, CrashesTold, Crashed, NothingRecovered, Places
        <3> QED
            BY <3>1, <3>2
    <2> QED
        BY <2>2, <2>3, <2>4, <2>5, <2>6, <2>7 DEF StoreTold
<1> QED
    BY <1>1, <1>2

(***************************************************************************)
(* The history tells what the store did: it is well-formed, what is in it  *)
(* agrees with the store's own data, and a wrong value is in it exactly if *)
(* the store had that flaw.                                                *)
(***************************************************************************)
THEOREM HistoryTellsTheStore == Spec => []StoreTold
<1>1. Init => StoreTold
    BY StoreToldInit
<1>2. StoreTold /\ [Next]_vars => StoreTold'
    BY StoreToldStep
<1> QED
    BY <1>1, <1>2, PTL DEF Spec

-----------------------------------------------------------------------------
\* What the checks make of such a history, or of the part before the crash.

\* g has the commits of a set of places J, and their writes.
View(g, J) ==
    /\ Len(g) \in Nat
    /\ \A i \in Places(g, "Commit") :
          g[i].commit_ts \in J /\ commits[g[i].commit_ts].txn = g[i].txn
    /\ \A j \in J : HasCommitted(g, commits[j].txn)
    /\ \A i \in Places(g, "Write") :
          /\ write_set[g[i].txn][g[i].key] # "none"
          /\ g[i].value = ResultOf(g[i].txn, g[i].key)
    /\ \A j \in J, k \in Key :
          Wrote(j, k) => WritesOf(g, commits[j].txn, k) # {}

\* The writers of k among those commits, and those up to a timestamp.
WritersAt(J, k) == {j \in J : Wrote(j, k)}

WritersUpTo(J, k, n) == {j \in WritersAt(J, k) : j <= n}

TxnsOf(S) == {commits[j].txn : j \in S}

SeenWriters(g, k, n) == {u \in CommittedWriters(g, k) : CommitTs(g, u) <= n}

\* The last of a non-empty set of places in g.
LEMMA LastPlace ==
    ASSUME NEW g, Len(g) \in Nat, NEW S, S \subseteq 1 .. Len(g), S # {}
    PROVE  Max(S) \in S /\ \A i \in S : i <= Max(S)
<1>1. S \subseteq 0 .. Len(g)
    OBVIOUS
<1> QED
    BY <1>1, MaxFacts

\* A commit's timestamp in g is its place.
LEMMA CommitTsOfView ==
    ASSUME TypeOK, CommitsCounted, NEW g, NEW J, J \subseteq 1 .. Len(commits), View(g, J),
           NEW j \in J
    PROVE  CommitTs(g, commits[j].txn) = j
<1>1. PICK S : S = {i \in Places(g, "Commit") : g[i].txn = commits[j].txn}
    OBVIOUS
<1>2. S # {} /\ S \subseteq 1 .. Len(g) /\ Len(g) \in Nat
    BY <1>1 DEF View, HasCommitted, Places
<1>3. Max(S) \in S
    BY <1>2, LastPlace
<1>4. /\ g[Max(S)].commit_ts \in J
      /\ commits[g[Max(S)].commit_ts].txn = commits[j].txn
    BY <1>1, <1>3 DEF View
<1>5. g[Max(S)].commit_ts = j
    BY <1>4 DEF CommitsCounted
<1> QED
    BY <1>1, <1>5 DEF CommitTs

\* The value of a write is what its transaction left.
LEMMA ValueOfView ==
    ASSUME NEW g, NEW J, View(g, J), NEW t, NEW k, WritesOf(g, t, k) # {}
    PROVE  /\ ValueOf(g, t, k) = ResultOf(t, k)
           /\ write_set[t][k] # "none"
           /\ Max(WritesOf(g, t, k)) \in WritesOf(g, t, k)
<1>1. WritesOf(g, t, k) \subseteq 1 .. Len(g) /\ Len(g) \in Nat
    BY DEF WritesOf, Places, View
<1>2. Max(WritesOf(g, t, k)) \in WritesOf(g, t, k)
    BY <1>1, LastPlace
<1>3. PICK i : i = Max(WritesOf(g, t, k))
    OBVIOUS
<1>4. i \in Places(g, "Write") /\ g[i].txn = t /\ g[i].key = k
    BY <1>2, <1>3 DEF WritesOf
<1> QED
    BY <1>2, <1>3, <1>4 DEF ValueOf, View

\* The committed writers of k.
LEMMA WritersOfView ==
    ASSUME TypeOK, NEW g, NEW J, J \subseteq 1 .. Len(commits), View(g, J), NEW k \in Key
    PROVE  CommittedWriters(g, k) = TxnsOf(WritersAt(J, k))
<1>1. ASSUME NEW t \in CommittedWriters(g, k)
      PROVE  t \in TxnsOf(WritersAt(J, k))
    <2>1. HasCommitted(g, t) /\ WritesOf(g, t, k) # {}
        BY DEF CommittedWriters
    <2>2. PICK i \in Places(g, "Commit") : g[i].txn = t
        BY <2>1 DEF HasCommitted
    <2>3. PICK j \in J : commits[j].txn = t
        BY <2>2 DEF View
    <2>4. write_set[t][k] # "none"
        BY <2>1, ValueOfView
    <2> QED
        BY <2>3, <2>4 DEF TxnsOf, WritersAt, Wrote
<1>2. ASSUME NEW t \in TxnsOf(WritersAt(J, k))
      PROVE  t \in CommittedWriters(g, k)
    <2>1. PICK j \in J : Wrote(j, k) /\ commits[j].txn = t
        BY DEF TxnsOf, WritersAt
    <2>2. t \in Txn
        BY <2>1, CommitTypes
    <2> QED
        BY <2>1, <2>2 DEF View, CommittedWriters
<1> QED
    BY <1>1, <1>2

\* Which of them are seen at a timestamp.
LEMMA SeenOfView ==
    ASSUME TypeOK, CommitsCounted, NEW g, NEW J, J \subseteq 1 .. Len(commits), View(g, J),
           NEW k \in Key, NEW n
    PROVE  SeenWriters(g, k, n) = TxnsOf(WritersUpTo(J, k, n))
<1>1. CommittedWriters(g, k) = TxnsOf(WritersAt(J, k))
    BY WritersOfView
<1>2. \A j \in WritersAt(J, k) : CommitTs(g, commits[j].txn) = j
    BY CommitTsOfView DEF WritersAt
<1> QED
    BY <1>1, <1>2 DEF SeenWriters, TxnsOf, WritersUpTo

\* The newest of some commits is the last of them.
LEMMA NewestOfView ==
    ASSUME TypeOK, CommitsCounted, NEW g, NEW J, J \subseteq 1 .. Len(commits), View(g, J),
           NEW S, S \subseteq J, S # {}
    PROVE  /\ Max(S) \in S /\ \A j \in S : j <= Max(S)
           /\ Newest(g, TxnsOf(S)) = commits[Max(S)].txn
<1>1. Max(S) \in S /\ \A j \in S : j <= Max(S)
    <2>1. S \subseteq 1 .. Len(commits) /\ Len(commits) \in Nat
        BY DEF TypeOK
    <2> QED
        BY <2>1, LastPlace
<1>2. PICK m \in S : m = Max(S)
    BY <1>1
<1>3. \A j \in S : CommitTs(g, commits[j].txn) = j
    BY CommitTsOfView
<1>4. /\ commits[m].txn \in TxnsOf(S)
      /\ \A u \in TxnsOf(S) : CommitTs(g, u) <= CommitTs(g, commits[m].txn)
    BY <1>1, <1>2, <1>3 DEF TxnsOf
<1>5. ASSUME NEW t \in TxnsOf(S),
             \A u \in TxnsOf(S) : CommitTs(g, u) <= CommitTs(g, t)
      PROVE  t = commits[m].txn
    <2>1. PICK j \in S : t = commits[j].txn
        BY DEF TxnsOf
    <2>2. m <= j
        BY <1>2, <1>3, <1>4, <1>5, <2>1
    <2>3. j <= m /\ j \in Nat /\ m \in Nat
        BY <1>1, <1>2
    <2>4. j = m
        BY <2>2, <2>3
    <2> QED
        BY <2>1, <2>4
<1>6. Newest(g, TxnsOf(S)) = commits[m].txn
    BY <1>4, <1>5 DEF Newest
<1> QED
    BY <1>1, <1>2, <1>6

\* What g says of k at a timestamp, if it has the commits up to it.
LEMMA StateOfView ==
    ASSUME TypeOK, CommitsCounted, NEW g, NEW J, J \subseteq 1 .. Len(commits), View(g, J),
           NEW k \in Key, NEW n \in Nat, Versions(k, n) \subseteq J
    PROVE  (IF SeenWriters(g, k, n) = {} THEN None
            ELSE ValueOf(g, Newest(g, SeenWriters(g, k, n)), k)) = Value(k, n)
<1>1. WritersUpTo(J, k, n) = Versions(k, n)
    <2>1. ASSUME NEW j \in 1 .. Len(commits)
          PROVE  j <= n /\ Wrote(j, k) <=> j \in Versions(k, n)
        BY DEF Wrote, Versions, CommitsCounted
    <2> QED
        BY <2>1 DEF WritersUpTo, WritersAt, Versions
<1>2. SeenWriters(g, k, n) = TxnsOf(Versions(k, n))
    <2>1. SeenWriters(g, k, n) = TxnsOf(WritersUpTo(J, k, n))
        BY SeenOfView
    <2> QED
        BY <1>1, <2>1
<1>3. CASE Versions(k, n) = {}
    BY <1>2, <1>3 DEF Value, TxnsOf
<1>4. CASE Versions(k, n) # {}
    <2>1. PICK m \in Versions(k, n) : m = Max(Versions(k, n))
        BY <1>4, NewestOfView
    <2>2. Newest(g, SeenWriters(g, k, n)) = commits[m].txn
        BY <1>2, <1>4, <2>1, NewestOfView
    <2>3. WritesOf(g, commits[m].txn, k) # {}
        BY <1>1, <2>1 DEF View, WritersUpTo, WritersAt
    <2>4. ValueOf(g, commits[m].txn, k) = ResultOf(commits[m].txn, k)
        BY <2>3, ValueOfView
    <2>5. SeenWriters(g, k, n) # {}
        BY <1>2, <1>4 DEF TxnsOf
    <2> QED
        BY <1>4, <2>1, <2>2, <2>4, <2>5 DEF Value
<1> QED
    BY <1>3, <1>4

-----------------------------------------------------------------------------
\* The history, and the history up to the crash.

Heard(n) == {j \in 1 .. n : commits[j].txn \notin unheard}

\* The checker, from the whole history, sees the commits that were heard of.
LEMMA ViewOfHistory ==
    ASSUME StoreTold
    PROVE  View(history, Heard(Len(commits)))
<1>1. TypeOK /\ CommitsTold /\ WritesTold
    BY DEF StoreTold
<1>2. Len(history) \in Nat
    BY <1>1 DEF TypeOK
<1>3. \A i \in Places(history, "Commit") :
          /\ history[i].commit_ts \in Heard(Len(commits))
          /\ commits[history[i].commit_ts].txn = history[i].txn
    BY <1>1 DEF CommitsTold, Heard
<1>4. \A j \in Heard(Len(commits)) : HasCommitted(history, commits[j].txn)
    BY <1>1 DEF CommitsTold, Heard
<1>5. \A i \in Places(history, "Write") :
          /\ write_set[history[i].txn][history[i].key] # "none"
          /\ history[i].value = ResultOf(history[i].txn, history[i].key)
    BY <1>1 DEF WritesTold, WriteTold
<1>6. \A j \in Heard(Len(commits)), k \in Key :
          Wrote(j, k) => WritesOf(history, commits[j].txn, k) # {}
    BY <1>1, CommitTypes DEF WritesTold, Wrote, Heard
<1> QED
    BY <1>2, <1>3, <1>4, <1>5, <1>6 DEF View

\* The place of the crash, and what is before it.
LEMMA BeforeCrashFacts ==
    ASSUME StoreTold, NEW c \in 1 .. Len(history), Places(history, "Crash") = {c}
    PROVE  /\ LastCrash(history) = c
           /\ Len(BeforeCrash(history)) = c - 1
           /\ \A i \in 1 .. (c - 1) : BeforeCrash(history)[i] = history[i]
           /\ \A type : Places(BeforeCrash(history), type) = {i \in Places(history, type) : i < c}
<1>1. history \in Seq(Event) /\ Len(history) \in Nat
    BY DEF StoreTold, TypeOK
<1>2. LastCrash(history) = c
    <2>1. {c} \subseteq 1 .. Len(history)
        OBVIOUS
    <2>2. Max({c}) \in {c}
        BY <1>1, <2>1, LastPlace
    <2> QED
        BY <2>2 DEF LastCrash
<1>3. BeforeCrash(history) = SubSeq(history, 1, c - 1)
    BY <1>2 DEF BeforeCrash
<1>4. /\ Len(BeforeCrash(history)) = c - 1
      /\ \A i \in 1 .. (c - 1) : BeforeCrash(history)[i] = history[i]
    BY <1>1, <1>3
<1>5. \A type : Places(BeforeCrash(history), type) = {i \in Places(history, type) : i < c}
    BY <1>1, <1>4 DEF Places
<1> QED
    BY <1>2, <1>4, <1>5

\* From the events before a crash, it sees those of before the crash.
LEMMA ViewBeforeCrash ==
    ASSUME StoreTold, NEW c \in 1 .. Len(history), NEW n \in 0 .. Len(commits), CrashTold(c, n)
    PROVE  View(BeforeCrash(history), Heard(n))
<1>1. TypeOK /\ CommitsTold /\ CommitsCounted /\ WritesTold
    BY DEF StoreTold
<1>2. PICK g : g = BeforeCrash(history)
    OBVIOUS
<1>3. /\ Len(g) = c - 1 /\ \A i \in 1 .. (c - 1) : g[i] = history[i]
      /\ \A type : Places(g, type) = {i \in Places(history, type) : i < c}
    BY <1>2, BeforeCrashFacts DEF CrashTold
<1>4. Len(history) \in Nat /\ Len(commits) \in Nat
    BY <1>1 DEF TypeOK
<1>5. ASSUME NEW type, NEW i \in Places(g, type)
      PROVE  i \in Places(history, type) /\ i < c /\ g[i] = history[i]
    BY <1>3, <1>4 DEF Places
<1>6. \A i \in Places(g, "Commit") :
          /\ g[i].commit_ts \in Heard(n)
          /\ commits[g[i].commit_ts].txn = g[i].txn
    BY <1>1, <1>4, <1>5 DEF CommitsTold, Heard, CrashTold
<1>7. ASSUME NEW j \in Heard(n)
      PROVE  HasCommitted(g, commits[j].txn)
    <2>1. j \in 1 .. Len(commits) /\ j <= n /\ commits[j].txn \notin unheard
        BY <1>4 DEF Heard
    <2>2. PICK i \in Places(history, "Commit") : history[i].txn = commits[j].txn
        BY <1>1, <2>1 DEF CommitsTold, HasCommitted
    <2>3. history[i].commit_ts = j
        BY <1>1, <2>1, <2>2 DEF CommitsTold, CommitsCounted
    <2>4. i \in Places(g, "Commit")
        BY <1>3, <2>1, <2>2, <2>3 DEF CrashTold
    <2> QED
        BY <1>5, <2>2, <2>4 DEF HasCommitted
<1>8. \A i \in Places(g, "Write") :
          /\ write_set[g[i].txn][g[i].key] # "none"
          /\ g[i].value = ResultOf(g[i].txn, g[i].key)
    BY <1>1, <1>5 DEF WritesTold, WriteTold
<1>9. ASSUME NEW j \in Heard(n), NEW k \in Key, Wrote(j, k)
      PROVE  WritesOf(g, commits[j].txn, k) # {}
    <2>1. j \in 1 .. Len(commits) /\ j \in 1 .. n /\ commits[j].txn \in Txn
        BY <1>1, <1>4, CommitTypes DEF Heard
    <2>2. PICK i \in WritesOf(history, commits[j].txn, k) : TRUE
        BY <1>1, <1>9, <2>1 DEF WritesTold, Wrote
    <2>3. i \in Places(history, "Write") /\ history[i].txn = commits[j].txn /\ history[i].key = k
        BY DEF WritesOf
    <2>4. ~ (i > c)
        BY <2>1, <2>3 DEF CrashTold
    <2>5. i # c /\ i \in Nat /\ c \in Nat
        <3>1. c \in Places(history, "Crash")
            BY DEF CrashTold
        <3> QED
            BY <2>3, <3>1 DEF Places
    <2>6. i \in Places(g, "Write")
        BY <1>3, <2>3, <2>4, <2>5
    <2> QED
        BY <1>5, <2>3, <2>6 DEF WritesOf
<1>10. Len(g) \in Nat
    BY <1>3, <1>4
<1>11. View(g, Heard(n))
    BY <1>6, <1>7, <1>8, <1>9, <1>10 DEF View
<1> QED
    BY <1>2, <1>11

\* A transaction that has begun has its start timestamp in the history.
LEMMA StartTsTold ==
    ASSUME StoreTold, NEW t, HasBegun(history, t)
    PROVE  StartTs(history, t) = start_ts[t]
<1>1. BeginsTold /\ Len(history) \in Nat
    BY DEF StoreTold, TypeOK
<1>2. PICK S : S = {i \in Places(history, "Begin") : history[i].txn = t}
    OBVIOUS
<1>3. S # {} /\ S \subseteq 1 .. Len(history)
    BY <1>2 DEF HasBegun, Places
<1>4. Max(S) \in S
    BY <1>1, <1>3, LastPlace
<1> QED
    BY <1>1, <1>2, <1>4 DEF StartTs, BeginsTold

\* The versions of a key that no unheard commit wrote.
LEMMA HeardVersions ==
    ASSUME StoreTold, NEW k \in Key, ~ Unheard(k), NEW n
    PROVE  Versions(k, n) \subseteq Heard(Len(commits))
<1>1. TypeOK
    BY DEF StoreTold
<1> QED
    BY <1>1 DEF Versions, Heard, Unheard

\* What the checker expects of a read is what the store should have said.
LEMMA ExpectedIsRight ==
    ASSUME StoreTold, NEW i \in Places(history, "Read"), ~ Unheard(history[i].key)
    PROVE  HasBegun(history, history[i].txn) /\ Expected(history, i) = Right(i)
<1>1. TypeOK /\ CommitsCounted /\ BeginsTold /\ ReadsTold
    BY DEF StoreTold
<1>2. PICK t \in Txn, k \in Key : t = history[i].txn /\ k = history[i].key
    BY <1>1, EventFacts
<1>3. HasBegun(history, t)
    BY <1>1, <1>2 DEF ReadsTold, BeginsTold
<1>4. PICK J : J = Heard(Len(commits))
    OBVIOUS
<1>5. J \subseteq 1 .. Len(commits) /\ View(history, J)
    BY <1>4, ViewOfHistory DEF Heard
<1>6. PICK own : own = OwnBefore(i)
    OBVIOUS
<1>7. Expected(history, i) =
          IF own # {} THEN history[Max(own)].value
          ELSE IF SeenWriters(history, k, StartTs(history, t)) = {} THEN None
          ELSE ValueOf(history, Newest(history, SeenWriters(history, k, StartTs(history, t))), k)
    BY <1>2, <1>6 DEF Expected, OwnBefore, SeenWriters, Seen
<1>8. CASE own # {}
    <2>1. own \subseteq 1 .. Len(history) /\ Len(history) \in Nat
        BY <1>1, <1>6 DEF OwnBefore, WritesOf, Places, TypeOK
    <2>2. Max(own) \in own
        BY <1>8, <2>1, LastPlace
    <2>3. history[Max(own)].value = ResultOf(t, k)
        BY <1>2, <1>5, <1>6, <2>2 DEF OwnBefore, WritesOf, View
    <2> QED
        BY <1>2, <1>3, <1>6, <1>7, <1>8, <2>3 DEF Right
<1>9. CASE own = {}
    <2>1. PICK n \in Nat : n = start_ts[t]
        BY <1>1 DEF TypeOK
    <2>2. StartTs(history, t) = n
        BY <1>3, <2>1, StartTsTold
    <2>3. Versions(k, n) \subseteq J
        BY <1>2, <1>4, HeardVersions
    <2>4. (IF SeenWriters(history, k, n) = {} THEN None
           ELSE ValueOf(history, Newest(history, SeenWriters(history, k, n)), k)) = Value(k, n)
        BY <1>1, <1>5, <2>3, StateOfView
    <2>5. Expected(history, i) = Value(k, n)
        BY <1>7, <1>9, <2>2, <2>4
    <2> QED
        BY <1>2, <1>3, <1>6, <1>9, <2>1, <2>5 DEF Right
<1> QED
    BY <1>8, <1>9

-----------------------------------------------------------------------------
\* The verdicts.

\* A dirty read is one that the checker did not expect.
LEMMA DirtyIsUnexpected ==
    ASSUME StoreTold
    PROVE  DirtyReadsAreMisreads
<1>1. TypeOK /\ CommitsCounted /\ BeginsTold /\ ReadsTold
    BY DEF StoreTold
<1>2. PICK J : J = Heard(Len(commits))
    OBVIOUS
<1>3. J \subseteq 1 .. Len(commits) /\ View(history, J)
    BY <1>2, ViewOfHistory DEF Heard
<1>4. Len(history) \in Nat
    BY <1>1 DEF TypeOK
<1>5. SUFFICES ASSUME NEW i \in CheckNoDirtyRead(history)
               PROVE  i \in CheckSnapshotReads(history)
    BY DEF DirtyReadsAreMisreads
<1>6. i \in Places(history, "Read") /\ history[i].value # None
    BY DEF CheckNoDirtyRead
<1>7. PICK t \in Txn, k \in Key : t = history[i].txn /\ k = history[i].key
    BY <1>1, <1>6, EventFacts
<1>8. ASSUME NEW j \in Places(history, "Write"), history[j].key = k,
             history[j].value = history[i].value
      PROVE  history[j].txn # t /\ ~ HasCommitted(history, history[j].txn)
    <2>1. PICK sources : sources = {history[l].txn : l \in {w \in Places(history, "Write") :
                            history[w].key = history[i].key /\ history[w].value = history[i].value}}
        OBVIOUS
    <2>2. history[j].txn \in sources
        BY <1>7, <1>8, <2>1
    <2>3. \A u \in sources : ~ ValidSource(history, u, history[i].txn)
        BY <2>1 DEF CheckNoDirtyRead
    <2> QED
        BY <1>7, <2>2, <2>3 DEF ValidSource
<1>9. HasBegun(history, t)
    BY <1>1, <1>6, <1>7 DEF ReadsTold, BeginsTold
<1>10. PICK own, n : own = OwnBefore(i) /\ n = StartTs(history, t)
    OBVIOUS
<1>11. PICK seen : seen = SeenWriters(history, k, n)
    OBVIOUS
<1>12. Expected(history, i) =
          IF own # {} THEN history[Max(own)].value
          ELSE IF seen = {} THEN None
          ELSE ValueOf(history, Newest(history, seen), k)
    BY <1>7, <1>10, <1>11 DEF Expected, OwnBefore, SeenWriters, Seen
<1>13. ASSUME Expected(history, i) = history[i].value
       PROVE  FALSE
    <2>1. CASE own # {}
        <3>1. own \subseteq 1 .. Len(history)
            BY <1>10 DEF OwnBefore, WritesOf, Places
        <3>2. Max(own) \in own
            BY <1>4, <2>1, <3>1, LastPlace
        <3>3. PICK j \in own : j = Max(own)
            BY <3>2
        <3>4. j \in Places(history, "Write") /\ history[j].key = k /\ history[j].txn = t
            BY <1>7, <1>10 DEF OwnBefore, WritesOf
        <3>5. history[j].value = history[i].value
            BY <1>12, <1>13, <2>1, <3>3
        <3> QED
            BY <1>8, <3>4, <3>5
    <2>2. CASE own = {} /\ seen # {}
        <3>1. PICK S : S = WritersUpTo(J, k, n)
            OBVIOUS
        <3>2. seen = TxnsOf(S) /\ S \subseteq J
            <4>1. SeenWriters(history, k, n) = TxnsOf(WritersUpTo(J, k, n))
                BY <1>1, <1>3, SeenOfView
            <4> QED
                BY <1>11, <3>1, <4>1 DEF WritersUpTo, WritersAt
        <3>3. S # {}
            BY <2>2, <3>2 DEF TxnsOf
        <3>4. PICK m \in S : Newest(history, seen) = commits[m].txn
            BY <1>1, <1>3, <3>2, <3>3, NewestOfView
        <3>5. PICK u : u = commits[m].txn
            OBVIOUS
        <3>6. WritesOf(history, u, k) # {} /\ HasCommitted(history, u)
            BY <1>3, <3>1, <3>2, <3>5 DEF View, WritersUpTo, WritersAt
        <3>7. Max(WritesOf(history, u, k)) \in WritesOf(history, u, k)
            BY <1>3, <3>6, ValueOfView
        <3>8. PICK j \in WritesOf(history, u, k) : j = Max(WritesOf(history, u, k))
            BY <3>7
        <3>9. j \in Places(history, "Write") /\ history[j].key = k /\ history[j].txn = u
            BY DEF WritesOf
        <3>10. history[j].value = history[i].value
            BY <1>12, <1>13, <2>2, <3>4, <3>5, <3>8 DEF ValueOf
        <3> QED
            BY <1>8, <3>6, <3>9, <3>10
    <2>3. CASE own = {} /\ seen = {}
        BY <1>6, <1>12, <1>13, <2>3
    <2> QED
        BY <2>1, <2>2, <2>3
<1> QED
    BY <1>6, <1>7, <1>9, <1>13 DEF CheckSnapshotReads

(***************************************************************************)
(* A dirty read is a snapshot violation, in every history of the store.    *)
(***************************************************************************)
THEOREM DirtyReadsAreMisreadsAlways == Spec => []DirtyReadsAreMisreads
<1>1. StoreTold => DirtyReadsAreMisreads
    BY DirtyIsUnexpected
<1> QED
    BY <1>1, HistoryTellsTheStore, PTL

\* Two consecutive committed writers, as places among the commits.
LEMMA ConsecutiveFacts ==
    ASSUME StoreTold, NEW k \in Key, NEW j \in Heard(Len(commits)), Wrote(j, k),
           NEW S, S = {i \in WritersAt(Heard(Len(commits)), k) : i < j}
    PROVE  /\ {w \in CommittedWriters(history, k) :
                  CommitTs(history, w) < CommitTs(history, commits[j].txn)} = TxnsOf(S)
           /\ commits[j].txn \in CommittedWriters(history, k)
           /\ S # {} => /\ Max(S) \in S /\ \A i \in S : i <= Max(S)
                        /\ Newest(history, TxnsOf(S)) = commits[Max(S)].txn
                        /\ CommitTs(history, commits[Max(S)].txn) = Max(S)
           /\ StartTs(history, commits[j].txn) = start_ts[commits[j].txn]
<1>1. TypeOK /\ CommitsCounted /\ BeginsTold
    BY DEF StoreTold
<1>2. PICK J : J = Heard(Len(commits))
    OBVIOUS
<1>3. J \subseteq 1 .. Len(commits) /\ View(history, J) /\ j \in J /\ S \subseteq J
    BY <1>2, ViewOfHistory DEF Heard, WritersAt
<1>4. CommittedWriters(history, k) = TxnsOf(WritersAt(J, k))
    BY <1>1, <1>3, WritersOfView
<1>5. \A i \in J : CommitTs(history, commits[i].txn) = i
    BY <1>1, <1>3, CommitTsOfView
<1>6. {w \in CommittedWriters(history, k) :
          CommitTs(history, w) < CommitTs(history, commits[j].txn)} = TxnsOf(S)
    BY <1>2, <1>3, <1>4, <1>5 DEF TxnsOf, WritersAt
<1>7. commits[j].txn \in CommittedWriters(history, k)
    BY <1>3, <1>4 DEF TxnsOf, WritersAt
<1>8. ASSUME S # {}
      PROVE  /\ Max(S) \in S /\ \A i \in S : i <= Max(S)
             /\ Newest(history, TxnsOf(S)) = commits[Max(S)].txn
             /\ CommitTs(history, commits[Max(S)].txn) = Max(S)
    <2>1. /\ Max(S) \in S /\ \A i \in S : i <= Max(S)
          /\ Newest(history, TxnsOf(S)) = commits[Max(S)].txn
        BY <1>1, <1>3, <1>8, NewestOfView
    <2> QED
        BY <1>3, <1>5, <2>1
<1>9. StartTs(history, commits[j].txn) = start_ts[commits[j].txn]
    <2>1. commits[j].txn \in Txn /\ state[commits[j].txn] # "UNBORN"
        BY <1>1, <1>3, CommitTypes DEF CommitsCounted
    <2>2. HasBegun(history, commits[j].txn)
        BY <1>1, <2>1 DEF BeginsTold
    <2> QED
        BY <2>2, StartTsTold
<1> QED
    BY <1>6, <1>7, <1>8, <1>9

\* Without a conflict, who wrote next had seen what was before.
LEMMA AlarmsOfNoConflict ==
    ASSUME StoreTold
    PROVE  LostUpdateAlarms
<1>1. TypeOK /\ ConflictsTold
    BY DEF StoreTold
<1>2. SUFFICES ASSUME "conflict" \notin flaws, NEW a \in CheckLostUpdate(history)
               PROVE  CommitTs(history, a[2]) = StartTs(history, a[3])
    BY DEF LostUpdateAlarms
<1>3. PICK k \in Key, t \in Txn, u \in Txn : a = <<k, t, u>>
    BY DEF CheckLostUpdate
<1>4. a[1] = k /\ a[2] = t /\ a[3] = u
    BY <1>3
<1>5. Consecutive(history, k, t, u) /\ CommitTs(history, t) >= StartTs(history, u)
    BY <1>4 DEF CheckLostUpdate
<1>6. PICK J : J = Heard(Len(commits))
    OBVIOUS
<1>7. J \subseteq 1 .. Len(commits) /\ View(history, J) /\ Len(commits) \in Nat
    BY <1>1, <1>6, ViewOfHistory DEF Heard, TypeOK
<1>8. CommittedWriters(history, k) = TxnsOf(WritersAt(J, k))
    BY <1>1, <1>7, WritersOfView
<1>9. PICK j \in J : Wrote(j, k) /\ u = commits[j].txn
    BY <1>5, <1>8 DEF Consecutive, TxnsOf, WritersAt
<1>10. PICK S : S = {i \in WritersAt(Heard(Len(commits)), k) : i < j}
    OBVIOUS
<1>11. /\ {w \in CommittedWriters(history, k) :
              CommitTs(history, w) < CommitTs(history, u)} = TxnsOf(S)
       /\ S # {} => /\ Max(S) \in S /\ \A i \in S : i <= Max(S)
                    /\ Newest(history, TxnsOf(S)) = commits[Max(S)].txn
                    /\ CommitTs(history, commits[Max(S)].txn) = Max(S)
       /\ StartTs(history, u) = start_ts[u]
    BY <1>6, <1>9, <1>10, ConsecutiveFacts
<1>12. TxnsOf(S) # {} /\ t = Newest(history, TxnsOf(S))
    BY <1>5, <1>11 DEF Consecutive
<1>13. S # {}
    BY <1>12 DEF TxnsOf
<1>14. PICK i \in S : i = Max(S) /\ CommitTs(history, t) = i
    BY <1>11, <1>12, <1>13
<1>15. i \in 1 .. Len(commits) /\ i < j /\ Wrote(i, k)
    BY <1>6, <1>7, <1>10 DEF WritersAt
<1>16. j \in 1 .. Len(commits)
    BY <1>7
<1>17. ~ Overwritten(i, j, k)
    BY <1>1, <1>2, <1>15, <1>16 DEF ConflictsTold
<1>18. start_ts[u] \in Nat
    BY <1>1 DEF TypeOK
<1>19. ~ (i > start_ts[u])
    BY <1>9, <1>15, <1>17 DEF Overwritten
<1>20. CommitTs(history, t) = StartTs(history, u)
    BY <1>5, <1>11, <1>14, <1>15, <1>18, <1>19
<1> QED
    BY <1>4, <1>20

(***************************************************************************)
(* Without a conflict that the store let pass, the check for lost updates  *)
(* complains only of updates that began right after the commit before.     *)
(***************************************************************************)
THEOREM LostUpdateAlarmsAlways == Spec => []LostUpdateAlarms
<1>1. StoreTold => LostUpdateAlarms
    BY AlarmsOfNoConflict
<1> QED
    BY <1>1, HistoryTellsTheStore, PTL

\* A recovered key has the one value that is recorded of it.
LEMMA RecoveredIsTold ==
    ASSUME StoreTold, NEW c \in 1 .. Len(history), NEW n \in 0 .. Len(commits),
           AfterCrash(c, n), NEW i \in Places(history, "Recovered")
    PROVE  RecoveredState(history, history[i].key) = history[i].value
<1>1. Len(history) \in Nat
    BY DEF StoreTold, TypeOK
<1>2. LastCrash(history) = c
    BY BeforeCrashFacts DEF AfterCrash, CrashTold
<1>3. PICK k, found : /\ k = history[i].key
                      /\ found = {l \in Places(history, "Recovered") :
                                    l > LastCrash(history) /\ history[l].key = k}
    OBVIOUS
<1>4. found = {i}
    BY <1>2, <1>3 DEF AfterCrash, RecoveryTold
<1>5. found \subseteq 1 .. Len(history)
    BY <1>3 DEF Places
<1>6. Max(found) = i
    <2>1. Max(found) \in found
        BY <1>1, <1>4, <1>5, LastPlace
    <2> QED
        BY <1>4, <2>1
<1> QED
    BY <1>3, <1>4, <1>6 DEF RecoveredState

\* What the checker takes for the state at the crash is the store's, if every
\* commit to the key was heard of.
LEMMA StateBeforeCrash ==
    ASSUME StoreTold, NEW c \in 1 .. Len(history), NEW n \in 0 .. Len(commits),
           AfterCrash(c, n), NEW k \in Key, ~ Unheard(k)
    PROVE  /\ CommittedState(BeforeCrash(history), k) = Value(k, n)
           /\ Versions(k, n) # {} => CommittedWriters(BeforeCrash(history), k) # {}
<1>1. TypeOK /\ CommitsCounted
    BY DEF StoreTold
<1>2. PICK g, J : g = BeforeCrash(history) /\ J = Heard(n)
    OBVIOUS
<1>3. /\ View(g, J) /\ J \subseteq 1 .. Len(commits)
      /\ n \in Nat /\ \A j \in J : j <= n
    <2>1. Len(commits) \in Nat
        BY <1>1 DEF TypeOK
    <2>2. View(g, J)
        BY <1>2, ViewBeforeCrash DEF AfterCrash
    <2> QED
        BY <1>2, <2>1, <2>2 DEF Heard
<1>4. Versions(k, n) \subseteq J
    <2>1. ASSUME NEW j \in Versions(k, n)
          PROVE  j \in J
        <3>1. j \in 1 .. Len(commits) /\ commits[j].ts <= n /\ write_set[commits[j].txn][k] # "none"
            BY DEF Versions
        <3>2. j \in 1 .. n
            BY <1>1, <1>3, <3>1 DEF CommitsCounted
        <3>3. commits[j].txn \notin unheard
            BY <3>1 DEF Unheard
        <3> QED
            BY <1>2, <3>2, <3>3 DEF Heard
    <2> QED
        BY <2>1
<1>5. SeenWriters(g, k, n) = CommittedWriters(g, k)
    <2>1. CommittedWriters(g, k) = TxnsOf(WritersAt(J, k))
        BY <1>1, <1>3, WritersOfView
    <2>2. SeenWriters(g, k, n) = TxnsOf(WritersUpTo(J, k, n))
        BY <1>1, <1>3, SeenOfView
    <2>3. WritersUpTo(J, k, n) = WritersAt(J, k)
        BY <1>3 DEF WritersUpTo, WritersAt
    <2> QED
        BY <2>1, <2>2, <2>3
<1>6. (IF SeenWriters(g, k, n) = {} THEN None
       ELSE ValueOf(g, Newest(g, SeenWriters(g, k, n)), k)) = Value(k, n)
    BY <1>1, <1>3, <1>4, StateOfView
<1>7. CommittedState(g, k) = Value(k, n)
    BY <1>5, <1>6 DEF CommittedState
<1>8. ASSUME Versions(k, n) # {}
      PROVE  CommittedWriters(g, k) # {}
    <2>1. PICK j \in J : Wrote(j, k)
        BY <1>4, <1>8 DEF Versions, Wrote
    <2>2. CommittedWriters(g, k) = TxnsOf(WritersAt(J, k))
        BY <1>1, <1>3, WritersOfView
    <2> QED
        BY <2>1, <2>2 DEF TxnsOf, WritersAt
<1> QED
    BY <1>2, <1>7, <1>8

\* A store without a flaw is found to be without one.
LEMMA SilentIfRight ==
    ASSUME StoreTold
    PROVE  NoFalseAlarm
<1>1. TypeOK /\ CommitsCounted /\ ReadsTold /\ CrashesTold
    BY DEF StoreTold
<1>2. SUFFICES ASSUME ~ Recovering, flaws = {}
               PROVE  /\ \A k \in CheckDurability(history) : Unheard(k)
                      /\ \A a \in CheckAtomicity(history) : a[1] \in unheard
                      /\ \A i \in CheckSnapshotReads(history)
                                \cup CheckNoDirtyRead(history) : Unheard(history[i].key)
    BY DEF NoFalseAlarm
<1>3. ASSUME NEW i \in CheckSnapshotReads(history) \cup CheckNoDirtyRead(history)
      PROVE  Unheard(history[i].key)
    <2>1. i \in CheckSnapshotReads(history)
        BY DirtyIsUnexpected DEF DirtyReadsAreMisreads
    <2>2. i \in Places(history, "Read") /\ history[i].value # Expected(history, i)
        BY <2>1 DEF CheckSnapshotReads
    <2>3. history[i].value = Right(i)
        BY <1>1, <1>2, <2>2 DEF ReadsTold
    <2> QED
        BY <2>2, <2>3, ExpectedIsRight
<1>4. CASE ~ Crashed(history)
    BY <1>3, <1>4 DEF CheckDurability, CheckAtomicity
<1>5. ASSUME NEW c \in 1 .. Len(history), NEW n \in 0 .. Len(commits), AfterCrash(c, n)
      PROVE  /\ \A k \in CheckDurability(history) : Unheard(k)
             /\ \A a \in CheckAtomicity(history) : a[1] \in unheard
    <2>1. ASSUME NEW k \in Key
          PROVE  RecoveredState(history, k) = Value(k, n)
        <3>1. k \in Key \ unlisted
            BY <1>2 DEF Recovering
        <3>2. PICK i \in Places(history, "Recovered") : history[i].key = k
            BY <1>5, <3>1 DEF AfterCrash, RecoveryTold
        <3>3. history[i].value = Value(k, n)
            BY <1>2, <1>5, <3>2 DEF AfterCrash, RecoveryFlaws
        <3> QED
            BY <1>5, <3>2, <3>3, RecoveredIsTold
    <2>2. ASSUME NEW k \in CheckDurability(history)
          PROVE  Unheard(k)
        <3>1. /\ k \in Key
              /\ RecoveredState(history, k) # CommittedState(BeforeCrash(history), k)
            BY DEF CheckDurability
        <3> QED
            BY <1>5, <2>1, <3>1, StateBeforeCrash
    <2>3. ASSUME NEW a \in CheckAtomicity(history)
          PROVE  a[1] \in unheard
        <3>1. PICK t, k : t = a[1] /\ k = a[2]
            OBVIOUS
        <3>2. PICK g : g = BeforeCrash(history)
            OBVIOUS
        <3>3. /\ k \in Key /\ WritesOf(g, t, k) # {}
              /\ ValueOf(g, t, k) # None
              /\ ValueOf(g, t, k) = RecoveredState(history, k)
              /\ ValueOf(g, t, k) # CommittedState(g, k)
            BY <3>1, <3>2 DEF CheckAtomicity
        <3>4. View(g, Heard(n))
            BY <1>5, <3>2, ViewBeforeCrash DEF AfterCrash
        <3>5. ValueOf(g, t, k) = ResultOf(t, k)
            BY <3>3, <3>4, ValueOfView
        <3>6. ResultOf(t, k) = t /\ Value(k, n) = t /\ t # None
            BY <2>1, <3>3, <3>5 DEF ResultOf
        <3>7. Unheard(k)
            BY <1>5, <3>2, <3>3, <3>5, <3>6, StateBeforeCrash
        <3>8. PICK u \in unheard : write_set[u][k] # "none"
            BY <3>7 DEF Unheard
        <3>9. n \in 1 .. Len(commits) /\ commits[n].txn = u
            BY <1>1, <1>5 DEF AfterCrash, CrashTold, TypeOK
        <3>10. n \in Versions(k, n) /\ \A j \in Versions(k, n) : j <= n
            BY <1>1, <3>8, <3>9 DEF Versions, CommitsCounted
        <3>11. PICK j \in Versions(k, n) : /\ \A i \in Versions(k, n) : i <= j
                                           /\ Value(k, n) = ResultOf(commits[j].txn, k)
            BY <1>1, <3>3, <3>10, ValueFacts
        <3>12. j = n
            <4>1. n <= j /\ j <= n /\ j \in Nat /\ n \in Nat
                BY <3>9, <3>10, <3>11 DEF Versions
            <4> QED
                BY <4>1
        <3>13. ResultOf(u, k) = t
            BY <3>6, <3>9, <3>11, <3>12
        <3>14. u = t
            BY <3>6, <3>13 DEF ResultOf
        <3> QED
            BY <3>1, <3>14
    <2> QED
        BY <2>2, <2>3
<1>6. CASE Crashed(history)
    <2>1. PICK c \in 1 .. Len(history), n \in 0 .. Len(commits) : AfterCrash(c, n)
        BY <1>1, <1>6 DEF CrashesTold
    <2> QED
        BY <1>3, <1>5, <2>1
<1> QED
    BY <1>4, <1>6

(***************************************************************************)
(* No false alarm: on a history of a store without a flaw, the checks for  *)
(* durability, atomicity, snapshot reads and dirty reads are silent, but   *)
(* for what the unacknowledged commit wrote that survived the crash.       *)
(***************************************************************************)
THEOREM NoFalseAlarmEver == Spec => []NoFalseAlarm
<1>1. StoreTold => NoFalseAlarm
    BY SilentIfRight
<1> QED
    BY <1>1, HistoryTellsTheStore, PTL

\* A value that should not have been returned is found.
LEMMA MisreadIsFound ==
    ASSUME StoreTold, "misread" \in flaws, unheard = {}
    PROVE  CheckSnapshotReads(history) # {}
<1>1. ReadsTold
    BY DEF StoreTold
<1>2. PICK i \in Places(history, "Read") : history[i].value # Right(i)
    BY <1>1 DEF ReadsTold
<1>3. ~ Unheard(history[i].key)
    BY DEF Unheard
<1>4. HasBegun(history, history[i].txn) /\ Expected(history, i) = Right(i)
    BY <1>3, ExpectedIsRight
<1> QED
    BY <1>2, <1>4 DEF CheckSnapshotReads

\* A commit over one that was not seen is found.
LEMMA ConflictIsFound ==
    ASSUME StoreTold, "conflict" \in flaws
    PROVE  \E a \in CheckLostUpdate(history) :
              CommitTs(history, a[2]) > StartTs(history, a[3])
<1>1. TypeOK /\ ConflictsTold
    BY DEF StoreTold
<1>2. PICK i \in 1 .. Len(commits), j \in 1 .. Len(commits), k \in Key :
          Overwritten(i, j, k) /\ {commits[i].txn, commits[j].txn} \cap unheard = {}
    BY <1>1 DEF ConflictsTold
<1>3. PICK J : J = Heard(Len(commits))
    OBVIOUS
<1>4. /\ i \in J /\ j \in J /\ Wrote(i, k) /\ Wrote(j, k)
      /\ i < j /\ i > start_ts[commits[j].txn]
    BY <1>2, <1>3 DEF Heard, Overwritten
<1>5. PICK S : S = {l \in WritersAt(Heard(Len(commits)), k) : l < j}
    OBVIOUS
<1>6. PICK u \in Txn : u = commits[j].txn
    BY <1>1, CommitTypes
<1>7. i \in S
    BY <1>3, <1>4, <1>5 DEF WritersAt
<1>8. /\ {w \in CommittedWriters(history, k) :
             CommitTs(history, w) < CommitTs(history, u)} = TxnsOf(S)
      /\ u \in CommittedWriters(history, k)
      /\ Max(S) \in S /\ \A l \in S : l <= Max(S)
      /\ Newest(history, TxnsOf(S)) = commits[Max(S)].txn
      /\ CommitTs(history, commits[Max(S)].txn) = Max(S)
      /\ StartTs(history, u) = start_ts[u]
    BY <1>3, <1>4, <1>5, <1>6, <1>7, ConsecutiveFacts
<1>9. PICK m \in S : m = Max(S) /\ i <= m
    BY <1>7, <1>8
<1>10. m \in 1 .. Len(commits)
    BY <1>5 DEF WritersAt, Heard
<1>11. PICK t \in Txn : t = commits[m].txn
    BY <1>1, <1>10, CommitTypes
<1>12. CommitTs(history, t) = m /\ t = Newest(history, TxnsOf(S))
    BY <1>8, <1>9, <1>11
<1>13. TxnsOf(S) # {}
    BY <1>7 DEF TxnsOf
<1>14. Consecutive(history, k, t, u)
    BY <1>8, <1>12, <1>13 DEF Consecutive
<1>15. start_ts[u] \in Nat
    BY <1>1 DEF TypeOK
<1>16. CommitTs(history, t) > StartTs(history, u)
    BY <1>4, <1>6, <1>8, <1>9, <1>10, <1>12, <1>15
<1>17. CommitTs(history, t) >= StartTs(history, u)
    BY <1>8, <1>10, <1>12, <1>15, <1>16
<1>18. PICK a \in Key \X Txn \X Txn : a = <<k, t, u>>
    OBVIOUS
<1>19. a[1] = k /\ a[2] = t /\ a[3] = u
    BY <1>18
<1>20. a \in CheckLostUpdate(history)
    BY <1>14, <1>17, <1>19 DEF CheckLostUpdate
<1> QED
    BY <1>16, <1>19, <1>20

\* A committed write that a recovery lost is found.
LEMMA LossIsFound ==
    ASSUME StoreTold, unheard = {}, "lost" \in flaws
    PROVE  CheckDurability(history) # {}
<1>1. TypeOK /\ CrashesTold
    BY DEF StoreTold
<1>2. Crashed(history)
    BY <1>1 DEF CrashesTold, NothingRecovered
<1>3. PICK c \in 1 .. Len(history), n \in 0 .. Len(commits) : AfterCrash(c, n)
    BY <1>1, <1>2 DEF CrashesTold
<1>4. PICK i \in Places(history, "Recovered") : LostAt(i, n)
    BY <1>3 DEF AfterCrash, RecoveryFlaws
<1>5. PICK k \in Key : k = history[i].key
    BY <1>1, EventFacts
<1>6. history[i].value # Value(k, n) /\ Versions(k, n) # {}
    BY <1>4, <1>5 DEF LostAt
<1>7. RecoveredState(history, k) = history[i].value
    BY <1>3, <1>5, RecoveredIsTold
<1>8. ~ Unheard(k)
    BY DEF Unheard
<1>9. /\ CommittedState(BeforeCrash(history), k) = Value(k, n)
      /\ CommittedWriters(BeforeCrash(history), k) # {}
    BY <1>3, <1>6, <1>8, StateBeforeCrash
<1>10. k \in CheckDurability(history)
    BY <1>2, <1>6, <1>7, <1>9 DEF CheckDurability
<1> QED
    BY <1>10

\* An uncommitted write that a recovery shows is found.
LEMMA GhostIsFound ==
    ASSUME StoreTold, unheard = {}, "ghost" \in flaws
    PROVE  CheckAtomicity(history) # {}
<1>1. TypeOK /\ CrashesTold
    BY DEF StoreTold
<1>2. Crashed(history)
    BY <1>1 DEF CrashesTold, NothingRecovered
<1>3. PICK c \in 1 .. Len(history), n \in 0 .. Len(commits) : AfterCrash(c, n)
    BY <1>1, <1>2 DEF CrashesTold
<1>4. PICK i \in Places(history, "Recovered") : GhostAt(i, c, n)
    BY <1>3 DEF AfterCrash, RecoveryFlaws
<1>5. PICK k \in Key : k = history[i].key
    BY <1>1, EventFacts
<1>6. PICK v \in Txn : v = history[i].value
    BY <1>4 DEF GhostAt
<1>7. /\ v # Value(k, n) /\ write_set[v][k] = "put"
      /\ \E j \in WritesOf(history, v, k) : j < c
      /\ \E j \in Places(history, "Begin") : j < c /\ history[j].txn = v
    BY <1>4, <1>5, <1>6 DEF GhostAt
<1>8. RecoveredState(history, k) = v
    BY <1>3, <1>5, <1>6, RecoveredIsTold
<1>9. PICK g : g = BeforeCrash(history)
    OBVIOUS
<1>10. CommittedState(g, k) = Value(k, n)
    <2>1. ~ Unheard(k)
        BY DEF Unheard
    <2> QED
        BY <1>3, <1>9, <2>1, StateBeforeCrash
<1>11. /\ Len(g) = c - 1 /\ \A j \in 1 .. (c - 1) : g[j] = history[j]
       /\ \A type : Places(g, type) = {j \in Places(history, type) : j < c}
    BY <1>3, <1>9, BeforeCrashFacts DEF AfterCrash, CrashTold
<1>12. ASSUME NEW type, NEW j \in Places(history, type), j < c
       PROVE  j \in Places(g, type) /\ g[j] = history[j]
    <2>1. j \in Places(g, type)
        BY <1>11, <1>12
    <2>2. j \in 1 .. (c - 1)
        BY <1>11, <2>1 DEF Places
    <2> QED
        BY <1>11, <2>1, <2>2
<1>13. WritesOf(g, v, k) # {}
    <2>1. PICK j \in WritesOf(history, v, k) : j < c
        BY <1>7
    <2>2. j \in Places(g, "Write") /\ g[j] = history[j]
        BY <1>12, <2>1 DEF WritesOf
    <2>3. j \in WritesOf(g, v, k)
        BY <2>2 DEF WritesOf
    <2> QED
        BY <2>3
<1>14. v \in Uncommitted(g)
    <2>1. PICK j \in Places(history, "Begin") : j < c /\ history[j].txn = v
        BY <1>7
    <2>2. j \in Places(g, "Begin") /\ g[j] = history[j]
        BY <1>12, <2>1
    <2> QED
        BY <2>1, <2>2 DEF Uncommitted, HasBegun
<1>15. View(g, Heard(n))
    BY <1>3, <1>9, ViewBeforeCrash DEF AfterCrash
<1>16. ValueOf(g, v, k) = v /\ v # None
    <2>1. ValueOf(g, v, k) = ResultOf(v, k)
        BY <1>13, <1>15, ValueOfView
    <2> QED
        BY <1>7, <2>1, CheckerAssumption DEF ResultOf
<1>17. PICK a \in Uncommitted(g) \X Key : a = <<v, k>>
    BY <1>14
<1>18. a[1] = v /\ a[2] = k
    BY <1>17
<1>19. a \in CheckAtomicity(history)
    BY <1>2, <1>7, <1>8, <1>9, <1>10, <1>13, <1>16, <1>18 DEF CheckAtomicity
<1> QED
    BY <1>19

(***************************************************************************)
(* No miss: every kind of flaw is reported by the check that is there for  *)
(* it, whatever else is in the history and however many flaws there are.   *)
(***************************************************************************)
THEOREM FlawsAreReportedAlways == Spec => []FlawsAreReported
<1>1. StoreTold => FlawsAreReported
    BY MisreadIsFound, ConflictIsFound, LossIsFound, GhostIsFound DEF FlawsAreReported
<1> QED
    BY <1>1, HistoryTellsTheStore, PTL
=============================================================================
