-------------------------- MODULE DataManagerProofs --------------------------
(***************************************************************************)
(* Proofs about the row store.                                             *)
(*                                                                         *)
(* Guards    GInv: the files, the manager, the rollout and the readers     *)
(*           have their types; the WAL the writer appends to exists; a WAL *)
(*           newer than every Arrow file exists; the Arrow files that are  *)
(*           listed or guarded are older than the current WAL, each listed *)
(*           once; active_readers counts the guards and only files that    *)
(*           are read are marked for deletion.  GuardedFileStays follows   *)
(*           step by step (GuardsHold).                                    *)
(* Rows      DInv, for a directory no error met and no fresh manager went  *)
(*           over: what the WAL or the queue holds the PreBatch or the     *)
(*           batch in flight holds too (Logged); an Arrow file waits for a *)
(*           rollout or for its last reader (Listed); the name of the next *)
(*           Parquet file is free (Parquets); every row is somewhere       *)
(*           (Held).  RowsOnDisk follows (DiskHasRows).                    *)
(* Once      NInv, until a manager is restored from a directory an error   *)
(*           met or an unrestored manager went over: the rows are at       *)
(*           places (files of either kind, the rollout, the flush, the     *)
(*           PreBatch), no row at two of them or twice at one, and a step  *)
(*           moves the rows of one place to another, or loses them         *)
(*           (Sound); what a clean halt leaves is what restore() finds     *)
(*           (KnownDirectory).  NoRowTwice follows (NoRowIsTwice).         *)
(*                                                                         *)
(* restore() lists files in an order that InOrder chooses; that there is   *)
(* one, and what it lists, comes from the rank of an id in its set.        *)
(***************************************************************************)
EXTENDS DataManager, SequenceTheorems, FiniteSetTheorems, WellFoundedInduction, TLAPS

-----------------------------------------------------------------------------
(* Sets of ids *)

\* A set of ids is finite.
LEMMA FiniteIds ==
  ASSUME NEW ids, ids \subseteq 0 .. MaxWals
  PROVE  IsFiniteSet(ids) /\ Cardinality(ids) \in Nat
<1>1. IsFiniteSet(0 .. MaxWals)
  BY FS_Interval, BoundsAssumption
<1> QED
  BY <1>1, FS_Subset, FS_CardinalityType

\* Each element of a set has a rank: the number of elements up to it.
Rank(ids, key, x) == Cardinality({y \in ids : key[y] <= key[x]})

\* Elements with different keys have the ranks from one up, in the order of their keys.
LEMMA Ranks ==
  ASSUME NEW ids, ids \subseteq 0 .. MaxWals, NEW key, \A x \in ids : key[x] \in Nat,
         \A x, y \in ids : key[x] = key[y] => x = y
  PROVE  LET n == Cardinality(ids) IN
         /\ \A x \in ids : Rank(ids, key, x) \in 1 .. n
         /\ \A x, y \in ids : key[x] < key[y] => Rank(ids, key, x) < Rank(ids, key, y)
         /\ \A k \in 1 .. n : \E x \in ids : Rank(ids, key, x) = k
<1> DEFINE n == Cardinality(ids)
           upto(x) == {y \in ids : key[y] <= key[x]}
           r == [x \in ids |-> Rank(ids, key, x)]
<1>1. IsFiniteSet(ids) /\ n \in Nat
  BY FiniteIds
<1>2. ASSUME NEW x \in ids PROVE IsFiniteSet(upto(x)) /\ Cardinality(upto(x)) \in 1 .. n
  <2>1. IsFiniteSet(upto(x)) /\ Cardinality(upto(x)) <= n
    BY <1>1, FS_Subset
  <2>2. Cardinality(upto(x)) \in Nat
    BY <2>1, FS_CardinalityType
  <2>3. x \in upto(x)
    OBVIOUS
  <2>4. Cardinality(upto(x)) # 0
    BY <2>1, <2>3, FS_EmptySet
  <2> QED
    BY <2>1, <2>2, <2>4, <1>1
<1>3. ASSUME NEW x \in ids, NEW y \in ids, key[x] < key[y]
      PROVE  Rank(ids, key, x) < Rank(ids, key, y)
  <2>0. key[x] \in Nat /\ key[y] \in Nat /\ \A z \in ids : key[z] \in Nat
    OBVIOUS
  <2>1. upto(x) \subseteq upto(y)
    <3>1. \A z \in ids : key[z] <= key[x] => key[z] <= key[y]
      BY <1>3, <2>0
    <3> QED BY <3>1
  <2>2. y \in upto(y) /\ y \notin upto(x)
    <3>1. key[y] <= key[y] /\ ~(key[y] <= key[x])
      BY <1>3, <2>0
    <3> QED BY <3>1
  <2>3. Cardinality(upto(x)) <= Cardinality(upto(y))
        /\ (Cardinality(upto(y)) = Cardinality(upto(x)) => upto(y) = upto(x))
    BY <2>1, <1>2, FS_Subset
  <2>4. Cardinality(upto(x)) # Cardinality(upto(y))
    BY <2>2, <2>3
  <2>5. Cardinality(upto(x)) \in Nat /\ Cardinality(upto(y)) \in Nat
    <3>1. Cardinality(upto(x)) \in 1 .. n
      BY <1>2
    <3>2. Cardinality(upto(y)) \in 1 .. n
      BY <1>2
    <3> QED
      BY <3>1, <3>2, <1>1
  <2>6. Cardinality(upto(x)) < Cardinality(upto(y))
    BY <2>3, <2>4, <2>5
  <2> QED
    BY <2>6 DEF Rank
<1>4. r \in [ids -> 1 .. n]
  BY <1>2 DEF Rank
<1>5. r \in Injection(ids, 1 .. n)
  <2>1. ASSUME NEW x \in ids, NEW y \in ids, r[x] = r[y] PROVE x = y
    <3>1. Rank(ids, key, x) = Rank(ids, key, y) /\ Rank(ids, key, x) \in Nat
      <4>1. r[x] \in 1 .. n
        BY <1>4
      <4>2. r[x] = Rank(ids, key, x) /\ r[y] = Rank(ids, key, y)
        OBVIOUS
      <4> QED
        BY <4>1, <4>2, <2>1, <1>1
    <3>2. ~(key[x] < key[y])
      BY <1>3, <3>1
    <3>3. ~(key[y] < key[x])
      BY <1>3, <3>1
    <3>4. key[x] \in Nat /\ key[y] \in Nat
      OBVIOUS
    <3>5. key[x] = key[y]
      BY <3>2, <3>3, <3>4
    <3> QED
      BY <3>5
  <2> QED
    BY <1>4, <2>1 DEF Injection, IsInjective
<1>6. IsFiniteSet(1 .. n) /\ Cardinality(1 .. n) = n
  BY <1>1, FS_Interval
<1>7. r \in Surjection(ids, 1 .. n)
  BY <1>5, <1>6, FS_Injection
<1>8. \A k \in 1 .. n : \E x \in ids : r[x] = k
  BY <1>7 DEF Surjection
<1> QED
  BY <1>2, <1>3, <1>8 DEF Rank

\* Max is the greatest of a set of ids.
LEMMA MaxIsGreatest ==
  ASSUME NEW ids, ids \subseteq 0 .. MaxWals, ids # {}
  PROVE  Max(ids) \in ids /\ \A x \in ids : x <= Max(ids)
<1> DEFINE key == [x \in 0 .. MaxWals |-> x]
           n == Cardinality(ids)
<1>1. IsFiniteSet(ids) /\ n \in Nat /\ n # 0
  BY FiniteIds, FS_EmptySet
<1>2. \A x \in ids : key[x] \in Nat /\ key[x] = x
  OBVIOUS
<1>3. /\ \A x \in ids : Rank(ids, key, x) \in 1 .. n
      /\ \A x, y \in ids : key[x] < key[y] => Rank(ids, key, x) < Rank(ids, key, y)
      /\ \A k \in 1 .. n : \E x \in ids : Rank(ids, key, x) = k
  <2>1. \A x, y \in ids : key[x] = key[y] => x = y
    BY <1>2
  <2>2. PICK k : k = key
    OBVIOUS
  <2>3. (\A x \in ids : k[x] \in Nat) /\ (\A x, y \in ids : k[x] = k[y] => x = y)
    BY <1>2, <2>1, <2>2
  <2>4. /\ \A x \in ids : Rank(ids, k, x) \in 1 .. Cardinality(ids)
        /\ \A x, y \in ids : k[x] < k[y] => Rank(ids, k, x) < Rank(ids, k, y)
        /\ \A j \in 1 .. Cardinality(ids) : \E x \in ids : Rank(ids, k, x) = j
    <3> HIDE DEF key
    <3> QED BY <2>3, Ranks
  <2> QED BY <2>2, <2>4
<1>4. n \in 1 .. n
  BY <1>1
<1>5. PICK x \in ids : Rank(ids, key, x) = n
  BY <1>3, <1>4
<1>6. \A y \in ids : ~(key[x] < key[y])
  BY <1>1, <1>3, <1>5
<1>7. \A y \in ids : x >= y
  <2> SUFFICES ASSUME NEW y \in ids PROVE x >= y
    OBVIOUS
  <2>1. key[x] = x /\ key[y] = y /\ ~(key[x] < key[y])
    BY <1>2, <1>6
  <2>2. x \in Nat /\ y \in Nat /\ ~(x < y)
    BY <2>1
  <2> QED BY <2>2
<1> QED
  BY <1>7 DEF Max

\* InOrder lists the ids.
LEMMA InOrderLists ==
  ASSUME NEW ids, ids \subseteq WalIds, NEW key, \A x \in ids : key[x] \in Nat,
         \A x, y \in ids : key[x] = key[y] => x = y
  PROVE  /\ InOrder(ids, key) \in Seq(WalIds)
         /\ Range(InOrder(ids, key)) = ids
         /\ \A j, k \in 1 .. Len(InOrder(ids, key)) :
              InOrder(ids, key)[j] = InOrder(ids, key)[k] => j = k
         /\ ids = {} => InOrder(ids, key) = <<>>
<1> DEFINE n == Cardinality(ids)
           P(s) == \A j, k \in 1 .. n : j < k => key[s[j]] < key[s[k]]
           at(k) == CHOOSE x \in ids : Rank(ids, key, x) = k
           t == [k \in 1 .. n |-> at(k)]
<1>0. ids \subseteq 0 .. MaxWals
  BY DEF WalIds
<1>1. /\ \A x \in ids : Rank(ids, key, x) \in 1 .. n
      /\ \A x, y \in ids : key[x] < key[y] => Rank(ids, key, x) < Rank(ids, key, y)
      /\ \A k \in 1 .. n : \E x \in ids : Rank(ids, key, x) = k
  BY <1>0, Ranks
<1>2. IsFiniteSet(ids) /\ n \in Nat
  BY <1>0, FiniteIds
<1>3. \A k \in 1 .. n : at(k) \in ids /\ Rank(ids, key, at(k)) = k
  BY <1>1
<1>4. t \in [1 .. n -> ids] /\ \A k \in 1 .. n : t[k] \in ids /\ Rank(ids, key, t[k]) = k
  <2> HIDE DEF at
  <2> QED BY <1>3
<1>5. P(t)
  <2> SUFFICES ASSUME NEW j \in 1 .. n, NEW k \in 1 .. n, j < k
               PROVE  key[t[j]] < key[t[k]]
    OBVIOUS
  <2> HIDE DEF t
  <2>1. key[t[j]] \in Nat /\ key[t[k]] \in Nat /\ t[j] # t[k]
    BY <1>4
  <2>2. ~(key[t[k]] < key[t[j]])
    BY <1>1, <1>4
  <2> QED
    BY <2>1, <2>2, <1>4
<1>6. PICK s : s = InOrder(ids, key)
  OBVIOUS
<1>7. s \in [1 .. n -> ids] /\ P(s)
  <2> HIDE DEF t
  <2> QED BY <1>4, <1>5, <1>6 DEF InOrder
<1>8. s \in Seq(WalIds) /\ Len(s) = n /\ Seq(WalIds) = Seq(WalIds)
  <2>1. s \in [1 .. n -> WalIds]
    BY <1>7
  <2> QED
    BY <2>1, <1>2
<1>9. \A j, k \in 1 .. n : s[j] = s[k] => j = k
  <2> SUFFICES ASSUME NEW j \in 1 .. n, NEW k \in 1 .. n, s[j] = s[k], j < k PROVE FALSE
    BY <1>2
  <2> QED
    BY <1>7
<1>10. s \in Injection(1 .. n, ids)
  BY <1>7, <1>9 DEF Injection, IsInjective
<1>11. IsFiniteSet(1 .. n) /\ Cardinality(1 .. n) = n
  BY <1>2, FS_Interval
<1>12. s \in Surjection(1 .. n, ids)
  BY <1>2, <1>10, <1>11, FS_Injection
<1>13. Range(s) = ids
  BY <1>7, <1>12 DEF Surjection, Range
<1>14. ids = {} => s = <<>>
  BY <1>8, FS_EmptySet
<1> QED
  BY <1>6, <1>8, <1>9, <1>13, <1>14

-----------------------------------------------------------------------------
(* Sequences *)

\* A row or an id more at the end.
LEMMA RangeOfAppend ==
  ASSUME NEW S, NEW s \in Seq(S), NEW e \in S
  PROVE  Append(s, e) \in Seq(S) /\ Range(Append(s, e)) = Range(s) \cup {e}
<1>1. s \o <<e>> \in Seq(S) /\ Append(s, e) = s \o <<e>> /\ <<e>> \in Seq(S)
  BY AppendIsConcat
<1>2. Range(<<e>>) = {e}
  BY DEF Range
<1>3. Range(s \o <<e>>) = Range(s) \cup Range(<<e>>)
  <2>1. PICK t \in Seq(S) : t = <<e>>
    BY <1>1
  <2>2. Range(s \o t) = Range(s) \cup Range(t)
    BY RangeConcatenation
  <2> QED
    BY <2>1, <2>2
<1> QED
  BY <1>1, <1>2, <1>3

\* The first element and the others.
LEMMA RangeOfTail ==
  ASSUME NEW S, NEW s \in Seq(S), s # <<>>
  PROVE  /\ Head(s) \in S /\ Tail(s) \in Seq(S)
         /\ Range(s) = {Head(s)} \cup Range(Tail(s))
<1>1. Head(s) \in S /\ Tail(s) \in Seq(S) /\ <<Head(s)>> \in Seq(S)
  BY HeadTailProperties
<1>2. s = <<Head(s)>> \o Tail(s)
  OBVIOUS
<1>3. Range(<<Head(s)>>) = {Head(s)}
  BY DEF Range
<1>4. Range(<<Head(s)>> \o Tail(s)) = Range(<<Head(s)>>) \cup Range(Tail(s))
  <2>1. PICK h \in Seq(S), t \in Seq(S) : h = <<Head(s)>> /\ t = Tail(s)
    BY <1>1
  <2>2. Range(h \o t) = Range(h) \cup Range(t)
    BY RangeConcatenation
  <2> QED
    BY <2>1, <2>2
<1> QED
  BY <1>1, <1>2, <1>3, <1>4

\* No element is in two places.
Once(s) == \A j, k \in 1 .. Len(s) : s[j] = s[k] => j = k

\* An id that was not there is still there once.
LEMMA OnceMore ==
  ASSUME NEW S, NEW s \in Seq(S), Once(s), NEW e \in S, e \notin Range(s)
  PROVE  Once(Append(s, e))
<1>1. /\ Len(Append(s, e)) = Len(s) + 1 /\ Len(s) \in Nat /\ Append(s, e)[Len(s) + 1] = e
      /\ \A k \in 1 .. Len(s) : Append(s, e)[k] = s[k]
  BY AppendProperties
<1>2. \A k \in 1 .. Len(s) : s[k] # e
  BY RangeEquality
<1> SUFFICES ASSUME NEW j \in 1 .. Len(s) + 1, NEW k \in 1 .. Len(s) + 1,
                    Append(s, e)[j] = Append(s, e)[k]
             PROVE  j = k
  BY <1>1 DEF Once
<1>3. (j \in 1 .. Len(s) \/ j = Len(s) + 1) /\ (k \in 1 .. Len(s) \/ k = Len(s) + 1)
  BY <1>1
<1> QED
  BY <1>1, <1>2, <1>3 DEF Once

\* A path is taken out of those that are each listed once.
LEMMA PathDropped ==
  ASSUME NEW S, NEW q \in Seq(S), Once(q), NEW e
  PROVE  /\ RemoveFirst(q, e) \in Seq(S) /\ Once(RemoveFirst(q, e))
         /\ Range(RemoveFirst(q, e)) = Range(q) \ {e}
<1>1. CASE ~\E i \in 1 .. Len(q) : q[i] = e
  <2>1. RemoveFirst(q, e) = q
    BY <1>1 DEF RemoveFirst
  <2>2. e \notin Range(q)
    BY <1>1, RangeEquality
  <2> QED
    BY <2>1, <2>2
<1>2. CASE \E i \in 1 .. Len(q) : q[i] = e
  <2> DEFINE I == {i \in 1 .. Len(q) : q[i] = e}
             n == Len(q)
  <2>1. PICK k \in 1 .. n : q[k] = e
    BY <1>2
  <2>2. I = {k}
    BY <2>1 DEF Once
  <2>3. SelectInSeq(q, LAMBDA v : v = e) = k
    <3>1. Min({k}) = k
      BY DEF Min
    <3>2. SelectInSeq(q, LAMBDA v : v = e) = IF I # {} THEN Min(I) ELSE 0
      BY DEF SelectInSeq
    <3> QED
      BY <2>2, <3>1, <3>2
  <2> DEFINE a == SubSeq(q, 1, k - 1)
             b == SubSeq(q, k + 1, n)
             r == a \o b
  <2>4. RemoveFirst(q, e) = r
    BY <1>2, <2>3 DEF RemoveFirst, RemoveAt
  <2>5. n \in Nat /\ \A i \in 1 .. n : q[i] \in S
    OBVIOUS
  <2>6. a \in Seq(S) /\ Len(a) = k - 1 /\ \A i \in 1 .. (k - 1) : a[i] = q[i]
    OBVIOUS
  <2>7. b \in Seq(S) /\ Len(b) = n - k /\ \A i \in 1 .. (n - k) : b[i] = q[k + i]
    OBVIOUS
  <2> HIDE DEF a, b
  <2>8. /\ r \in Seq(S) /\ Len(r) = Len(a) + Len(b)
        /\ \A i \in 1 .. (Len(a) + Len(b)) : r[i] = IF i <= Len(a) THEN a[i] ELSE b[i - Len(a)]
    BY <2>6, <2>7, ConcatProperties
  <2> HIDE DEF r, n
  <2> DEFINE from(i) == IF i < k THEN i ELSE i + 1
  <2>9. ASSUME NEW i \in 1 .. Len(r) PROVE from(i) \in 1 .. n /\ r[i] = q[from(i)]
    <3>0. Len(r) = n - 1
      BY <2>1, <2>5, <2>6, <2>7, <2>8
    <3>1. CASE i < k
      <4>1. i <= Len(a) /\ i \in 1 .. (k - 1) /\ i \in 1 .. n
        BY <2>1, <2>5, <2>6, <3>0, <3>1
      <4> QED
        BY <2>6, <2>8, <3>1, <4>1
    <3>2. CASE ~(i < k)
      <4>1. /\ ~(i <= Len(a)) /\ i - Len(a) \in 1 .. (n - k) /\ k + (i - Len(a)) = i + 1
            /\ i + 1 \in 1 .. n
        BY <2>1, <2>5, <2>6, <3>0, <3>2
      <4> QED
        BY <2>7, <2>8, <3>2, <4>1
    <3> QED
      BY <3>1, <3>2
  <2>10. Once(r)
    <3> SUFFICES ASSUME NEW i \in 1 .. Len(r), NEW j \in 1 .. Len(r), r[i] = r[j] PROVE i = j
      BY DEF Once
    <3>1. from(i) = from(j)
      BY <2>9 DEF Once, n
    <3> QED
      BY <2>1, <2>5, <2>8, <3>1
  <2>11. Range(r) \subseteq Range(q) \ {e}
    <3> SUFFICES ASSUME NEW i \in 1 .. Len(r) PROVE r[i] \in Range(q) /\ r[i] # e
      BY <2>8, RangeEquality
    <3>1. from(i) \in 1 .. n /\ r[i] = q[from(i)] /\ from(i) # k
      BY <2>1, <2>5, <2>9
    <3>2. from(i) \notin I
      BY <2>2, <3>1
    <3> QED
      BY <3>1, <3>2, RangeEquality DEF n
  <2>12. ASSUME NEW x \in Range(q), x # e PROVE x \in Range(r)
    <3>1. PICK i \in 1 .. n : x = q[i]
      BY RangeEquality DEF n
    <3>2. i # k
      BY <2>1, <2>12, <3>1
    <3>3. Len(a) = k - 1 /\ Len(b) = n - k /\ Len(r) = n - 1
      BY <2>1, <2>5, <2>6, <2>7, <2>8
    <3>4. CASE i < k
      <4>1. i \in 1 .. Len(r) /\ from(i) = i
        BY <2>1, <2>5, <3>3, <3>4
      <4>2. r[i] = x
        BY <2>9, <3>1, <4>1
      <4> QED
        BY <2>8, <4>1, <4>2, RangeEquality
    <3>5. CASE ~(i < k)
      <4>1. i - 1 \in 1 .. Len(r) /\ from(i - 1) = i
        BY <2>1, <2>5, <3>2, <3>3, <3>5
      <4>2. r[i - 1] = x
        BY <2>9, <3>1, <4>1
      <4> QED
        BY <2>8, <4>1, <4>2, RangeEquality
    <3> QED
      BY <3>4, <3>5
  <2> QED
    BY <2>4, <2>8, <2>10, <2>11, <2>12
<1> QED
  BY <1>1, <1>2

-----------------------------------------------------------------------------
(* Files and their readers *)

\* The steps of a flush, and those of them after the WAL is rotated.
Rotated == {"write_ipc", "index", "delete_wal", "track"}
Flushing == {"open", "rotate"} \cup Rotated

Files == [WalIds -> Optional(Seq(Rows))]

\* The types of the files, of the manager, of what it rolls out, and of the readers.
FileTypes == wal \in Files /\ arrow \in Files /\ parquet \in Files

ManagerTypes ==
  /\ up \in BOOLEAN /\ walOpen \in BOOLEAN
  /\ sink \in 0 .. MaxWals /\ currentWalId \in 0 .. MaxWals
  /\ prebatch \in Seq(Rows) /\ queue \in Seq(Rows) /\ pushed \in Seq(Rows)
  /\ op \in Steps /\ flight.batch \in Seq(Rows)
  /\ writer \in {"running", "failed", "gone"}
  /\ before \in Nat /\ trouble \in {"none", "met", "restored"}

RolloutTypes ==
  /\ ipcFiles \in Seq(WalIds) /\ ipcFilePaths \in Seq(WalIds)
  /\ ipcRowCounts \in [WalIds -> Optional(Nat)]
  /\ rolling \in [files : Seq(WalIds), next : Nat \ {0}, rows : Seq(Rows), count : Nat]

ReaderTypes ==
  /\ activeReaders \in [WalIds -> Nat] /\ pendingDeletions \subseteq WalIds
  /\ guards \in [Providers -> SUBSET WalIds]

Types == FileTypes /\ ManagerTypes /\ RolloutTypes /\ ReaderTypes

\* Where a manager is with its WAL files.
Writing ==
  /\ ~up => ~walOpen /\ op = "idle" /\ currentWalId = 0
  /\ op \in Flushing \/ queue # <<>> \/ ipcFiles # <<>> \/ op = "roll" => walOpen
  /\ walOpen => /\ currentWalId \in WalIds /\ sink \in WalIds
                /\ sink \in {currentWalId, currentWalId + 1} /\ wal[sink] # None
  /\ op \in Flushing => currentWalId < MaxWals
  /\ op \in Rotated => sink = currentWalId + 1
  /\ op = "rotate" => wal[currentWalId + 1] # None

\* There is a WAL file newer than every Arrow file.
WalAhead == \A n \in WalIds : arrow[n] # None => \E m \in WalIds : m > n /\ wal[m] # None

\* The Arrow files that are listed or guarded are older than the WAL; each is listed once.
Older ==
  /\ Once(ipcFilePaths)
  /\ \A b \in Range(ipcFilePaths) : b < currentWalId
  /\ \A p \in Providers : \A b \in guards[p] : b < currentWalId

\* active_readers counts the guards, and what is marked for deletion is being read.
Guarding(b) == {p \in Providers : b \in guards[p]}
Counted ==
  /\ \A b \in WalIds : activeReaders[b] = Cardinality(Guarding(b))
  /\ \A b \in pendingDeletions : activeReaders[b] > 0

GInv == Types /\ Writing /\ WalAhead /\ Older /\ Counted

\* What the constants are.
LEMMA Constants ==
  /\ MaxWals \in Nat \ {0} /\ MaxRows \in Nat
  /\ <<>> \in Seq(Rows) /\ None \notin Seq(Rows) /\ None \notin Nat /\ <<>> # None
  /\ \A f \in Files, r \in Seq(Rows) \cup {None} : \A n : [f EXCEPT ![n] = r] \in Files
  /\ <<>> \in Seq(WalIds)
<1>1. <<>> \in Seq(Rows) /\ None \notin Seq(Rows) /\ None \notin Nat
  BY NoneAssumption
<1>2. ASSUME NEW f \in Files, NEW r \in Seq(Rows) \cup {None}, NEW n PROVE [f EXCEPT ![n] = r] \in Files
  BY DEF Files, Optional
<1>3. <<>> # None
  BY <1>1
<1>4. \A f \in Files, r \in Seq(Rows) \cup {None} : \A n : [f EXCEPT ![n] = r] \in Files
  BY <1>2
<1>5. MaxWals \in Nat \ {0} /\ MaxRows \in Nat
  BY BoundsAssumption
<1>6. <<>> \in Seq(WalIds)
  OBVIOUS
<1> QED
  BY <1>1, <1>3, <1>4, <1>5, <1>6

\* The ids that are listed are ids of files.
LEMMA PathsAreIds ==
  ASSUME RolloutTypes
  PROVE  Range(ipcFilePaths) \subseteq WalIds /\ Range(ipcFiles) \subseteq WalIds
         /\ Range(rolling.files) \subseteq WalIds
<1>1. ipcFilePaths \in Seq(WalIds) /\ ipcFiles \in Seq(WalIds) /\ rolling.files \in Seq(WalIds)
  BY DEF RolloutTypes
<1> QED
  BY <1>1, RangeOfSeq

\* Where a guard is counted.
LEMMA FiniteGuards ==
  ASSUME NEW b
  PROVE  IsFiniteSet(Guarding(b)) /\ Cardinality(Guarding(b)) \in Nat
<1>1. Guarding(b) \subseteq Providers
  BY DEF Guarding
<1> QED
  BY <1>1, ProvidersAssumption, FS_Subset, FS_CardinalityType

\* The last id of a directory, whose WAL is newer than every Arrow file.
LEMMA LastIdOK ==
  ASSUME FileTypes, WalAhead
  PROVE  /\ LastId \in 0 .. MaxWals
         /\ \A n \in WalIds : wal[n] # None \/ arrow[n] # None => n <= LastId
         /\ \A n \in WalIds : arrow[n] # None => n < LastId
         /\ LastId # 0 => LastId \in WalIds /\ wal[LastId] # None /\ RecoversWal
<1> DEFINE ids == {0} \cup Existing(wal) \cup Existing(arrow)
<1>1. ids \subseteq 0 .. MaxWals /\ ids # {}
  BY Constants DEF Existing, WalIds
<1>2. LastId \in ids /\ \A x \in ids : x <= LastId
  BY <1>1, MaxIsGreatest DEF LastId
<1>3. \A n \in WalIds : wal[n] # None \/ arrow[n] # None => n <= LastId
  BY <1>2 DEF Existing
<1>4. \A n \in WalIds : arrow[n] # None => n < LastId
  <2> SUFFICES ASSUME NEW n \in WalIds, arrow[n] # None PROVE n < LastId
    OBVIOUS
  <2>1. PICK m \in WalIds : m > n /\ wal[m] # None
    BY DEF WalAhead
  <2>2. m <= LastId
    BY <1>3, <2>1
  <2> QED
    BY <1>1, <1>2, <2>1, <2>2 DEF WalIds
<1>5. ASSUME LastId # 0 PROVE LastId \in WalIds /\ wal[LastId] # None /\ RecoversWal
  <2>1. LastId \in Existing(wal) \cup Existing(arrow)
    BY <1>2, <1>5
  <2>2. LastId \in WalIds /\ ~(LastId < LastId)
    BY <2>1, Constants DEF Existing, WalIds
  <2>3. wal[LastId] # None
    BY <1>4, <2>1, <2>2 DEF Existing
  <2> QED
    BY <1>5, <2>2, <2>3, Constants DEF RecoversWal, WalIds
<1> QED
  BY <1>1, <1>2, <1>3, <1>4, <1>5

\* The ids of files are listed in order, each once.
LEMMA SortedLists ==
  ASSUME NEW ids, ids \subseteq WalIds
  PROVE  /\ SortedIds(ids) \in Seq(WalIds) /\ Range(SortedIds(ids)) = ids /\ Once(SortedIds(ids))
         /\ SortedPaths(ids) \in Seq(WalIds) /\ Range(SortedPaths(ids)) = ids /\ Once(SortedPaths(ids))
         /\ ids = {} => SortedIds(ids) = <<>>
<1>1. \A x \in ids : x \in Nat /\ x # 0
  BY Constants DEF WalIds
<1>2. PICK k : k = [n \in WalIds |-> n]
  OBVIOUS
<1>3. (\A x \in ids : k[x] \in Nat) /\ \A x, y \in ids : k[x] = k[y] => x = y
  BY <1>1, <1>2
<1>4. PICK l : l = [n \in WalIds |-> PathKey(n)]
  OBVIOUS
<1>5. (\A x \in ids : l[x] \in Nat) /\ \A x, y \in ids : l[x] = l[y] => x = y
  BY <1>1, <1>4 DEF PathKey
<1>6. PICK s, t : s = SortedIds(ids) /\ t = SortedPaths(ids)
  OBVIOUS
<1>7. s = InOrder(ids, k) /\ t = InOrder(ids, l)
  BY <1>2, <1>4, <1>6 DEF SortedIds, SortedPaths
<1>8. InOrder(ids, k) \in Seq(WalIds) /\ Range(InOrder(ids, k)) = ids /\ Once(InOrder(ids, k))
      /\ (ids = {} => InOrder(ids, k) = <<>>)
  BY <1>3, InOrderLists DEF Once
<1>9. InOrder(ids, l) \in Seq(WalIds) /\ Range(InOrder(ids, l)) = ids /\ Once(InOrder(ids, l))
  BY <1>5, InOrderLists DEF Once
<1> QED
  BY <1>6, <1>7, <1>8, <1>9

\* push_record may open the first WAL, whose id is newer than every listed file.
LEMMA PushRecordGuards ==
  ASSUME GInv, NEW i \in Indices, PushRecord(i)
  PROVE  GInv'
<1>1. (RolloutTypes /\ ReaderTypes /\ Counted)'
  BY DEF GInv, Types, RolloutTypes, ReaderTypes, Counted, Guarding, PushRecord, ipcVars,
         readerVars
<1>2. FileTypes'
  <2>1. UNCHANGED <<arrow, parquet>> /\ wal \in Files /\ arrow \in Files /\ parquet \in Files
    BY DEF PushRecord, GInv, Types, FileTypes
  <2>2. wal' \in Files
    BY <2>1, Constants DEF PushRecord
  <2> QED
    BY <2>1, <2>2 DEF FileTypes
<1>3. ManagerTypes'
  <2>1. Len(pushed) \in Nat /\ <<i, Len(pushed) + 1>> \in Rows
    BY Constants DEF PushRecord, GInv, Types, ManagerTypes, Rows
  <2>2. prebatch' \in Seq(Rows) /\ queue' \in Seq(Rows) /\ pushed' \in Seq(Rows)
    BY <2>1, AppendProperties DEF PushRecord, GInv, Types, ManagerTypes
  <2>3. currentWalId' \in 0 .. MaxWals /\ sink' \in 0 .. MaxWals
    BY Constants DEF PushRecord, GInv, Types, ManagerTypes
  <2> QED
    BY <2>2, <2>3 DEF PushRecord, GInv, Types, ManagerTypes, Steps, walVars, boundVars
<1>4. Writing'
  BY Constants DEF GInv, Types, ManagerTypes, Writing, Rotated, Flushing, PushRecord, ipcVars,
                   FileTypes, Files, Optional, WalIds
<1>5. WalAhead'
  BY Constants DEF GInv, Types, ManagerTypes, WalAhead, FileTypes, Files, PushRecord
<1>6. Older'
  <2>1. currentWalId' >= currentWalId /\ UNCHANGED <<ipcFilePaths, guards>>
    BY DEF PushRecord, GInv, Types, ManagerTypes, ipcVars, readerVars
  <2>2. Range(ipcFilePaths) \subseteq WalIds /\ \A p \in Providers : guards[p] \subseteq WalIds
    BY PathsAreIds DEF GInv, Types, ReaderTypes
  <2>3. currentWalId \in Nat /\ currentWalId' \in Nat /\ \A n \in WalIds : n \in Nat
    BY <1>3, Constants DEF GInv, Types, ManagerTypes, WalIds
  <2>4. \A b \in WalIds : b < currentWalId => b < currentWalId'
    BY <2>1, <2>3
  <2> QED
    BY <2>1, <2>2, <2>4 DEF GInv, Older
<1> QED
  BY <1>1, <1>2, <1>3, <1>4, <1>5, <1>6 DEF GInv, Types

\* The writer only adds rows to a WAL that exists.
LEMMA WriteRowGuards ==
  ASSUME GInv, WriteRow
  PROVE  GInv'
<1>a. sink \in WalIds /\ wal[sink] \in Seq(Rows) /\ queue \in Seq(Rows) /\ queue # <<>>
  BY DEF WriteRow, GInv, Types, FileTypes, ManagerTypes, Files, Optional, Writing
<1>b. Append(wal[sink], Head(queue)) \in Seq(Rows) /\ Tail(queue) \in Seq(Rows)
  BY <1>a, HeadTailProperties, AppendProperties
<1>c. wal' = [wal EXCEPT ![sink] = Append(wal[sink], Head(queue))] /\ UNCHANGED <<arrow, parquet>>
  BY DEF WriteRow
<1>d. \A n \in WalIds : wal[n] # None => wal'[n] # None
  BY <1>a, <1>b, <1>c, Constants DEF GInv, Types, FileTypes, Files
<1>1. (RolloutTypes /\ ReaderTypes /\ Older /\ Counted)'
  BY DEF GInv, Types, RolloutTypes, ReaderTypes, Older, Once, Counted, Guarding, WriteRow,
         walVars, ipcVars, readerVars
<1>2. FileTypes'
  BY <1>b, <1>c, Constants DEF GInv, Types, FileTypes
<1>3. ManagerTypes'
  BY Constants DEF GInv, Types, ManagerTypes, Writing, Flushing, Rotated, Steps, WalIds, WriteRow,
                   walVars, boundVars
<1>4. Writing'
  BY <1>a, <1>d, Constants DEF WriteRow, GInv, Types, ManagerTypes, Writing, WalIds, Flushing,
                               Rotated, walVars, ipcVars
<1>5. WalAhead'
  BY <1>c, <1>d DEF GInv, WalAhead
<1> QED
  BY <1>1, <1>2, <1>3, <1>4, <1>5 DEF GInv, Types

\* A caller flushes only a WAL that is open.
LEMMA FlushWalGuards ==
  ASSUME GInv, FlushWal
  PROVE  GInv'
<1>1. (FileTypes /\ RolloutTypes /\ ReaderTypes /\ WalAhead /\ Older /\ Counted)'
  BY DEF GInv, Types, FileTypes, RolloutTypes, ReaderTypes, WalAhead, Older, Once, Counted,
         Guarding, FlushWal, diskVars, walVars, ipcVars, readerVars
<1>2. ManagerTypes'
  BY Constants DEF GInv, Types, ManagerTypes, Writing, Flushing, Rotated, Steps, WalIds, FlushWal,
                   walVars, boundVars
<1>3. Writing'
  BY Constants DEF GInv, Types, ManagerTypes, Writing, Rotated, Flushing, FlushWal, diskVars,
                   walVars, ipcVars
<1> QED
  BY <1>1, <1>2, <1>3 DEF GInv, Types

\* The next WAL has an id within the bound, and now exists.
LEMMA OpenNextGuards ==
  ASSUME GInv, OpenNext
  PROVE  GInv'
<1>a. currentWalId \in WalIds /\ currentWalId + 1 \in WalIds /\ walOpen
  BY Constants DEF OpenNext, GInv, Types, ManagerTypes, Writing, Flushing, WalIds
<1>b. /\ UNCHANGED <<arrow, parquet>> /\ wal \in Files
      /\ wal' = [wal EXCEPT ![currentWalId + 1] = IF wal[currentWalId + 1] = None THEN <<>> ELSE wal[currentWalId + 1]]
  BY DEF OpenNext, GInv, Types, FileTypes
<1>c. \A n \in WalIds : (wal[n] # None => wal'[n] = wal[n]) /\ (n = currentWalId + 1 => wal'[n] # None)
  BY <1>a, <1>b, Constants DEF Files
<1>1. (RolloutTypes /\ ReaderTypes /\ Older /\ Counted)'
  BY DEF GInv, Types, RolloutTypes, ReaderTypes, Older, Once, Counted, Guarding, OpenNext,
         walVars, ipcVars, readerVars
<1>2. FileTypes'
  <2>1. (IF wal[currentWalId + 1] = None THEN <<>> ELSE wal[currentWalId + 1]) \in Seq(Rows)
    BY <1>a, <1>b, Constants DEF Files, Optional
  <2>2. wal' \in Files
    BY <1>b, <2>1, Constants
  <2> QED
    BY <1>b, <2>2 DEF GInv, Types, FileTypes
<1>3. ManagerTypes'
  BY Constants DEF GInv, Types, ManagerTypes, Writing, Flushing, Rotated, Steps, WalIds, OpenNext,
                   walVars, boundVars
<1>4. Writing'
  <2>1. /\ op = "open" /\ op' = "rotate"
        /\ UNCHANGED <<up, walOpen, sink, currentWalId, queue, ipcFiles>>
    BY DEF OpenNext, walVars, ipcVars
  <2> QED
    BY <1>a, <1>c, <2>1, Constants DEF GInv, Writing, Flushing, Rotated
<1>5. WalAhead'
  BY Constants DEF GInv, Types, ManagerTypes, WalAhead, FileTypes, Files, OpenNext
<1> QED
  BY <1>1, <1>2, <1>3, <1>4, <1>5 DEF GInv, Types

\* rotate() moves the writer to the WAL that was opened for it.
LEMMA RotateGuards ==
  ASSUME GInv, Rotate
  PROVE  GInv'
<1>1. (FileTypes /\ RolloutTypes /\ ReaderTypes /\ WalAhead /\ Older /\ Counted)'
  <2>1. UNCHANGED <<wal, arrow, parquet, ipcFiles, ipcRowCounts, ipcFilePaths, rolling,
                    activeReaders, pendingDeletions, guards, currentWalId>>
    BY DEF Rotate, diskVars, ipcVars, readerVars
  <2>2. FileTypes' /\ RolloutTypes' /\ ReaderTypes'
    BY <2>1 DEF GInv, Types, FileTypes, RolloutTypes, ReaderTypes
  <2>3. WalAhead'
    BY <2>1 DEF GInv, WalAhead
  <2>4. Older'
    BY <2>1 DEF GInv, Older, Once
  <2>5. Counted'
    BY <2>1 DEF GInv, Counted, Guarding
  <2> QED
    BY <2>2, <2>3, <2>4, <2>5
<1>2. ManagerTypes'
  BY Constants DEF Rotate, NewPreBatch, GInv, Types, ManagerTypes, Writing, Flushing, Steps,
                   boundVars
<1>3. Writing'
  BY Constants DEF GInv, Types, ManagerTypes, Writing, Rotated, Flushing, Rotate, diskVars,
                   ipcVars, NewPreBatch, Drained, FileTypes, Files, Optional, WalIds
<1> QED
  BY <1>1, <1>2, <1>3 DEF GInv, Types

\* The Arrow file has the id of the old WAL, and the next WAL is newer.
LEMMA WriteArrowIpcGuards ==
  ASSUME GInv, WriteArrowIpc
  PROVE  GInv'
<1>1. (RolloutTypes /\ ReaderTypes /\ Older /\ Counted)'
  BY DEF GInv, Types, RolloutTypes, ReaderTypes, Older, Once, Counted, Guarding, WriteArrowIpc,
         walVars, ipcVars, readerVars
<1>2. FileTypes'
  BY Constants DEF WriteArrowIpc, GInv, Types, FileTypes, ManagerTypes
<1>3. ManagerTypes'
  BY Constants DEF GInv, Types, ManagerTypes, Writing, Flushing, Rotated, Steps, WalIds,
                   WriteArrowIpc, walVars, boundVars
<1>4. Writing'
  BY Constants DEF GInv, Types, ManagerTypes, Writing, Rotated, Flushing, WriteArrowIpc, walVars,
                   ipcVars
<1>5. WalAhead'
  BY Constants DEF GInv, Types, ManagerTypes, WalAhead, FileTypes, Files, WriteArrowIpc, Writing,
                   Flushing, Rotated, WalIds, Optional
<1> QED
  BY <1>1, <1>2, <1>3, <1>4, <1>5 DEF GInv, Types

\* The transaction touches no file.
LEMMA IndexRowsGuards ==
  ASSUME GInv, IndexRows
  PROVE  GInv'
<1>1. (FileTypes /\ RolloutTypes /\ ReaderTypes /\ WalAhead /\ Older /\ Counted)'
  BY DEF GInv, Types, FileTypes, RolloutTypes, ReaderTypes, WalAhead, Older, Once, Counted,
         Guarding, IndexRows, walVars, ipcVars, readerVars
<1>2. ManagerTypes'
  BY Constants DEF GInv, Types, ManagerTypes, Writing, Flushing, Rotated, Steps, WalIds,
                   IndexRows, walVars, boundVars
<1>3. Writing'
  BY Constants DEF GInv, Types, ManagerTypes, Writing, Rotated, Flushing, IndexRows, walVars,
                   ipcVars
<1> QED
  BY <1>1, <1>2, <1>3 DEF GInv, Types

\* The WAL that is deleted is not the one the writer appends to.
LEMMA DeleteWalGuards ==
  ASSUME GInv, DeleteWal
  PROVE  GInv'
<1>1. (RolloutTypes /\ ReaderTypes /\ Older /\ Counted)'
  <2>1. UNCHANGED <<ipcFiles, ipcRowCounts, ipcFilePaths, rolling, activeReaders,
                    pendingDeletions, guards, currentWalId>>
    BY DEF DeleteWal, walVars, ipcVars, readerVars
  <2>2. RolloutTypes' /\ ReaderTypes'
    BY <2>1 DEF GInv, Types, RolloutTypes, ReaderTypes
  <2>3. Older'
    BY <2>1 DEF GInv, Older, Once
  <2>4. Counted'
    BY <2>1 DEF GInv, Counted, Guarding
  <2> QED
    BY <2>2, <2>3, <2>4
<1>2. FileTypes'
  BY Constants DEF GInv, Types, FileTypes, Files, Optional, DeleteWal
<1>3. ManagerTypes'
  BY Constants DEF GInv, Types, ManagerTypes, Writing, Flushing, Rotated, Steps, WalIds,
                   DeleteWal, walVars, boundVars
<1>4. Writing'
  BY Constants DEF GInv, Types, ManagerTypes, Writing, Rotated, Flushing, DeleteWal, walVars,
                   ipcVars
<1>5. WalAhead'
  BY Constants DEF GInv, Types, ManagerTypes, WalAhead, FileTypes, Files, DeleteWal, Writing,
                   Flushing, Rotated, WalIds
<1> QED
  BY <1>1, <1>2, <1>3, <1>4, <1>5 DEF GInv, Types

\* The new path is newer than every listed one, and older than the next WAL.
LEMMA TrackGuards ==
  ASSUME GInv, Track
  PROVE  GInv'
<1>a. currentWalId \in WalIds /\ currentWalId + 1 \in WalIds /\ walOpen /\ sink = currentWalId + 1
  BY Constants DEF Track, GInv, Types, ManagerTypes, Writing, Flushing, Rotated, WalIds
<1>b. Append(ipcFiles, currentWalId) \in Seq(WalIds) /\ Append(ipcFilePaths, currentWalId) \in Seq(WalIds)
  BY <1>a, AppendProperties DEF GInv, Types, RolloutTypes
<1>1. (FileTypes /\ ReaderTypes /\ WalAhead /\ Counted)'
  BY DEF GInv, Types, FileTypes, ReaderTypes, WalAhead, Counted, Guarding, Track, diskVars,
         readerVars
<1>2. ManagerTypes'
  BY Constants DEF Track, NoFlight, GInv, Types, ManagerTypes, Writing, Flushing, Rotated, Steps,
                   boundVars
<1>3. RolloutTypes'
  <2>1. ipcFiles' \in Seq(WalIds) /\ ipcFilePaths' \in Seq(WalIds)
    BY <1>b, Constants DEF Track
  <2>2. ipcRowCounts' \in [WalIds -> Optional(Nat)]
    <3>1. Len(flight.batch) \in Nat
      BY DEF GInv, Types, ManagerTypes
    <3> QED
      BY <3>1 DEF Track, GInv, Types, RolloutTypes, Optional
  <2>3. rolling' \in [files : Seq(WalIds), next : Nat \ {0}, rows : Seq(Rows), count : Nat]
    <3>1. PICK f : f = Append(ipcFiles, currentWalId)
      OBVIOUS
    <3>2. rolling' = rolling \/ rolling' = [files |-> f, next |-> 1, rows |-> <<>>, count |-> 0]
      BY <3>1 DEF Track, NoRollout
    <3>3. f \in Seq(WalIds) /\ 1 \in Nat \ {0} /\ 0 \in Nat /\ <<>> \in Seq(Rows)
      BY <1>b, <3>1, Constants
    <3>4. rolling \in [files : Seq(WalIds), next : Nat \ {0}, rows : Seq(Rows), count : Nat]
      BY DEF GInv, Types, RolloutTypes
    <3>5. [files |-> f, next |-> 1, rows |-> <<>>, count |-> 0]
            \in [files : Seq(WalIds), next : Nat \ {0}, rows : Seq(Rows), count : Nat]
      BY <3>3
    <3> QED
      BY <3>2, <3>4, <3>5
  <2> QED
    BY <2>1, <2>2, <2>3 DEF RolloutTypes
<1>4. Writing'
  BY Constants DEF GInv, Types, ManagerTypes, Writing, Rotated, Flushing, Track, diskVars,
                   NoRollout, NoFlight
<1>5. Older'
  <2>1. /\ currentWalId' = currentWalId + 1 /\ UNCHANGED guards
        /\ ipcFilePaths' = Append(ipcFilePaths, currentWalId)
    BY DEF Track, readerVars
  <2>2. Range(ipcFilePaths) \subseteq WalIds /\ \A p \in Providers : guards[p] \subseteq WalIds
    BY PathsAreIds DEF GInv, Types, ReaderTypes
  <2>3. currentWalId \in Nat /\ \A n \in WalIds : n \in Nat
    BY <1>a, Constants DEF WalIds
  <2>4. \A b \in WalIds : b < currentWalId => b < currentWalId'
    BY <2>1, <2>3
  <2>5. Range(ipcFilePaths') = Range(ipcFilePaths) \cup {currentWalId}
    BY <1>a, <2>1, RangeOfAppend DEF GInv, Types, RolloutTypes
  <2>6. currentWalId < currentWalId' /\ currentWalId \notin Range(ipcFilePaths)
    BY <2>1, <2>3 DEF GInv, Older
  <2>7. Once(ipcFilePaths')
    BY <1>a, <2>1, <2>6, OnceMore DEF GInv, Types, RolloutTypes, Older
  <2> QED
    BY <2>1, <2>2, <2>4, <2>5, <2>6, <2>7 DEF GInv, Older
<1> QED
  BY <1>1, <1>2, <1>3, <1>4, <1>5 DEF GInv, Types

\* The pending ids become those of the rollout.
LEMMA RolloutToParquetGuards ==
  ASSUME GInv, RolloutToParquet
  PROVE  GInv'
<1>1. (FileTypes /\ ReaderTypes /\ WalAhead /\ Older /\ Counted)'
  BY DEF GInv, Types, FileTypes, ReaderTypes, WalAhead, Older, Once, Counted, Guarding,
         RolloutToParquet, diskVars, walVars, readerVars
<1>2. ManagerTypes'
  BY Constants DEF GInv, Types, ManagerTypes, Writing, Flushing, Rotated, Steps, WalIds,
                   RolloutToParquet, walVars, boundVars, NoRollout
<1>3. RolloutTypes'
  <2>1. rolling' = [files |-> ipcFiles, next |-> 1, rows |-> <<>>, count |-> 0]
    BY DEF RolloutToParquet, NoRollout
  <2>2. ipcFiles' = <<>> /\ UNCHANGED <<ipcFilePaths, ipcRowCounts>>
    BY DEF RolloutToParquet
  <2> QED
    BY <2>1, <2>2, Constants DEF GInv, Types, RolloutTypes
<1>4. Writing'
  BY Constants DEF GInv, Types, ManagerTypes, Writing, Rotated, Flushing, RolloutToParquet,
                   diskVars, walVars, NoRollout
<1> QED
  BY <1>1, <1>2, <1>3, <1>4 DEF GInv, Types

\* A file that is read is marked, one that is not is deleted, and neither stays listed.
LEMMA RollFileGuards ==
  ASSUME GInv, RollFile
  PROVE  GInv'
<1> DEFINE b == rolling.files[rolling.next]
           found == arrow[b] # None
<1>a. b \in WalIds
  BY DEF RollFile, GInv, Types, RolloutTypes
<1>b. found => arrow[b] \in Seq(Rows)
  BY <1>a DEF GInv, Types, FileTypes, Files, Optional
<1>1. (ManagerTypes /\ Writing)'
  BY DEF GInv, Types, ManagerTypes, Writing, RollFile, walVars, boundVars
<1>2. FileTypes'
  <2>1. arrow' = arrow \/ arrow' = [arrow EXCEPT ![b] = None]
    BY <1>a DEF RollFile, BeingRead, GInv, Types, FileTypes, Files
  <2> QED
    BY <2>1, Constants DEF RollFile, GInv, Types, FileTypes
<1>3. RolloutTypes'
  <2>1. ipcFilePaths' \in Seq(WalIds)
    <3>1. RemoveFirst(ipcFilePaths, b) \in Seq(WalIds)
      BY PathDropped DEF GInv, Types, RolloutTypes, Older
    <3> QED
      BY <3>1 DEF RollFile, GInv, Types, RolloutTypes
  <2>2. ipcRowCounts' \in [WalIds -> Optional(Nat)]
    BY <1>a DEF RollFile, DropCount, GInv, Types, RolloutTypes, Optional
  <2>3. rolling' \in [files : Seq(WalIds), next : Nat \ {0}, rows : Seq(Rows), count : Nat]
    <3>1. rolling \in [files : Seq(WalIds), next : Nat \ {0}, rows : Seq(Rows), count : Nat]
          /\ (ipcRowCounts[b] # None => ipcRowCounts[b] \in Nat)
      BY <1>a DEF GInv, Types, RolloutTypes, Optional
    <3>2. found => rolling.rows \o arrow[b] \in Seq(Rows)
      BY <1>b, <3>1, ConcatProperties
    <3>3. PICK r, k : /\ r = (IF found THEN rolling.rows \o arrow[b] ELSE rolling.rows)
                      /\ k = (IF found /\ ipcRowCounts[b] # None
                              THEN rolling.count + ipcRowCounts[b] ELSE rolling.count)
      OBVIOUS
    <3>4. r \in Seq(Rows) /\ k \in Nat
      BY <3>1, <3>2, <3>3
    <3>5. rolling' = [files |-> rolling.files, next |-> rolling.next + 1, rows |-> r, count |-> k]
      BY <3>1, <3>3 DEF RollFile
    <3> QED
      BY <3>1, <3>4, <3>5
  <2>4. UNCHANGED ipcFiles
    BY DEF RollFile
  <2> QED
    BY <2>1, <2>2, <2>3, <2>4 DEF RolloutTypes, GInv, Types
<1>4. ReaderTypes'
  BY Constants DEF GInv, Types, ReaderTypes, RollFile, RolloutTypes
<1>5. WalAhead'
  BY Constants DEF GInv, Types, ManagerTypes, WalAhead, FileTypes, Files, RollFile
<1>6. Older'
  <2>1. /\ Once(RemoveFirst(ipcFilePaths, b))
        /\ Range(RemoveFirst(ipcFilePaths, b)) \subseteq Range(ipcFilePaths)
    BY PathDropped DEF GInv, Types, RolloutTypes, Older
  <2>2. UNCHANGED <<currentWalId, guards>>
        /\ (ipcFilePaths' = ipcFilePaths \/ ipcFilePaths' = RemoveFirst(ipcFilePaths, b))
    BY DEF RollFile, walVars
  <2>3. Once(ipcFilePaths') /\ Range(ipcFilePaths') \subseteq Range(ipcFilePaths)
    BY <2>1, <2>2 DEF GInv, Older
  <2> QED
    BY <2>2, <2>3 DEF GInv, Older
<1>7. Counted'
  <2>1. UNCHANGED <<activeReaders, guards>>
    BY DEF RollFile
  <2>2. pendingDeletions' = IF found /\ BeingRead(b) THEN pendingDeletions \cup {b} ELSE pendingDeletions
    BY DEF RollFile
  <2>3. \A d \in pendingDeletions' : activeReaders[d] > 0
    BY <2>2 DEF GInv, Counted, BeingRead
  <2>4. \A n \in WalIds : activeReaders[n] = Cardinality({p \in Providers : n \in guards[p]})
    BY DEF GInv, Counted, Guarding
  <2> QED
    BY <2>1, <2>3, <2>4 DEF Counted, Guarding
<1> QED
  BY <1>1, <1>2, <1>3, <1>4, <1>5, <1>6, <1>7 DEF GInv, Types

\* The Parquet file takes the rows of the rollout.
LEMMA WriteParquetGuards ==
  ASSUME GInv, WriteParquet
  PROVE  GInv'
<1>1. (ReaderTypes /\ WalAhead /\ Older /\ Counted)'
  BY DEF GInv, Types, ReaderTypes, WalAhead, Older, Once, Counted, Guarding, WriteParquet,
         walVars, ipcVars, readerVars
<1>2. FileTypes'
  <2>1. rolling.rows \in Seq(Rows)
    BY DEF GInv, Types, RolloutTypes
  <2> QED
    BY <2>1, Constants DEF WriteParquet, GInv, Types, FileTypes
<1>3. ManagerTypes'
  BY Constants DEF GInv, Types, ManagerTypes, Writing, Flushing, Rotated, Steps, WalIds,
                   WriteParquet, walVars, boundVars, NoRollout
<1>4. RolloutTypes'
  BY Constants DEF GInv, Types, ManagerTypes, RolloutTypes, Optional, WriteParquet, ipcVars,
                   NoRollout
<1>5. Writing'
  BY Constants DEF GInv, Types, ManagerTypes, Writing, Rotated, Flushing, WriteParquet, walVars,
                   ipcVars, NoRollout
<1> QED
  BY <1>1, <1>2, <1>3, <1>4, <1>5 DEF GInv, Types

\* An error leaves the files and the readers as they are.
LEMMA FailGuards ==
  ASSUME GInv, Fail
  PROVE  GInv'
<1>1. (FileTypes /\ ReaderTypes /\ WalAhead /\ Older /\ Counted)'
  BY DEF GInv, Types, FileTypes, ReaderTypes, WalAhead, Older, Once, Counted, Guarding, Fail,
         diskVars, walVars, ipcVars, readerVars
<1>2. ManagerTypes'
  BY Constants DEF Fail, AfterError, MeetsError, NoFlight, GInv, Types, ManagerTypes, Steps, walVars
<1>3. RolloutTypes'
  BY Constants DEF GInv, Types, ManagerTypes, RolloutTypes, Optional, Fail, ipcVars, NoRollout,
                   NoFlight
<1>4. Writing'
  BY Constants DEF GInv, Types, ManagerTypes, Writing, Rotated, Flushing, Fail, diskVars, walVars,
                   ipcVars, NoRollout, NoFlight
<1> QED
  BY <1>1, <1>2, <1>3, <1>4 DEF GInv, Types

\* A push that fails has put its row into the PreBatch.
LEMMA PushFailsGuards ==
  ASSUME GInv, NEW i \in Indices, PushFails(i)
  PROVE  GInv'
<1>1. (FileTypes /\ RolloutTypes /\ ReaderTypes /\ Writing /\ WalAhead /\ Older /\ Counted)'
  <2>1. UNCHANGED <<diskVars, up, walOpen, sink, currentWalId, queue, ipcVars, readerVars, op, rolling>>
    BY DEF PushFails
  <2>2. FileTypes' /\ RolloutTypes' /\ ReaderTypes' /\ WalAhead'
    BY <2>1 DEF GInv, Types, FileTypes, RolloutTypes, ReaderTypes, WalAhead, diskVars, ipcVars, readerVars
  <2>3. Writing'
    BY <2>1 DEF GInv, Writing, diskVars, ipcVars
  <2>4. Older' /\ Counted'
    BY <2>1 DEF GInv, Older, Once, Counted, Guarding, ipcVars, readerVars
  <2> QED
    BY <2>2, <2>3, <2>4
<1>2. ManagerTypes'
  <2>1. Len(pushed) \in Nat /\ <<i, Len(pushed) + 1>> \in Rows
    BY Constants DEF PushFails, GInv, Types, ManagerTypes, Rows
  <2>2. prebatch' \in Seq(Rows) /\ pushed' \in Seq(Rows)
    BY <2>1, AppendProperties DEF PushFails, GInv, Types, ManagerTypes
  <2> QED
    BY <2>2 DEF PushFails, MeetsError, GInv, Types, ManagerTypes
<1> QED
  BY <1>1, <1>2 DEF GInv, Types

\* A writer that fails drops its queue.
LEMMA WriterFailsGuards ==
  ASSUME GInv, WriterFails
  PROVE  GInv'
<1>1. (FileTypes /\ RolloutTypes /\ ReaderTypes /\ Writing /\ WalAhead /\ Older /\ Counted)'
  BY DEF GInv, Types, FileTypes, RolloutTypes, ReaderTypes, Writing, WalAhead, Older, Once, Counted,
         Guarding, WriterFails, diskVars, walVars, ipcVars, readerVars
<1>2. ManagerTypes'
  BY Constants DEF WriterFails, AfterError, MeetsError, GInv, Types, ManagerTypes, walVars
<1> QED
  BY <1>1, <1>2 DEF GInv, Types

\* An id that was skipped is newer than every listed file.
LEMMA EnsureFailsGuards ==
  ASSUME GInv, EnsureFails
  PROVE  GInv'
<1>0. /\ currentWalId' = currentWalId + 1 /\ currentWalId \in 0 .. MaxWals /\ currentWalId < MaxWals - 1
      /\ \A n \in WalIds : n \in Nat
  BY Constants DEF EnsureFails, GInv, Types, ManagerTypes, WalIds
<1>1. (FileTypes /\ RolloutTypes /\ ReaderTypes /\ WalAhead /\ Counted)'
  BY DEF GInv, Types, FileTypes, RolloutTypes, ReaderTypes, WalAhead, Counted, Guarding, EnsureFails,
         diskVars, ipcVars, readerVars
<1>2. ManagerTypes'
  BY <1>0, Constants DEF EnsureFails, AfterError, MeetsError, GInv, Types, ManagerTypes
<1>3. Writing'
  BY <1>0 DEF GInv, Writing, Flushing, Rotated, EnsureFails, ipcVars, diskVars
<1>4. Older'
  <2>1. UNCHANGED <<ipcFilePaths, guards>>
    BY DEF EnsureFails, ipcVars, readerVars
  <2>2. Range(ipcFilePaths) \subseteq WalIds /\ \A p \in Providers : guards[p] \subseteq WalIds
    BY PathsAreIds DEF GInv, Types, ReaderTypes
  <2>3. \A b \in WalIds : b < currentWalId => b < currentWalId'
    BY <1>0
  <2> QED
    BY <2>1, <2>2, <2>3 DEF GInv, Older, Once
<1> QED
  BY <1>1, <1>2, <1>3, <1>4 DEF GInv, Types

\* A rotation that fails leaves the WAL where it is.
LEMMA RotateFailsGuards ==
  ASSUME GInv, RotateFails
  PROVE  GInv'
<1>1. (FileTypes /\ RolloutTypes /\ ReaderTypes /\ WalAhead /\ Older /\ Counted)'
  BY DEF GInv, Types, FileTypes, RolloutTypes, ReaderTypes, WalAhead, Older, Once, Counted, Guarding,
         RotateFails, diskVars, ipcVars, readerVars
<1>2. ManagerTypes'
  BY Constants DEF RotateFails, NewPreBatch, MeetsError, GInv, Types, ManagerTypes, Steps
<1>3. Writing'
  BY Constants DEF GInv, Types, ManagerTypes, Writing, Rotated, Flushing, RotateFails, diskVars, ipcVars
<1> QED
  BY <1>1, <1>2, <1>3 DEF GInv, Types

\* A provider is one reader more of every listed file.
LEMMA SqlProviderGuards ==
  ASSUME GInv, NEW p \in Providers, SqlProvider(p)
  PROVE  GInv'
<1> DEFINE listed == Range(ipcFilePaths)
<1>a. listed \subseteq WalIds
  BY PathsAreIds DEF GInv, Types
<1>b. /\ guards' = [guards EXCEPT ![p] = listed] /\ guards[p] = {}
      /\ activeReaders' = [n \in WalIds |-> activeReaders[n] + (IF n \in listed THEN 1 ELSE 0)]
      /\ UNCHANGED pendingDeletions
  BY DEF SqlProvider
<1> HIDE DEF listed
<1>1. (FileTypes /\ ManagerTypes /\ RolloutTypes /\ Writing /\ WalAhead)'
  BY DEF GInv, Types, FileTypes, ManagerTypes, RolloutTypes, Writing, WalAhead, SqlProvider,
         diskVars, walVars, ipcVars, boundVars
<1>2. ReaderTypes'
  BY <1>a, <1>b DEF GInv, Types, ReaderTypes
<1>3. Older'
  <2>1. UNCHANGED <<ipcFilePaths, currentWalId>>
    BY DEF SqlProvider, ipcVars, walVars
  <2>2. \A q \in Providers : guards'[q] = guards[q] \/ guards'[q] = listed
    BY <1>b DEF GInv, Types, ReaderTypes
  <2> QED
    BY <2>1, <2>2 DEF GInv, Older, listed
<1>4. Counted'
  <2>1. ASSUME NEW b \in WalIds PROVE activeReaders'[b] = Cardinality(Guarding(b)')
    <3>1. /\ IsFiniteSet(Guarding(b)) /\ Cardinality(Guarding(b)) \in Nat
          /\ activeReaders[b] = Cardinality(Guarding(b))
      BY FiniteGuards DEF GInv, Counted
    <3>2. p \notin Guarding(b)
      BY <1>b DEF Guarding
    <3>3. CASE b \in listed
      <4>1. Guarding(b)' = Guarding(b) \cup {p}
        BY <1>b, <3>3 DEF Guarding, GInv, Types, ReaderTypes
      <4> QED
        BY <1>b, <3>1, <3>2, <3>3, <4>1, FS_AddElement
    <3>4. CASE b \notin listed
      <4>1. Guarding(b)' = Guarding(b)
        BY <1>b, <3>4 DEF Guarding, GInv, Types, ReaderTypes
      <4> QED
        BY <1>b, <3>1, <3>4, <4>1
    <3> QED
      BY <3>3, <3>4
  <2>2. \A b \in pendingDeletions' : activeReaders'[b] > 0
    BY <1>b DEF GInv, Counted, Types, ReaderTypes
  <2> QED
    BY <2>1, <2>2 DEF Counted
<1> QED
  BY <1>1, <1>2, <1>3, <1>4 DEF GInv, Types

\* A reader less; the last one takes its mark along with the file.
LEMMA DropGuardGuards ==
  ASSUME GInv, NEW p \in Providers, NEW b \in WalIds, DropGuard(p, b)
  PROVE  GInv'
<1>a. /\ b \in guards[p] /\ guards' = [guards EXCEPT ![p] = guards[p] \ {b}]
      /\ activeReaders' = [activeReaders EXCEPT ![b] = IF activeReaders[b] = 1 THEN 0 ELSE activeReaders[b] - 1]
      /\ pendingDeletions' = (IF activeReaders[b] = 1 /\ b \in pendingDeletions
                              THEN pendingDeletions \ {b} ELSE pendingDeletions)
  BY DEF DropGuard, IsLastReader, IsDeferred
<1>b. /\ activeReaders \in [WalIds -> Nat] /\ guards \in [Providers -> SUBSET WalIds]
      /\ pendingDeletions \subseteq WalIds
  BY DEF GInv, Types, ReaderTypes
<1>c. /\ IsFiniteSet(Guarding(b)) /\ Cardinality(Guarding(b)) \in Nat /\ p \in Guarding(b)
      /\ activeReaders[b] = Cardinality(Guarding(b))
  BY <1>a, FiniteGuards DEF GInv, Counted, Guarding
<1>d. activeReaders[b] \in Nat /\ activeReaders[b] > 0
  BY <1>b, <1>c, FS_EmptySet
<1>1. (ManagerTypes /\ RolloutTypes /\ Writing)'
  BY DEF GInv, Types, ManagerTypes, RolloutTypes, Writing, DropGuard, walVars, ipcVars, boundVars
<1>2. FileTypes'
  BY Constants DEF GInv, Types, FileTypes, Files, Optional, DropGuard
<1>3. ReaderTypes'
  BY <1>a, <1>b, <1>d DEF ReaderTypes
<1>4. WalAhead'
  BY Constants DEF GInv, Types, ManagerTypes, WalAhead, FileTypes, Files, DropGuard
<1>5. Older'
  <2>1. UNCHANGED <<ipcFilePaths, currentWalId>>
    BY DEF DropGuard, ipcVars, walVars
  <2>2. \A q \in Providers : guards'[q] \subseteq guards[q]
    BY <1>a, <1>b
  <2> QED
    BY <2>1, <2>2 DEF GInv, Older
<1>6. Counted'
  <2>1. ASSUME NEW n \in WalIds PROVE activeReaders'[n] = Cardinality(Guarding(n)')
    <3>1. CASE n = b
      <4>1. Guarding(b)' = Guarding(b) \ {p}
        BY <1>a, <1>b DEF Guarding
      <4>2. Cardinality(Guarding(b) \ {p}) = Cardinality(Guarding(b)) - 1
        BY <1>c, FS_RemoveElement
      <4> QED
        BY <1>a, <1>b, <1>c, <3>1, <4>1, <4>2
    <3>2. CASE n # b
      <4>1. Guarding(n)' = Guarding(n)
        BY <1>a, <1>b, <3>2 DEF Guarding
      <4> QED
        BY <1>a, <1>b, <3>2, <4>1 DEF GInv, Counted
    <3> QED
      BY <3>1, <3>2
  <2>2. ASSUME NEW n \in pendingDeletions' PROVE activeReaders'[n] > 0
    <3>1. n \in pendingDeletions /\ activeReaders[n] > 0
      BY <1>a, <2>2 DEF GInv, Counted
    <3> QED
      BY <1>a, <1>b, <1>d, <2>2, <3>1
  <2> QED
    BY <2>1, <2>2 DEF Counted
<1> QED
  BY <1>1, <1>2, <1>3, <1>4, <1>5, <1>6 DEF GInv, Types

\* The memory is gone, and the readers with it.
LEMMA HaltGuards ==
  ASSUME GInv, Halt
  PROVE  GInv'
<1>1. (FileTypes /\ WalAhead)'
  BY DEF GInv, Types, FileTypes, WalAhead, Halt, diskVars
<1>2. ManagerTypes'
  <2>1. trouble' \in {trouble, "met"}
    BY DEF Halt
  <2>2. /\ up' = FALSE /\ walOpen' = FALSE /\ sink' = 0 /\ currentWalId' = 0
        /\ prebatch' = <<>> /\ queue' = <<>> /\ op' = "idle" /\ flight' = NoFlight
        /\ UNCHANGED <<pushed, before>>
    BY DEF Halt
  <2>3. flight'.batch = <<>>
    BY <2>2 DEF NoFlight
  <2>4. trouble' \in {"none", "met", "restored"}
    BY <2>1 DEF GInv, Types, ManagerTypes
  <2>5. pushed' \in Seq(Rows) /\ before' \in Nat
    BY <2>2 DEF GInv, Types, ManagerTypes
  <2>6. sink' \in 0 .. MaxWals /\ currentWalId' \in 0 .. MaxWals
    BY <2>2, Constants
  <2>7. prebatch' \in Seq(Rows) /\ queue' \in Seq(Rows) /\ flight'.batch \in Seq(Rows)
    BY <2>2, <2>3, Constants
  <2>8. up' \in BOOLEAN /\ walOpen' \in BOOLEAN /\ op' \in Steps
    BY <2>2 DEF Steps
  <2>9. writer' = "running"
    BY DEF Halt
  <2> QED
    BY <2>4, <2>5, <2>6, <2>7, <2>8, <2>9 DEF ManagerTypes
<1>3. RolloutTypes'
  BY Constants DEF GInv, Types, ManagerTypes, RolloutTypes, Optional, Halt, NoRollout, NoCounts,
                   NoReaders, NoFlight
<1>4. ReaderTypes'
  BY Constants DEF GInv, Types, ReaderTypes, Halt, NoRollout, NoCounts, NoReaders, NoFlight
<1>5. Writing'
  BY Constants DEF GInv, Types, ManagerTypes, Writing, Rotated, Flushing, Halt, diskVars,
                   NoRollout, NoCounts, NoReaders, NoFlight
<1>6. Older'
  BY DEF Halt, Older, Once, Range
<1>7. Counted'
  <2>1. \A b \in WalIds : {p \in Providers : b \in guards'[p]} = {}
    BY DEF Halt
  <2>2. \A b \in WalIds : activeReaders'[b] = 0
    BY DEF Halt, NoReaders
  <2>3. pendingDeletions' = {}
    BY DEF Halt
  <2> QED
    BY <2>1, <2>2, <2>3, FS_EmptySet DEF Counted, Guarding
<1> QED
  BY <1>1, <1>2, <1>3, <1>4, <1>5, <1>6, <1>7 DEF GInv, Types

\* DataManager::new reads nothing.
LEMMA StartFreshGuards ==
  ASSUME GInv, StartFresh
  PROVE  GInv'
<1>1. (FileTypes /\ RolloutTypes /\ ReaderTypes /\ WalAhead /\ Older /\ Counted)'
  BY DEF GInv, Types, FileTypes, RolloutTypes, ReaderTypes, WalAhead, Older, Once, Counted,
         Guarding, StartFresh, diskVars, walVars, ipcVars, readerVars
<1>2. ManagerTypes'
  BY Constants DEF GInv, Types, ManagerTypes, Writing, Flushing, Rotated, Steps, WalIds,
                   StartFresh, walVars
<1>3. Writing'
  BY Constants DEF GInv, Types, ManagerTypes, Writing, Rotated, Flushing, StartFresh, diskVars,
                   walVars, ipcVars
<1> QED
  BY <1>1, <1>2, <1>3 DEF GInv, Types

\* restore() goes on with the last WAL, and lists each older Arrow file once.
LEMMA StartRestoredGuards ==
  ASSUME GInv, StartRestored
  PROVE  GInv'
<1>a. /\ LastId \in 0 .. MaxWals
      /\ \A n \in WalIds : wal[n] # None \/ arrow[n] # None => n <= LastId
      /\ \A n \in WalIds : arrow[n] # None => n < LastId
      /\ LastId # 0 => LastId \in WalIds /\ wal[LastId] # None /\ RecoversWal
  BY LastIdOK DEF GInv, Types
<1>b. Existing(arrow) \subseteq WalIds /\ Existing(parquet) \subseteq WalIds
  BY DEF Existing
<1>c. RecoversWal => LastId \in WalIds /\ wal[LastId] # None
  BY <1>a, Constants DEF RecoversWal, WalIds
<1>1. (FileTypes /\ ReaderTypes /\ WalAhead /\ Counted)'
  BY DEF GInv, Types, FileTypes, ReaderTypes, WalAhead, Counted, Guarding, StartRestored,
         diskVars, readerVars
<1>2. ManagerTypes'
  <2>1. RecoveredRows \in Seq(Rows)
    BY <1>c, Constants DEF RecoveredRows, GInv, Types, FileTypes, Files, Optional
  <2>2. RecoversWal \in BOOLEAN
    BY DEF RecoversWal
  <2>3. currentWalId' \in 0 .. MaxWals /\ sink' \in 0 .. MaxWals
    BY <1>a, Constants DEF StartRestored
  <2>4. trouble' \in {trouble, "restored"}
    BY DEF StartRestored
  <2> QED
    BY <2>1, <2>2, <2>3, <2>4 DEF StartRestored, GInv, Types, ManagerTypes
<1>3. RolloutTypes'
  <2>1. ipcFiles' \in Seq(WalIds) /\ ipcFilePaths' \in Seq(WalIds)
    BY <1>b, SortedLists DEF StartRestored
  <2>2. ipcRowCounts' \in [WalIds -> Optional(Nat)]
    <3>1. \A n \in WalIds : arrow[n] # None => Len(arrow[n]) \in Nat
      BY DEF GInv, Types, FileTypes, Files, Optional
    <3> QED
      BY <3>1 DEF StartRestored, CountsOf, Optional
  <2>3. UNCHANGED rolling
    BY DEF StartRestored
  <2> QED
    BY <2>1, <2>2, <2>3 DEF GInv, Types, RolloutTypes
<1>4. Writing'
  <2>1. /\ up' = TRUE /\ op' = "idle" /\ queue' = <<>> /\ currentWalId' = LastId /\ wal' = wal
        /\ walOpen' = RecoversWal /\ sink' = IF RecoversWal THEN LastId ELSE 0
        /\ ipcFiles' = SortedIds(Existing(arrow))
    BY DEF StartRestored, GInv, Writing, diskVars
  <2>2. ipcFiles' # <<>> => RecoversWal
    <3>1. SUFFICES ASSUME LastId = 0 PROVE Existing(arrow) = {}
      BY <1>a, <1>b, <2>1, SortedLists
    <3> QED
      BY <1>a, <3>1, Constants DEF Existing, WalIds
  <2> QED
    BY <1>c, <2>1, <2>2 DEF Writing, Flushing, Rotated
<1>5. Older'
  <2>1. /\ UNCHANGED guards /\ currentWalId' = LastId
        /\ ipcFilePaths' = SortedPaths(Existing(arrow))
    BY DEF StartRestored, readerVars
  <2>2. Once(ipcFilePaths') /\ Range(ipcFilePaths') = Existing(arrow)
    BY <1>b, <2>1, SortedLists
  <2>3. \A b \in Range(ipcFilePaths') : b < LastId
    BY <1>a, <2>2 DEF Existing
  <2>4. \A q \in Providers : guards[q] = {}
    <3> SUFFICES ASSUME NEW q \in Providers, NEW b \in guards[q] PROVE FALSE
      OBVIOUS
    <3>1. currentWalId = 0 /\ b < currentWalId /\ b \in WalIds
      BY DEF StartRestored, GInv, Writing, Older, Types, ReaderTypes
    <3> QED
      BY <3>1, Constants DEF WalIds
  <2> QED
    BY <2>1, <2>2, <2>3, <2>4 DEF Older
<1> QED
  BY <1>1, <1>2, <1>3, <1>4, <1>5 DEF GInv, Types

\* A fresh manager has no file and no reader.
LEMMA InitGuards == Init => GInv
<1> SUFFICES ASSUME Init PROVE GInv
  OBVIOUS
<1>1. FileTypes
  <2>1. NoCounts \in Files
    BY DEF NoCounts, Files, Optional
  <2> QED
    BY <2>1 DEF Init, FileTypes
<1>2. ManagerTypes
  <2>1. flight.batch = <<>>
    BY DEF Init, NoFlight
  <2>2. sink \in 0 .. MaxWals /\ currentWalId \in 0 .. MaxWals
    BY Constants DEF Init
  <2>3. /\ prebatch \in Seq(Rows) /\ queue \in Seq(Rows) /\ pushed \in Seq(Rows)
        /\ flight.batch \in Seq(Rows)
    BY <2>1, Constants DEF Init
  <2>4. up \in BOOLEAN /\ walOpen \in BOOLEAN /\ op \in Steps /\ before \in Nat
        /\ trouble \in {"none", "met", "restored"} /\ writer \in {"running", "failed", "gone"}
    BY DEF Init, Steps
  <2> QED
    BY <2>2, <2>3, <2>4 DEF ManagerTypes
<1>3. RolloutTypes
  <2>1. ipcFiles \in Seq(WalIds) /\ ipcFilePaths \in Seq(WalIds)
    BY Constants DEF Init
  <2>2. ipcRowCounts \in [WalIds -> Optional(Nat)]
    BY DEF Init, NoCounts, Optional
  <2>3. 1 \in Nat \ {0} /\ 0 \in Nat
    OBVIOUS
  <2>4. rolling \in [files : Seq(WalIds), next : Nat \ {0}, rows : Seq(Rows), count : Nat]
    BY <2>3, Constants DEF Init, NoRollout
  <2> QED
    BY <2>1, <2>2, <2>4 DEF RolloutTypes
<1>4. ReaderTypes
  BY DEF Init, NoReaders, ReaderTypes
<1>5. Writing
  BY DEF Init, Writing, Flushing, Rotated
<1>6. WalAhead
  BY DEF Init, WalAhead, NoCounts
<1>7. Older
  BY DEF Init, Older, Once, Range
<1>8. Counted
  <2>1. \A b \in WalIds : Guarding(b) = {} /\ activeReaders[b] = 0
    BY DEF Init, Guarding, NoReaders
  <2>2. pendingDeletions = {}
    BY DEF Init
  <2> QED
    BY <2>1, <2>2, FS_EmptySet DEF Counted
<1> QED
  BY <1>1, <1>2, <1>3, <1>4, <1>5, <1>6, <1>7, <1>8 DEF GInv, Types

\* Nothing changes in a step that is not of the manager.
LEMMA StutterGuards ==
  ASSUME GInv, UNCHANGED vars
  PROVE  GInv'
<1>1. Types'
  BY DEF GInv, Types, FileTypes, ManagerTypes, RolloutTypes, ReaderTypes, vars, diskVars,
         walVars, ipcVars, parquetVars, readerVars, boundVars
<1>2. Writing' /\ WalAhead'
  BY DEF GInv, Writing, WalAhead, vars, diskVars, walVars, ipcVars
<1>3. Older' /\ Counted'
  BY DEF GInv, Older, Once, Counted, Guarding, vars, walVars, ipcVars, readerVars
<1> QED
  BY <1>1, <1>2, <1>3 DEF GInv

\* Every step of a manager keeps the invariant.
LEMMA NextGuards == GInv /\ [Next]_vars => GInv'
<1> SUFFICES ASSUME GInv, [Next]_vars PROVE GInv'
  OBVIOUS
<1>1. ASSUME NEW i \in Indices, PushRecord(i) PROVE GInv'
  BY <1>1, PushRecordGuards
<1>a. ASSUME NEW i \in Indices, PushFails(i) PROVE GInv'
  BY <1>a, PushFailsGuards
<1>2. CASE WriteRow \/ EnsureFails \/ WriterFails
  BY <1>2, WriteRowGuards, EnsureFailsGuards, WriterFailsGuards
<1>3. CASE FlushWal \/ OpenNext \/ Rotate \/ RotateFails
  BY <1>3, FlushWalGuards, OpenNextGuards, RotateGuards, RotateFailsGuards
<1>4. CASE WriteArrowIpc \/ IndexRows \/ DeleteWal \/ Track
  BY <1>4, WriteArrowIpcGuards, IndexRowsGuards, DeleteWalGuards, TrackGuards
<1>5. CASE RolloutToParquet \/ RollFile \/ WriteParquet
  BY <1>5, RolloutToParquetGuards, RollFileGuards, WriteParquetGuards
<1>6. CASE Fail
  BY <1>6, FailGuards
<1>7. ASSUME NEW p \in Providers, SqlProvider(p) PROVE GInv'
  BY <1>7, SqlProviderGuards
<1>8. ASSUME NEW p \in Providers, NEW b \in WalIds, DropGuard(p, b) PROVE GInv'
  BY <1>8, DropGuardGuards
<1>9. CASE Halt \/ StartFresh \/ StartRestored
  BY <1>9, HaltGuards, StartFreshGuards, StartRestoredGuards
<1>10. CASE UNCHANGED vars
  BY <1>10, StutterGuards
<1> QED
  BY <1>1, <1>a, <1>2, <1>3, <1>4, <1>5, <1>6, <1>7, <1>8, <1>9, <1>10 DEF Next

\* In every reachable state GInv holds: the state machine of data.rs keeps its
\* types, its WAL ahead of its Arrow files, and its readers counted.
THEOREM Guarded == Spec => []GInv
<1>1. Init => GInv
  BY InitGuards
<1>2. GInv /\ [Next]_vars => GInv'
  BY NextGuards
<1> QED
  BY <1>1, <1>2, PTL DEF Spec

-----------------------------------------------------------------------------
(* Guarded files *)

\* A file that is guarded has a reader; with two of them, it has two.
LEMMA GuardsAreReaders ==
  ASSUME GInv, NEW p \in Providers, NEW b \in guards[p]
  PROVE  /\ b \in WalIds /\ b < currentWalId /\ activeReaders[b] > 0
         /\ \A q \in Providers : q # p /\ b \in guards[q] => activeReaders[b] # 1
<1>1. b \in WalIds /\ b < currentWalId
  BY DEF GInv, Types, ReaderTypes, Older
<1>2. activeReaders[b] = Cardinality(Guarding(b))
  BY <1>1 DEF GInv, Counted
<1>3. IsFiniteSet(Guarding(b)) /\ Cardinality(Guarding(b)) \in Nat /\ p \in Guarding(b)
  BY FiniteGuards DEF Guarding
<1>4. Cardinality(Guarding(b)) # 0
  BY <1>3, FS_EmptySet
<1>5. ASSUME NEW q \in Providers, q # p, b \in guards[q] PROVE Cardinality(Guarding(b)) # 1
  <2>1. q \in Guarding(b)
    BY <1>5 DEF Guarding
  <2>2. {p} \subseteq Guarding(b) /\ {p} # Guarding(b)
    BY <1>3, <1>5, <2>1
  <2>3. Cardinality({p}) = 1
    BY FS_Singleton
  <2> QED
    BY <1>3, <2>2, <2>3, FS_Subset
<1> QED
  BY <1>1, <1>2, <1>3, <1>4, <1>5

\* No step changes a file that is guarded before and after it.
LEMMA StepKeepsFile ==
  ASSUME GInv, [Next]_vars,
         NEW p \in Providers, NEW b \in guards[p] \cap guards'[p]
  PROVE  arrow'[b] = arrow[b]
<1>0. /\ b \in WalIds /\ b < currentWalId /\ activeReaders[b] > 0
      /\ \A q \in Providers : q # p /\ b \in guards[q] => activeReaders[b] # 1
  BY GuardsAreReaders
<1>f. arrow \in Files /\ currentWalId \in Nat /\ rolling.next \in Nat
  BY DEF GInv, Types, FileTypes, ManagerTypes, RolloutTypes
<1>1. CASE WriteArrowIpc
  <2>1. b # currentWalId
    BY <1>0, <1>f DEF WalIds
  <2> QED
    BY <1>0, <1>f, <1>1, <2>1 DEF WriteArrowIpc, Files
<1>2. CASE RollFile
  <2>1. BeingRead(b)
    BY <1>0 DEF BeingRead
  <2>2. PICK c : c = rolling.files[rolling.next]
    OBVIOUS
  <2>3. arrow' = [arrow EXCEPT ![c] = IF BeingRead(c) THEN arrow[c] ELSE None]
    BY <1>2, <2>2 DEF RollFile
  <2> QED
    BY <1>0, <1>f, <2>1, <2>3 DEF Files
<1>3. ASSUME NEW q \in Providers, NEW c \in WalIds, DropGuard(q, c)
      PROVE  arrow'[b] = arrow[b]
  <2>1. CASE c # b
    BY <1>0, <1>f, <1>3, <2>1 DEF DropGuard, Files
  <2>2. CASE c = b
    <3>1. b \in guards[q] /\ guards' = [guards EXCEPT ![q] = @ \ {b}]
      BY <1>3, <2>2 DEF DropGuard
    <3>2. q # p
      BY <3>1 DEF GInv, Types, ReaderTypes
    <3>3. ~IsLastReader(b)
      BY <1>0, <3>1, <3>2 DEF IsLastReader
    <3> QED
      BY <1>3, <2>2, <3>3 DEF DropGuard
  <2> QED
    BY <2>1, <2>2
<1>4. CASE ~WriteArrowIpc /\ ~RollFile /\ ~\E q \in Providers, c \in WalIds : DropGuard(q, c)
  <2>1. UNCHANGED arrow
    BY <1>4 DEF Next, vars, diskVars, PushRecord, PushFails, EnsureFails, WriteRow, WriterFails,
                FlushWal, OpenNext, Rotate, RotateFails,
                IndexRows, DeleteWal, Track, RolloutToParquet, WriteParquet, Fail,
                SqlProvider, Halt, StartFresh, StartRestored
  <2> QED
    BY <2>1
<1> QED
  BY <1>1, <1>2, <1>3, <1>4

\* GuardedFileStays: no flush, rollout, other reader or restart deletes or
\* rewrites an Arrow file while a query holds a guard on it (rollout_to_parquet
\* defers the deletion, remove_reader lets the last reader do it).
THEOREM GuardsHold == Spec => GuardedFileStays
<1>1. GInv /\ [Next]_vars =>
        [\A p \in Providers : \A b \in guards[p] \cap guards'[p] : arrow'[b] = arrow[b]]_vars
  BY StepKeepsFile
<1> QED
  BY <1>1, Guarded, PTL DEF Spec, GuardedFileStays

-----------------------------------------------------------------------------
(* The rows of a directory *)

\* No error met the directory, and no manager that was not restored went over it.
Whole == trouble = "none" /\ before = 0

\* The steps of a flush with the next WAL open, and those with the Arrow file written.
Opened == {"rotate"} \cup Rotated
Written == {"index", "delete_wal", "track"}

\* The Arrow files a rollout has still to read.
Pending == {rolling.files[k] : k \in rolling.next .. Len(rolling.files)}

\* There is nothing before the first row.
Blank ==
  pushed = <<>> =>
    /\ \A n \in WalIds : wal[n] = None /\ arrow[n] = None /\ parquet[n] = None
    /\ ~walOpen /\ ipcFiles = <<>> /\ op = "idle"

\* The WAL files: none is newer than the one the writer appends to or will append
\* to, and what a WAL or the queue holds, the PreBatch or the batch in flight holds too.
SinkIsCurrent == walOpen /\ op \notin Rotated => sink = currentWalId
NothingBuffered == op \in Rotated => queue = <<>> /\ prebatch = <<>>
NewestWal == up => \A n \in WalIds : wal[n] # None =>
               n <= currentWalId \/ (op \in Opened /\ n = currentWalId + 1)
NextWalEmpty == op \in Opened => wal[currentWalId + 1] = <<>>
WalInPreBatch == walOpen => Range(wal[sink]) \cup Range(queue) \subseteq Range(prebatch)
WalInFlight == op \in Rotated /\ wal[currentWalId] # None =>
                 Range(wal[currentWalId]) \subseteq Range(flight.batch)
FlightInArrow == op \in Written => arrow[currentWalId] = flight.batch

Logged == SinkIsCurrent /\ NothingBuffered /\ NewestWal /\ NextWalEmpty /\ WalInPreBatch
          /\ WalInFlight /\ FlightInArrow

\* The Arrow files: each one waits for a rollout, or for its last reader.
RollsApart == /\ op # "roll" => rolling = NoRollout
              /\ op = "roll" => ipcFiles = <<>>
ArrowsListed == up => \A n \in WalIds : arrow[n] # None =>
                  \/ n < currentWalId
                     /\ (n \in pendingDeletions \/ n \in Range(ipcFiles) \/ n \in Pending)
                  \/ n = currentWalId /\ op \in Written
MarkedAreRead == /\ ~up => pendingDeletions = {}
                 /\ \A b \in pendingDeletions :
                      arrow[b] # None
                      /\ Range(arrow[b]) \subseteq RowsIn(parquet) \cup Range(rolling.rows)

Listed == RollsApart /\ ArrowsListed /\ MarkedAreRead

\* The Parquet files: none is newer than the last WAL, and the next name is free.
ParquetsHaveWal == \A q \in WalIds : parquet[q] # None => \E m \in WalIds : m >= q /\ wal[m] # None
ParquetsAreOld == up => \A q \in WalIds : parquet[q] # None => q <= currentWalId
NameIsFree == up /\ (op = "roll" \/ ipcFiles # <<>>) => parquet[currentWalId] = None
ParquetsAreLater == \A q, n \in WalIds :
                      parquet[q] # None /\ arrow[n] # None /\ n < q => n \in pendingDeletions

Parquets == ParquetsHaveWal /\ ParquetsAreOld /\ NameIsFree /\ ParquetsAreLater

\* Every row is in a file, in the queue, or in the rollout under way.
Held == Range(pushed) \subseteq OnDisk \cup Range(queue) \cup Range(rolling.rows)

DInv == /\ before <= Len(pushed)
        /\ Whole => Blank /\ Logged /\ Listed /\ Parquets /\ Held

\* The rows of a file are rows of its directory.
LEMMA RowsOf ==
  ASSUME NEW f, NEW n \in WalIds, f[n] # None
  PROVE  Range(f[n]) \subseteq RowsIn(f)
BY DEF RowsIn, Existing

\* Rows that stay in their file, or are in S.
LEMMA RowsKept ==
  ASSUME NEW f, NEW g, NEW S,
         \A n \in WalIds : f[n] # None =>
           Range(f[n]) \subseteq S \/ (g[n] # None /\ Range(f[n]) \subseteq Range(g[n]))
  PROVE  RowsIn(f) \subseteq RowsIn(g) \cup S
<1> SUFFICES ASSUME NEW n \in WalIds, f[n] # None, NEW r \in Range(f[n]), r \notin S
             PROVE  r \in RowsIn(g)
  BY DEF RowsIn, Existing
<1>1. g[n] # None /\ r \in Range(g[n])
  OBVIOUS
<1> QED
  BY <1>1, RowsOf

\* An empty sequence has no element.
LEMMA RangeOfEmpty == Range(<<>>) = {}
BY DEF Range

\* The types the steps below use.
LEMMA TypesOf ==
  ASSUME GInv
  PROVE  /\ wal \in Files /\ arrow \in Files /\ parquet \in Files
         /\ currentWalId \in Nat /\ \A n \in WalIds : n \in Nat
         /\ prebatch \in Seq(Rows) /\ queue \in Seq(Rows) /\ pushed \in Seq(Rows)
         /\ flight.batch \in Seq(Rows) /\ ipcFiles \in Seq(WalIds)
         /\ rolling.files \in Seq(WalIds) /\ rolling.next \in Nat /\ rolling.rows \in Seq(Rows)
         /\ walOpen => up /\ currentWalId \in WalIds /\ sink \in WalIds /\ wal[sink] \in Seq(Rows)
<1>1. wal \in Files /\ arrow \in Files /\ parquet \in Files
  BY DEF GInv, Types, FileTypes
<1>2. currentWalId \in Nat /\ \A n \in WalIds : n \in Nat
  BY Constants DEF GInv, Types, ManagerTypes, WalIds
<1>3. prebatch \in Seq(Rows) /\ queue \in Seq(Rows) /\ pushed \in Seq(Rows) /\ flight.batch \in Seq(Rows)
  BY DEF GInv, Types, ManagerTypes
<1>4. /\ ipcFiles \in Seq(WalIds) /\ rolling.files \in Seq(WalIds) /\ rolling.next \in Nat
      /\ rolling.rows \in Seq(Rows)
  BY DEF GInv, Types, RolloutTypes
<1>5. walOpen => up /\ currentWalId \in WalIds /\ sink \in WalIds /\ wal[sink] # None
  BY DEF GInv, Writing
<1>6. walOpen => wal[sink] \in Seq(Rows)
  BY <1>1, <1>5 DEF Files, Optional
<1> QED
  BY <1>1, <1>2, <1>3, <1>4, <1>5, <1>6

\* The row enters the queue and the PreBatch together; a first WAL is empty.
LEMMA PushRecordKeeps ==
  ASSUME GInv, DInv, NEW i \in Indices, PushRecord(i)
  PROVE  DInv'
<1>g. GInv'
  BY PushRecordGuards
<1>s. before' <= Len(pushed')
  <2>1. /\ pushed \in Seq(Rows) /\ before \in Nat /\ before <= Len(pushed)
        /\ UNCHANGED before /\ pushed' = Append(pushed, <<i, Len(pushed) + 1>>)
    BY TypesOf DEF DInv, GInv, Types, ManagerTypes, PushRecord, boundVars
  <2>2. Len(pushed') = Len(pushed) + 1 /\ Len(pushed) \in Nat
    BY <2>1
  <2> QED
    BY <2>1, <2>2
<1> SUFFICES ASSUME Whole'
             PROVE  (Blank /\ Logged /\ Listed /\ Parquets /\ Held)'
  BY <1>s DEF DInv
<1>w. Whole /\ Blank /\ Logged /\ Listed /\ Parquets /\ Held
  BY DEF Whole, DInv, PushRecord, boundVars
<1> USE DEF Logged, Listed, Parquets
<1>a. /\ up /\ op = "idle" /\ op' \in {"idle", "open"} /\ walOpen' = TRUE
      /\ UNCHANGED <<arrow, parquet, up, ipcFiles, pendingDeletions, rolling>>
  BY DEF PushRecord, ipcVars, readerVars
<1>b. PICK row \in Rows : /\ prebatch' = Append(prebatch, row) /\ queue' = Append(queue, row)
                          /\ pushed' = Append(pushed, row)
  <2>1. Len(pushed) \in Nat
    BY TypesOf
  <2>2. <<i, Len(pushed) + 1>> \in Rows
    BY <2>1, Constants DEF PushRecord, Rows
  <2> QED
    BY <2>2 DEF PushRecord
<1>c. /\ Range(prebatch') = Range(prebatch) \cup {row} /\ Range(queue') = Range(queue) \cup {row}
      /\ Range(pushed') = Range(pushed) \cup {row}
  BY <1>b, TypesOf, RangeOfAppend
<1>d. currentWalId \in Nat /\ currentWalId' \in WalIds /\ currentWalId' \in Nat
      /\ wal \in Files /\ \A n \in WalIds : n \in Nat
  BY <1>a, <1>g, TypesOf DEF GInv, Writing
<1>e. walOpen => UNCHANGED <<wal, sink, currentWalId>>
  BY DEF PushRecord
<1>f. ~walOpen => /\ currentWalId' = currentWalId + 1 /\ sink' = currentWalId'
                  /\ wal' = [wal EXCEPT ![currentWalId'] = <<>>] /\ wal[currentWalId'] = None
                  /\ queue = <<>> /\ ipcFiles = <<>>
  <2> SUFFICES ASSUME ~walOpen
               PROVE  /\ currentWalId' = currentWalId + 1 /\ sink' = currentWalId'
                      /\ wal' = [wal EXCEPT ![currentWalId'] = <<>>] /\ wal[currentWalId'] = None
                      /\ queue = <<>> /\ ipcFiles = <<>>
    OBVIOUS
  <2>1. currentWalId' = currentWalId + 1 /\ sink' = currentWalId'
    BY DEF PushRecord
  <2>2. wal[currentWalId'] = None
    BY <1>a, <1>d, <1>w, <2>1 DEF NewestWal, Opened, Rotated
  <2>3. wal' = [wal EXCEPT ![currentWalId'] = <<>>]
    BY <2>1, <2>2 DEF PushRecord
  <2>4. queue = <<>> /\ ipcFiles = <<>>
    BY DEF GInv, Writing
  <2> QED
    BY <2>1, <2>2, <2>3, <2>4
<1>h. /\ currentWalId <= currentWalId'
      /\ \A n \in WalIds : wal[n] # None => wal'[n] = wal[n]
      /\ \A n \in WalIds : wal'[n] # None => wal[n] # None \/ n = currentWalId'
  BY <1>d, <1>e, <1>f DEF Files
<1>1. (MarkedAreRead /\ ParquetsAreLater)'
  BY <1>w DEF MarkedAreRead, ParquetsAreLater, RowsIn, Existing, PushRecord, readerVars
<1>2. (Blank /\ SinkIsCurrent /\ NothingBuffered /\ NextWalEmpty)'
  BY <1>w DEF Blank, SinkIsCurrent, NothingBuffered, NextWalEmpty, Rotated, Opened, PushRecord,
              ipcVars
<1>3. (WalInFlight /\ FlightInArrow /\ RollsApart)'
  BY <1>w DEF WalInFlight, FlightInArrow, RollsApart, Rotated, Written, PushRecord, ipcVars
<1>4. ParquetsHaveWal'
  BY <1>w DEF ParquetsHaveWal, PushRecord
<1>5. NewestWal'
  <2>1. \A n \in WalIds : wal[n] # None => n <= currentWalId
    BY <1>a, <1>w DEF NewestWal, Opened, Rotated
  <2>2. ASSUME NEW n \in WalIds, wal[n] # None PROVE n <= currentWalId'
    <3>1. n \in Nat /\ n <= currentWalId
      BY <1>d, <2>1, <2>2
    <3> QED
      BY <1>d, <1>h, <3>1
  <2>3. currentWalId' <= currentWalId'
    BY <1>d
  <2> QED
    BY <1>h, <2>2, <2>3 DEF NewestWal
<1>6. WalInPreBatch'
  <2>1. CASE walOpen
    BY <1>c, <1>e, <1>w, <2>1 DEF WalInPreBatch
  <2>2. CASE ~walOpen
    <3>1. wal'[sink'] = <<>>
      BY <1>d, <1>f, <2>2 DEF Files
    <3> QED
      BY <1>c, <1>f, <2>2, <3>1, RangeOfEmpty DEF WalInPreBatch
  <2> QED
    BY <2>1, <2>2
<1>7. ArrowsListed'
  <2>1. \A n \in WalIds : n < currentWalId => n < currentWalId'
    BY <1>d, <1>h
  <2> QED
    BY <1>a, <1>w, <2>1 DEF ArrowsListed, Written, Pending
<1>8. ParquetsAreOld'
  <2>1. \A n \in WalIds : n <= currentWalId => n <= currentWalId'
    <3> SUFFICES ASSUME NEW n \in WalIds, n <= currentWalId PROVE n <= currentWalId'
      OBVIOUS
    <3>1. n \in Nat /\ currentWalId \in Nat /\ currentWalId' \in Nat
      BY <1>d
    <3>2. currentWalId <= currentWalId'
      BY <1>h
    <3> QED
      BY <3>1, <3>2
  <2> QED
    BY <1>a, <1>w, <2>1 DEF ParquetsAreOld
<1>9. NameIsFree'
  BY <1>a, <1>e, <1>f, <1>w DEF NameIsFree
<1>10. Held'
  <2>1. RowsIn(wal) \subseteq RowsIn(wal') \cup {}
    BY <1>h, RowsKept
  <2> QED
    BY <1>a, <1>c, <1>w, <2>1 DEF Held, OnDisk, RowsIn, Existing
<1> QED
  BY <1>1, <1>2, <1>3, <1>4, <1>5, <1>6, <1>7, <1>8, <1>9, <1>10

\* The row leaves the queue for the WAL, in one step.
LEMMA WriteRowKeeps ==
  ASSUME GInv, DInv, WriteRow
  PROVE  DInv'
<1>s. before' <= Len(pushed')
  BY DEF DInv, WriteRow, boundVars
<1> SUFFICES ASSUME Whole'
             PROVE  (Blank /\ Logged /\ Listed /\ Parquets /\ Held)'
  BY <1>s DEF DInv
<1>w. Whole /\ Blank /\ Logged /\ Listed /\ Parquets /\ Held
  BY DEF Whole, DInv, WriteRow, boundVars
<1> USE DEF Logged, Listed, Parquets
<1>a. /\ walOpen /\ up /\ queue # <<>> /\ queue \in Seq(Rows) /\ wal \in Files
      /\ sink \in WalIds /\ wal[sink] \in Seq(Rows) /\ currentWalId \in Nat
  BY TypesOf DEF WriteRow, GInv, Writing
<1>b. Head(queue) \in Rows /\ Range(queue) = {Head(queue)} \cup Range(Tail(queue)) /\ queue' = Tail(queue)
  BY <1>a, RangeOfTail DEF WriteRow
<1>c. /\ Append(wal[sink], Head(queue)) \in Seq(Rows)
      /\ Range(Append(wal[sink], Head(queue))) = Range(wal[sink]) \cup {Head(queue)}
  BY <1>a, <1>b, RangeOfAppend
<1>d. PICK s : s = Append(wal[sink], Head(queue))
  OBVIOUS
<1>e. wal' = [wal EXCEPT ![sink] = s]
      /\ UNCHANGED <<arrow, parquet, up, op, flight, rolling, pushed, walOpen, sink, currentWalId, prebatch>>
  BY <1>d DEF WriteRow, walVars
<1>f. /\ s \in Seq(Rows) /\ s # None /\ wal[sink] # None
      /\ Range(s) = Range(wal[sink]) \cup {Head(queue)}
  BY <1>a, <1>c, <1>d, Constants
<1>h. /\ wal'[sink] = s
      /\ \A n \in WalIds : n # sink => wal'[n] = wal[n]
      /\ \A n \in WalIds : wal'[n] # None <=> wal[n] # None
  BY <1>a, <1>e, <1>f DEF Files
<1>i. op \notin Rotated /\ sink = currentWalId
  BY <1>a, <1>w DEF NothingBuffered, SinkIsCurrent
<1>1. (SinkIsCurrent /\ FlightInArrow /\ RollsApart /\ ArrowsListed /\ MarkedAreRead
       /\ ParquetsAreOld /\ NameIsFree /\ ParquetsAreLater)'
  BY <1>w DEF SinkIsCurrent, FlightInArrow, RollsApart, ArrowsListed, MarkedAreRead,
              ParquetsAreOld, NameIsFree, ParquetsAreLater, Pending, RowsIn, Existing, WriteRow,
              walVars, ipcVars, readerVars
<1>2. NothingBuffered'
  BY <1>w DEF NothingBuffered, Rotated, WriteRow, walVars
<1>3. Blank'
  BY <1>a, <1>e, <1>w DEF Blank
<1>4. NewestWal'
  BY <1>e, <1>h, <1>w DEF NewestWal
<1>5. NextWalEmpty'
  <2>1. CASE op \in Opened
    <3>1. currentWalId + 1 \in WalIds /\ currentWalId + 1 # sink
      BY <1>a, <1>i, <2>1, Constants DEF GInv, Writing, Flushing, Opened, WalIds
    <3> QED
      BY <1>e, <1>h, <1>w, <3>1 DEF NextWalEmpty
  <2>2. CASE op \notin Opened
    BY <1>e, <2>2 DEF NextWalEmpty
  <2> QED
    BY <2>1, <2>2
<1>6. WalInPreBatch'
  BY <1>a, <1>b, <1>e, <1>f, <1>h, <1>w DEF WalInPreBatch
<1>7. WalInFlight'
  BY <1>e, <1>i DEF WalInFlight
<1>8. ParquetsHaveWal'
  BY <1>e, <1>h, <1>w DEF ParquetsHaveWal
<1>9. Held'
  <2>1. RowsIn(wal) \subseteq RowsIn(wal') \cup {}
    BY <1>f, <1>h, RowsKept
  <2>2. Head(queue) \in RowsIn(wal')
    BY <1>a, <1>f, <1>h, RowsOf
  <2> QED
    BY <1>b, <1>e, <1>w, <2>1, <2>2 DEF Held, OnDisk, RowsIn, Existing
<1> QED
  BY <1>1, <1>2, <1>3, <1>4, <1>5, <1>6, <1>7, <1>8, <1>9

\* Nothing is written yet.
LEMMA FlushWalKeeps ==
  ASSUME GInv, DInv, FlushWal
  PROVE  DInv'
<1>s. before' <= Len(pushed')
  BY DEF DInv, FlushWal, boundVars
<1> SUFFICES ASSUME Whole'
             PROVE  (Blank /\ Logged /\ Listed /\ Parquets /\ Held)'
  BY <1>s DEF DInv
<1>w. Whole /\ Blank /\ Logged /\ Listed /\ Parquets /\ Held
  BY DEF Whole, DInv, FlushWal, boundVars
<1> USE DEF Logged, Listed, Parquets
<1>1. (WalInPreBatch /\ MarkedAreRead /\ ParquetsHaveWal /\ ParquetsAreOld /\ ParquetsAreLater
       /\ Held)'
  BY <1>w DEF WalInPreBatch, MarkedAreRead, ParquetsHaveWal, ParquetsAreOld, ParquetsAreLater,
              Held, RowsIn, Existing, OnDisk, FlushWal, diskVars, walVars, readerVars
<1>2. (Blank /\ SinkIsCurrent /\ NothingBuffered /\ NewestWal /\ NextWalEmpty /\ WalInFlight
       /\ FlightInArrow /\ RollsApart /\ ArrowsListed /\ NameIsFree)'
  BY <1>w DEF Blank, SinkIsCurrent, NothingBuffered, NewestWal, NextWalEmpty, WalInFlight,
              FlightInArrow, RollsApart, ArrowsListed, NameIsFree, Rotated, Opened, Written,
              Pending, FlushWal, diskVars, walVars, ipcVars, readerVars
<1> QED
  BY <1>1, <1>2

\* The next WAL did not exist, so it is empty.
LEMMA OpenNextKeeps ==
  ASSUME GInv, DInv, OpenNext
  PROVE  DInv'
<1>s. before' <= Len(pushed')
  BY DEF DInv, OpenNext, boundVars
<1> SUFFICES ASSUME Whole'
             PROVE  (Blank /\ Logged /\ Listed /\ Parquets /\ Held)'
  BY <1>s DEF DInv
<1>w. Whole /\ Blank /\ Logged /\ Listed /\ Parquets /\ Held
  BY DEF Whole, DInv, OpenNext, boundVars
<1> USE DEF Logged, Listed, Parquets
<1>a. /\ op = "open" /\ walOpen /\ up /\ wal \in Files /\ currentWalId \in Nat
      /\ currentWalId + 1 \in WalIds /\ sink = currentWalId /\ sink \in WalIds
  <2>1. op = "open" /\ walOpen /\ up /\ wal \in Files /\ currentWalId \in WalIds /\ currentWalId < MaxWals
    BY TypesOf DEF OpenNext, GInv, Writing, Flushing
  <2> QED
    BY <1>w, <2>1, Constants DEF SinkIsCurrent, Rotated, WalIds
<1>b. wal[currentWalId + 1] = None
  BY <1>a, <1>w DEF NewestWal, Opened, Rotated
<1>c. wal' = [wal EXCEPT ![currentWalId + 1] = <<>>]
      /\ op' = "rotate" /\ UNCHANGED <<arrow, parquet, walVars, queue, rolling, pushed>>
  BY <1>b DEF OpenNext
<1>d. wal'[currentWalId + 1] = <<>> /\ \A n \in WalIds : n # currentWalId + 1 => wal'[n] = wal[n]
  BY <1>a, <1>c DEF Files
<1>1. (MarkedAreRead /\ ParquetsAreOld /\ ParquetsAreLater)'
  BY <1>w DEF MarkedAreRead, ParquetsAreOld, ParquetsAreLater, RowsIn, Existing, OpenNext,
              walVars, readerVars
<1>2. (Blank /\ SinkIsCurrent /\ NothingBuffered /\ NewestWal /\ WalInFlight /\ FlightInArrow
       /\ RollsApart /\ ArrowsListed /\ ParquetsHaveWal /\ NameIsFree)'
  BY <1>w DEF Blank, SinkIsCurrent, NothingBuffered, NewestWal, WalInFlight, FlightInArrow,
              RollsApart, ArrowsListed, ParquetsHaveWal, NameIsFree, Rotated, Opened, Written,
              Pending, OpenNext, walVars, ipcVars, readerVars
<1>3. NextWalEmpty'
  BY <1>c, <1>d DEF NextWalEmpty, walVars
<1>4. WalInPreBatch'
  BY <1>a, <1>c, <1>d, <1>w DEF WalInPreBatch, walVars
<1>5. Held'
  <2>1. RowsIn(wal) \subseteq RowsIn(wal') \cup {}
    BY <1>b, <1>d, RowsKept
  <2> QED
    BY <1>c, <1>w, <2>1 DEF Held, OnDisk, RowsIn, Existing
<1> QED
  BY <1>1, <1>2, <1>3, <1>4, <1>5

\* The queue is empty, so the batch that is taken holds all of the old WAL.
LEMMA RotateKeeps ==
  ASSUME GInv, DInv, Rotate
  PROVE  DInv'
<1>s. before' <= Len(pushed')
  BY DEF DInv, Rotate, boundVars
<1> SUFFICES ASSUME Whole'
             PROVE  (Blank /\ Logged /\ Listed /\ Parquets /\ Held)'
  BY <1>s DEF DInv
<1>w. Whole /\ Blank /\ Logged /\ Listed /\ Parquets /\ Held
  BY DEF Whole, DInv, Rotate, boundVars
<1> USE DEF Logged, Listed, Parquets
<1>a. /\ op = "rotate" /\ walOpen /\ sink = currentWalId /\ wal[currentWalId + 1] = <<>> /\ queue = <<>>
      /\ currentWalId \in WalIds
  BY <1>w, TypesOf DEF Rotate, Drained, GInv, Writing, Flushing, SinkIsCurrent, NextWalEmpty,
                       Opened, Rotated
<1>b. /\ op' = "write_ipc" /\ prebatch' = <<>> /\ flight' = [batch |-> prebatch, rows |-> currentWalRows]
      /\ sink' = currentWalId + 1 /\ UNCHANGED <<wal, queue, currentWalId, walOpen>>
  BY DEF Rotate, NewPreBatch, diskVars
<1>1. (MarkedAreRead /\ ParquetsHaveWal /\ ParquetsAreOld /\ ParquetsAreLater /\ Held)'
  BY <1>w DEF MarkedAreRead, ParquetsHaveWal, ParquetsAreOld, ParquetsAreLater, Held, RowsIn,
              Existing, OnDisk, Rotate, diskVars, readerVars
<1>2. (Blank /\ SinkIsCurrent /\ NewestWal /\ NextWalEmpty /\ FlightInArrow /\ RollsApart
       /\ ArrowsListed /\ NameIsFree)'
  BY <1>w DEF Blank, SinkIsCurrent, NewestWal, NextWalEmpty, FlightInArrow, RollsApart,
              ArrowsListed, NameIsFree, Rotated, Opened, Written, Pending, Rotate, diskVars,
              ipcVars, readerVars
<1>3. NothingBuffered'
  BY <1>a, <1>b DEF NothingBuffered
<1>4. WalInPreBatch'
  BY <1>a, <1>b, RangeOfEmpty DEF WalInPreBatch
<1>5. WalInFlight'
  <2>1. flight'.batch = prebatch
    BY <1>b
  <2> QED
    BY <1>a, <1>b, <1>w, <2>1 DEF WalInFlight, WalInPreBatch
<1> QED
  BY <1>1, <1>2, <1>3, <1>4, <1>5

\* No file had the name, so no row is overwritten.
LEMMA WriteArrowIpcKeeps ==
  ASSUME GInv, DInv, WriteArrowIpc
  PROVE  DInv'
<1>s. before' <= Len(pushed')
  BY DEF DInv, WriteArrowIpc, boundVars
<1> SUFFICES ASSUME Whole'
             PROVE  (Blank /\ Logged /\ Listed /\ Parquets /\ Held)'
  BY <1>s DEF DInv
<1>w. Whole /\ Blank /\ Logged /\ Listed /\ Parquets /\ Held
  BY DEF Whole, DInv, WriteArrowIpc, boundVars
<1> USE DEF Logged, Listed, Parquets
<1>a. /\ op = "write_ipc" /\ walOpen /\ up /\ currentWalId \in WalIds /\ arrow \in Files
      /\ flight.batch \in Seq(Rows) /\ flight.batch # None /\ \A n \in WalIds : n \in Nat
  BY TypesOf, Constants DEF WriteArrowIpc, GInv, Writing, Flushing, Rotated
<1>b. arrow[currentWalId] = None
  BY <1>a, <1>w DEF ArrowsListed, Written
<1>c. /\ arrow' = [arrow EXCEPT ![currentWalId] = flight.batch] /\ op' = "index"
      /\ UNCHANGED <<wal, parquet, up, walVars, queue, ipcFiles, pendingDeletions, flight, rolling, pushed>>
  BY DEF WriteArrowIpc, ipcVars, readerVars
<1>d. /\ arrow'[currentWalId] = flight.batch
      /\ \A n \in WalIds : n # currentWalId => arrow'[n] = arrow[n]
  BY <1>a, <1>c DEF Files
<1>1. (WalInPreBatch /\ ParquetsHaveWal /\ ParquetsAreOld)'
  BY <1>w DEF WalInPreBatch, ParquetsHaveWal, ParquetsAreOld, WriteArrowIpc, walVars
<1>2. (Blank /\ SinkIsCurrent /\ NothingBuffered /\ NewestWal /\ NextWalEmpty /\ WalInFlight
       /\ RollsApart /\ ArrowsListed /\ NameIsFree)'
  BY <1>w DEF Blank, SinkIsCurrent, NothingBuffered, NewestWal, NextWalEmpty, WalInFlight,
              RollsApart, ArrowsListed, NameIsFree, Rotated, Opened, Written, Pending,
              WriteArrowIpc, walVars, ipcVars, readerVars
<1>3. FlightInArrow'
  BY <1>c, <1>d DEF FlightInArrow, walVars
<1>4. MarkedAreRead'
  <2>1. pendingDeletions \subseteq WalIds
    BY DEF GInv, Types, ReaderTypes
  <2> QED
    BY <1>b, <1>c, <1>d, <1>w, <2>1 DEF MarkedAreRead, RowsIn, Existing
<1>5. ParquetsAreLater'
  <2>1. \A q \in WalIds : parquet[q] # None => ~(currentWalId < q)
    BY <1>a, <1>w DEF ParquetsAreOld
  <2> QED
    BY <1>c, <1>d, <1>w, <2>1 DEF ParquetsAreLater
<1>6. Held'
  <2>1. RowsIn(arrow) \subseteq RowsIn(arrow') \cup {}
    BY <1>b, <1>d, RowsKept
  <2> QED
    BY <1>c, <1>w, <2>1 DEF Held, OnDisk, RowsIn, Existing
<1> QED
  BY <1>1, <1>2, <1>3, <1>4, <1>5, <1>6

\* The SQLite tables hold no row.
LEMMA IndexRowsKeeps ==
  ASSUME GInv, DInv, IndexRows
  PROVE  DInv'
<1>s. before' <= Len(pushed')
  BY DEF DInv, IndexRows, boundVars
<1> SUFFICES ASSUME Whole'
             PROVE  (Blank /\ Logged /\ Listed /\ Parquets /\ Held)'
  BY <1>s DEF DInv
<1>w. Whole /\ Blank /\ Logged /\ Listed /\ Parquets /\ Held
  BY DEF Whole, DInv, IndexRows, boundVars
<1> USE DEF Logged, Listed, Parquets
<1>1. (WalInPreBatch /\ MarkedAreRead /\ ParquetsHaveWal /\ ParquetsAreOld /\ ParquetsAreLater
       /\ Held)'
  BY <1>w DEF WalInPreBatch, MarkedAreRead, ParquetsHaveWal, ParquetsAreOld, ParquetsAreLater,
              Held, RowsIn, Existing, OnDisk, IndexRows, walVars, readerVars
<1>2. (Blank /\ SinkIsCurrent /\ NothingBuffered /\ NewestWal /\ NextWalEmpty /\ WalInFlight
       /\ FlightInArrow /\ RollsApart /\ ArrowsListed /\ NameIsFree)'
  BY <1>w DEF Blank, SinkIsCurrent, NothingBuffered, NewestWal, NextWalEmpty, WalInFlight,
              FlightInArrow, RollsApart, ArrowsListed, NameIsFree, Rotated, Opened, Written,
              Pending, IndexRows, walVars, ipcVars, readerVars
<1> QED
  BY <1>1, <1>2

\* The rows of the WAL are in the Arrow file that was written from the batch.
LEMMA DeleteWalKeeps ==
  ASSUME GInv, DInv, DeleteWal
  PROVE  DInv'
<1>s. before' <= Len(pushed')
  BY DEF DInv, DeleteWal, boundVars
<1> SUFFICES ASSUME Whole'
             PROVE  (Blank /\ Logged /\ Listed /\ Parquets /\ Held)'
  BY <1>s DEF DInv
<1>w. Whole /\ Blank /\ Logged /\ Listed /\ Parquets /\ Held
  BY DEF Whole, DInv, DeleteWal, boundVars
<1> USE DEF Logged, Listed, Parquets
<1>a. /\ op = "delete_wal" /\ walOpen /\ up /\ currentWalId \in WalIds /\ currentWalId + 1 \in WalIds
      /\ sink = currentWalId + 1 /\ wal \in Files /\ \A n \in WalIds : n \in Nat
  BY TypesOf, Constants DEF DeleteWal, GInv, Writing, Flushing, Rotated, WalIds
<1>b. /\ wal' = [wal EXCEPT ![currentWalId] = None] /\ op' = "track"
      /\ UNCHANGED <<arrow, parquet, up, walVars, queue, flight, rolling, pushed>>
  BY DEF DeleteWal
<1>c. \A n \in WalIds : n # currentWalId => wal'[n] = wal[n]
  BY <1>a, <1>b DEF Files
<1>d. currentWalId + 1 # currentWalId /\ wal[currentWalId + 1] = <<>>
  BY <1>a, <1>w DEF NextWalEmpty, Opened, Rotated
<1>e. wal'[currentWalId + 1] # None
  BY <1>a, <1>c, <1>d, Constants
<1>1. (MarkedAreRead /\ ParquetsAreOld /\ ParquetsAreLater)'
  BY <1>w DEF MarkedAreRead, ParquetsAreOld, ParquetsAreLater, RowsIn, Existing, DeleteWal,
              walVars, readerVars
<1>2. (Blank /\ SinkIsCurrent /\ NothingBuffered /\ WalInFlight /\ FlightInArrow /\ RollsApart
       /\ ArrowsListed /\ NameIsFree)'
  BY <1>w DEF Blank, SinkIsCurrent, NothingBuffered, WalInFlight, FlightInArrow, RollsApart,
              ArrowsListed, NameIsFree, Rotated, Written, Pending, DeleteWal, walVars, ipcVars,
              readerVars
<1>3. NewestWal'
  BY <1>a, <1>b, <1>c, <1>w DEF NewestWal, Opened, Rotated, walVars
<1>4. NextWalEmpty'
  BY <1>a, <1>b, <1>c, <1>d DEF NextWalEmpty, walVars
<1>5. WalInPreBatch'
  BY <1>a, <1>b, <1>c, <1>d, <1>w DEF WalInPreBatch, walVars
<1>6. ParquetsHaveWal'
  <2>1. \A q \in WalIds : parquet[q] # None => q <= currentWalId + 1
    BY <1>a, <1>w DEF ParquetsAreOld
  <2>2. \A q \in WalIds : parquet[q] # None => currentWalId + 1 >= q
    BY <1>a, <2>1
  <2> QED
    BY <1>a, <1>b, <1>e, <2>2 DEF ParquetsHaveWal
<1>7. Held'
  <2>1. arrow[currentWalId] = flight.batch /\ flight.batch # None
    BY <1>a, <1>w, TypesOf, Constants DEF FlightInArrow, Written
  <2>2. wal[currentWalId] # None => Range(wal[currentWalId]) \subseteq RowsIn(arrow)
    BY <1>a, <1>w, <2>1, RowsOf DEF WalInFlight, Rotated
  <2>3. RowsIn(wal) \subseteq RowsIn(wal') \cup RowsIn(arrow)
    BY <1>c, <2>2, RowsKept
  <2> QED
    BY <1>b, <1>w, <2>3 DEF Held, OnDisk, RowsIn, Existing
<1> QED
  BY <1>1, <1>2, <1>3, <1>4, <1>5, <1>6, <1>7

\* The new Arrow file is listed, and no Parquet file has the next name.
LEMMA TrackKeeps ==
  ASSUME GInv, DInv, Track
  PROVE  DInv'
<1>s. before' <= Len(pushed')
  BY DEF DInv, Track, boundVars
<1> SUFFICES ASSUME Whole'
             PROVE  (Blank /\ Logged /\ Listed /\ Parquets /\ Held)'
  BY <1>s DEF DInv
<1>w. Whole /\ Blank /\ Logged /\ Listed /\ Parquets /\ Held
  BY DEF Whole, DInv, Track, boundVars
<1> USE DEF Logged, Listed, Parquets
<1>a. /\ op = "track" /\ walOpen /\ up /\ currentWalId \in WalIds /\ currentWalId + 1 \in WalIds
      /\ sink = currentWalId + 1 /\ ipcFiles \in Seq(WalIds) /\ \A n \in WalIds : n \in Nat
  BY TypesOf, Constants DEF Track, GInv, Writing, Flushing, Rotated, WalIds
<1>b. PICK files : files = Append(ipcFiles, currentWalId)
  OBVIOUS
<1>c. /\ currentWalId' = currentWalId + 1
      /\ \/ ipcFiles' = files /\ rolling' = rolling /\ op' = "idle"
         \/ ipcFiles' = <<>> /\ rolling' = [NoRollout EXCEPT !.files = files] /\ op' = "roll"
      /\ UNCHANGED <<wal, arrow, parquet, up, walOpen, sink, prebatch, queue, pendingDeletions, pushed>>
  BY <1>b DEF Track, diskVars, readerVars
<1>d. rolling = NoRollout /\ rolling.rows = <<>> /\ rolling'.rows = <<>>
  <2>1. rolling = NoRollout
    BY <1>a, <1>w DEF RollsApart
  <2> QED
    BY <1>c, <2>1 DEF NoRollout
<1>e. files \in Seq(WalIds) /\ Range(files) = Range(ipcFiles) \cup {currentWalId}
  BY <1>a, <1>b, RangeOfAppend
<1>f. op' = "roll" => Pending' = Range(files)
  <2> SUFFICES ASSUME op' = "roll" PROVE Pending' = Range(files)
    OBVIOUS
  <2>1. rolling'.files = files /\ rolling'.next = 1
    BY <1>c DEF NoRollout
  <2>2. Range(files) = {files[k] : k \in 1 .. Len(files)}
    BY <1>e, RangeEquality
  <2> QED
    BY <2>1, <2>2 DEF Pending
<1>h. Pending = {}
  BY <1>d DEF Pending, NoRollout
<1>1. (WalInPreBatch /\ ParquetsHaveWal /\ ParquetsAreLater)'
  BY <1>w DEF WalInPreBatch, ParquetsHaveWal, ParquetsAreLater, Track, diskVars, readerVars
<1>2. (Blank /\ NothingBuffered /\ NextWalEmpty /\ WalInFlight /\ FlightInArrow /\ RollsApart)'
  BY <1>w DEF Blank, NothingBuffered, NextWalEmpty, WalInFlight, FlightInArrow, RollsApart,
              Rotated, Opened, Written, Track, diskVars
<1>3. SinkIsCurrent'
  BY <1>a, <1>c DEF SinkIsCurrent
<1>4. NewestWal'
  <2>1. \A n \in WalIds : wal[n] # None => n <= currentWalId + 1
    BY <1>a, <1>w DEF NewestWal
  <2> QED
    BY <1>c, <2>1 DEF NewestWal
<1>5. ArrowsListed'
  <2> SUFFICES ASSUME NEW n \in WalIds, arrow[n] # None
               PROVE  /\ n < currentWalId'
                      /\ n \in pendingDeletions \/ n \in Range(ipcFiles)' \/ n \in Pending'
    BY <1>c DEF ArrowsListed
  <2>1. \/ n < currentWalId /\ (n \in pendingDeletions \/ n \in Range(ipcFiles))
        \/ n = currentWalId
    BY <1>a, <1>h, <1>w DEF ArrowsListed
  <2>2. n < currentWalId'
    BY <1>a, <1>c, <2>1
  <2>3. n \in pendingDeletions \/ n \in Range(files)
    BY <1>e, <2>1
  <2> QED
    BY <1>c, <1>f, <2>2, <2>3
<1>6. MarkedAreRead'
  BY <1>c, <1>d, <1>w DEF MarkedAreRead, RowsIn, Existing
<1>7. ParquetsAreOld'
  <2>1. \A q \in WalIds : parquet[q] # None => q <= currentWalId + 1
    BY <1>a, <1>w DEF ParquetsAreOld
  <2> QED
    BY <1>c, <2>1 DEF ParquetsAreOld
<1>8. NameIsFree'
  <2>1. ~(currentWalId + 1 <= currentWalId)
    BY <1>a
  <2> QED
    BY <1>a, <1>c, <1>w, <2>1 DEF NameIsFree, ParquetsAreOld
<1>9. Held'
  BY <1>c, <1>d, <1>w DEF Held, OnDisk, RowsIn, Existing
<1> QED
  BY <1>1, <1>2, <1>3, <1>4, <1>5, <1>6, <1>7, <1>8, <1>9

\* Every Arrow file that is not marked is in the rollout.
LEMMA RolloutToParquetKeeps ==
  ASSUME GInv, DInv, RolloutToParquet
  PROVE  DInv'
<1>s. before' <= Len(pushed')
  BY DEF DInv, RolloutToParquet, boundVars
<1> SUFFICES ASSUME Whole'
             PROVE  (Blank /\ Logged /\ Listed /\ Parquets /\ Held)'
  BY <1>s DEF DInv
<1>w. Whole /\ Blank /\ Logged /\ Listed /\ Parquets /\ Held
  BY DEF Whole, DInv, RolloutToParquet, boundVars
<1> USE DEF Logged, Listed, Parquets
<1>a. /\ op = "idle" /\ op' = "roll" /\ ipcFiles' = <<>> /\ rolling' = [NoRollout EXCEPT !.files = ipcFiles]
      /\ UNCHANGED <<diskVars, up, walVars, queue, pendingDeletions, pushed>>
      /\ ipcFiles \in Seq(WalIds)
  BY TypesOf DEF RolloutToParquet, readerVars
<1>b. /\ rolling'.files = ipcFiles /\ rolling'.next = 1 /\ rolling'.rows = <<>>
  BY <1>a DEF NoRollout
<1>c. Pending' = Range(ipcFiles)
  <2>1. Range(ipcFiles) = {ipcFiles[k] : k \in 1 .. Len(ipcFiles)}
    BY <1>a, RangeEquality
  <2> QED
    BY <1>b, <2>1 DEF Pending
<1>d. rolling.rows = <<>> /\ Pending = {}
  BY <1>a, <1>w DEF RollsApart, NoRollout, Pending
<1>1. (WalInPreBatch /\ ParquetsHaveWal /\ ParquetsAreOld /\ ParquetsAreLater)'
  BY <1>w DEF WalInPreBatch, ParquetsHaveWal, ParquetsAreOld, ParquetsAreLater, RolloutToParquet,
              diskVars, walVars, readerVars
<1>2. (Blank /\ SinkIsCurrent /\ NothingBuffered /\ NewestWal /\ NextWalEmpty /\ WalInFlight
       /\ FlightInArrow /\ RollsApart /\ NameIsFree)'
  BY <1>w DEF Blank, SinkIsCurrent, NothingBuffered, NewestWal, NextWalEmpty, WalInFlight,
              FlightInArrow, RollsApart, NameIsFree, Rotated, Opened, Written, RolloutToParquet,
              diskVars, walVars
<1>3. ArrowsListed'
  BY <1>a, <1>c, <1>d, <1>w DEF ArrowsListed, Written, diskVars, walVars
<1>4. MarkedAreRead'
  BY <1>a, <1>b, <1>d, <1>w DEF MarkedAreRead, RowsIn, Existing, diskVars
<1>5. Held'
  BY <1>a, <1>b, <1>d, <1>w DEF Held, OnDisk, RowsIn, Existing, diskVars
<1> QED
  BY <1>1, <1>2, <1>3, <1>4, <1>5

\* The rows of a deleted file are in the rollout.
LEMMA RollFileKeeps ==
  ASSUME GInv, DInv, RollFile
  PROVE  DInv'
<1>s. before' <= Len(pushed')
  BY DEF DInv, RollFile, boundVars
<1> SUFFICES ASSUME Whole'
             PROVE  (Blank /\ Logged /\ Listed /\ Parquets /\ Held)'
  BY <1>s DEF DInv
<1>w. Whole /\ Blank /\ Logged /\ Listed /\ Parquets /\ Held
  BY DEF Whole, DInv, RollFile, boundVars
<1> USE DEF Logged, Listed, Parquets
<1>t. /\ op = "roll" /\ up /\ arrow \in Files /\ rolling.next \in Nat /\ rolling.next <= Len(rolling.files)
      /\ rolling.files \in Seq(WalIds) /\ rolling.rows \in Seq(Rows) /\ pendingDeletions \subseteq WalIds
      /\ Len(rolling.files) \in Nat
  <2>1. /\ arrow \in Files /\ rolling.next \in Nat /\ rolling.files \in Seq(WalIds)
        /\ rolling.rows \in Seq(Rows)
    BY TypesOf
  <2>2. op = "roll" /\ rolling.next <= Len(rolling.files)
    BY DEF RollFile
  <2>3. up
    BY <2>2 DEF GInv, Writing
  <2>4. pendingDeletions \subseteq WalIds
    BY DEF GInv, Types, ReaderTypes
  <2>5. Len(rolling.files) \in Nat
    BY <2>1
  <2> QED
    BY <2>1, <2>2, <2>3, <2>4, <2>5
<1>a. PICK b \in WalIds : b = rolling.files[rolling.next]
  BY DEF RollFile, GInv, Types, RolloutTypes
<1>b. /\ arrow' = [arrow EXCEPT ![b] = IF BeingRead(b) THEN arrow[b] ELSE None]
      /\ pendingDeletions' = IF arrow[b] # None /\ BeingRead(b) THEN pendingDeletions \cup {b}
                             ELSE pendingDeletions
      /\ UNCHANGED <<wal, parquet, up, walVars, queue, ipcFiles, op, pushed>>
  BY <1>a DEF RollFile
<1>c. /\ rolling'.files = rolling.files /\ rolling'.next = rolling.next + 1
      /\ rolling'.rows = IF arrow[b] # None THEN rolling.rows \o arrow[b] ELSE rolling.rows
  BY <1>a DEF RollFile, GInv, Types, RolloutTypes
<1>d. /\ \A n \in WalIds : n # b => arrow'[n] = arrow[n]
      /\ arrow'[b] = IF BeingRead(b) THEN arrow[b] ELSE None
  BY <1>b, <1>t DEF Files
<1>e. /\ Range(rolling.rows) \subseteq Range(rolling'.rows)
      /\ arrow[b] # None => Range(arrow[b]) \subseteq Range(rolling'.rows)
  <2>1. CASE arrow[b] = None
    BY <1>c, <2>1
  <2>2. CASE arrow[b] # None
    <3>1. arrow[b] \in Seq(Rows)
      BY <1>t, <2>2 DEF Files, Optional
    <3>2. Range(rolling.rows \o arrow[b]) = Range(rolling.rows) \cup Range(arrow[b])
      BY <1>t, <3>1, RangeConcatenation
    <3> QED
      BY <1>c, <2>2, <3>2
  <2> QED
    BY <2>1, <2>2
<1>f. Pending \subseteq Pending' \cup {b}
  <2> SUFFICES ASSUME NEW k \in rolling.next .. Len(rolling.files)
               PROVE  rolling.files[k] = b \/ rolling.files[k] \in Pending'
    BY DEF Pending
  <2>1. k = rolling.next \/ k \in (rolling.next + 1) .. Len(rolling.files)
    BY <1>t
  <2> QED
    BY <1>a, <1>c, <2>1 DEF Pending
<1>1. (SinkIsCurrent /\ NothingBuffered /\ NewestWal /\ NextWalEmpty /\ WalInPreBatch
       /\ WalInFlight /\ ParquetsHaveWal /\ ParquetsAreOld /\ NameIsFree)'
  BY <1>w DEF SinkIsCurrent, NothingBuffered, NewestWal, NextWalEmpty, WalInPreBatch, WalInFlight,
              ParquetsHaveWal, ParquetsAreOld, NameIsFree, RollFile, walVars
<1>2. (Blank /\ FlightInArrow /\ RollsApart /\ ParquetsAreLater)'
  <2>1. UNCHANGED <<wal, parquet, walOpen, ipcFiles, op, pushed>> /\ op = "roll"
    BY <1>b, <1>t DEF walVars
  <2>2. Blank' /\ FlightInArrow' /\ RollsApart'
    BY <1>w, <2>1 DEF Blank, FlightInArrow, RollsApart, Written
  <2>3. ASSUME NEW q \in WalIds, NEW n \in WalIds, parquet'[q] # None, arrow'[n] # None, n < q
        PROVE  n \in pendingDeletions'
    <3>1. parquet[q] # None /\ arrow[n] # None
      BY <1>d, <2>1, <2>3
    <3>2. n \in pendingDeletions
      BY <1>w, <2>3, <3>1 DEF ParquetsAreLater
    <3> QED
      BY <1>b, <3>2
  <2> QED
    BY <2>2, <2>3 DEF ParquetsAreLater
<1>3. ArrowsListed'
  <2> SUFFICES ASSUME NEW n \in WalIds, arrow'[n] # None
               PROVE  /\ n < currentWalId
                      /\ n \in pendingDeletions' \/ n \in Range(ipcFiles) \/ n \in Pending'
    BY <1>b DEF ArrowsListed, walVars
  <2>1. arrow[n] # None /\ (n = b => BeingRead(b))
    BY <1>d
  <2>2. n < currentWalId /\ (n \in pendingDeletions \/ n \in Range(ipcFiles) \/ n \in Pending)
    BY <1>t, <1>w, <2>1 DEF ArrowsListed, Written
  <2>3. CASE n = b
    BY <1>b, <2>1, <2>2, <2>3
  <2>4. CASE n # b
    BY <1>b, <1>f, <2>2, <2>4
  <2> QED
    BY <2>3, <2>4
<1>4. MarkedAreRead'
  <2>1. up'
    BY <1>b, <1>t
  <2>2. UNCHANGED RowsIn(parquet)
    BY <1>b DEF RowsIn, Existing
  <2>3. ASSUME NEW c \in pendingDeletions, c # b
        PROVE  arrow'[c] # None /\ Range(arrow'[c]) \subseteq RowsIn(parquet) \cup Range(rolling'.rows)
    <3>1. arrow'[c] = arrow[c]
      BY <1>d, <1>t, <2>3
    <3> QED
      BY <1>e, <1>w, <2>3, <3>1 DEF MarkedAreRead
  <2>4. ASSUME b \in pendingDeletions'
        PROVE  arrow'[b] # None /\ Range(arrow'[b]) \subseteq RowsIn(parquet) \cup Range(rolling'.rows)
    <3>1. BeingRead(b)
      BY <1>b, <2>4 DEF BeingRead, GInv, Counted
    <3>2. arrow[b] # None
      BY <1>b, <1>w, <2>4 DEF MarkedAreRead
    <3> QED
      BY <1>d, <1>e, <3>1, <3>2
  <2>5. pendingDeletions' \subseteq pendingDeletions \cup {b}
    BY <1>b
  <2> QED
    BY <2>1, <2>2, <2>3, <2>4, <2>5 DEF MarkedAreRead
<1>5. Held'
  <2>1. RowsIn(arrow) \subseteq RowsIn(arrow') \cup Range(rolling'.rows)
    BY <1>d, <1>e, RowsKept
  <2>2. UNCHANGED <<RowsIn(wal), RowsIn(parquet), queue, pushed>>
    BY <1>b DEF RowsIn, Existing
  <2> QED
    BY <1>e, <1>w, <2>1, <2>2 DEF Held, OnDisk
<1> QED
  BY <1>1, <1>2, <1>3, <1>4, <1>5

\* No file had the name, and the rollout has read every file it lists.
LEMMA WriteParquetKeeps ==
  ASSUME GInv, DInv, WriteParquet
  PROVE  DInv'
<1>s. before' <= Len(pushed')
  BY DEF DInv, WriteParquet, boundVars
<1> SUFFICES ASSUME Whole'
             PROVE  (Blank /\ Logged /\ Listed /\ Parquets /\ Held)'
  BY <1>s DEF DInv
<1>w. Whole /\ Blank /\ Logged /\ Listed /\ Parquets /\ Held
  BY DEF Whole, DInv, WriteParquet, boundVars
<1> USE DEF Logged, Listed, Parquets
<1>t. /\ op = "roll" /\ walOpen /\ up /\ currentWalId \in WalIds /\ sink = currentWalId
      /\ wal[sink] # None /\ parquet \in Files /\ rolling.rows \in Seq(Rows) /\ rolling.rows # None
      /\ ipcFiles = <<>> /\ \A n \in WalIds : n \in Nat
  BY <1>w, TypesOf, Constants DEF WriteParquet, GInv, Writing, SinkIsCurrent, Rotated, RollsApart
<1>a. Pending = {}
  <2>1. rolling.next > Len(rolling.files) /\ rolling.next \in Nat /\ Len(rolling.files) \in Nat
    BY TypesOf DEF WriteParquet
  <2> QED
    BY <2>1 DEF Pending
<1>b. parquet[currentWalId] = None
  BY <1>t, <1>w DEF NameIsFree
<1>c. /\ op' = "idle" /\ rolling' = NoRollout
      /\ parquet' = IF rolling.rows # <<>> THEN [parquet EXCEPT ![currentWalId] = rolling.rows] ELSE parquet
      /\ UNCHANGED <<wal, arrow, up, walVars, queue, ipcFiles, pendingDeletions, pushed>>
  BY DEF WriteParquet, ipcVars, readerVars
<1>d. \A n \in WalIds : n # currentWalId => parquet'[n] = parquet[n]
  BY <1>c, <1>t DEF Files
<1>e. rolling.rows # <<>> => parquet'[currentWalId] = rolling.rows
  BY <1>c, <1>t DEF Files
<1>f. RowsIn(parquet) \cup Range(rolling.rows) \subseteq RowsIn(parquet')
  <2>1. RowsIn(parquet) \subseteq RowsIn(parquet') \cup {}
    BY <1>b, <1>d, RowsKept
  <2>2. rolling.rows # <<>> => Range(rolling.rows) \subseteq RowsIn(parquet')
    BY <1>e, <1>t, RowsOf
  <2> QED
    BY <2>1, <2>2, RangeOfEmpty
<1>h. ASSUME NEW n \in WalIds, arrow[n] # None PROVE n \in pendingDeletions
  <2>1. Range(ipcFiles) = {} /\ op \notin Written
    BY <1>t, RangeOfEmpty DEF Written
  <2> QED
    BY <1>a, <1>h, <1>t, <1>w, <2>1 DEF ArrowsListed
<1>1. WalInPreBatch'
  BY <1>w DEF WalInPreBatch, WriteParquet, walVars
<1>2. (Blank /\ SinkIsCurrent /\ NothingBuffered /\ NewestWal /\ NextWalEmpty /\ WalInFlight
       /\ FlightInArrow /\ RollsApart)'
  BY <1>w DEF Blank, SinkIsCurrent, NothingBuffered, NewestWal, NextWalEmpty, WalInFlight,
              FlightInArrow, RollsApart, Rotated, Opened, Written, WriteParquet, walVars, ipcVars
<1>3. ArrowsListed'
  BY <1>c, <1>h, <1>t, <1>w DEF ArrowsListed, Written, walVars
<1>4. MarkedAreRead'
  BY <1>c, <1>f, <1>t, <1>w DEF MarkedAreRead
<1>5. ParquetsHaveWal'
  <2>1. \E m \in WalIds : m >= currentWalId /\ wal[m] # None
    BY <1>t
  <2> QED
    BY <1>c, <1>d, <1>w, <2>1 DEF ParquetsHaveWal
<1>6. ParquetsAreOld'
  BY <1>c, <1>d, <1>t, <1>w DEF ParquetsAreOld, walVars
<1>7. NameIsFree'
  BY <1>c, <1>t DEF NameIsFree
<1>8. ParquetsAreLater'
  BY <1>c, <1>h DEF ParquetsAreLater
<1>9. Held'
  <2>1. UNCHANGED <<RowsIn(wal), RowsIn(arrow), queue, pushed>>
    BY <1>c DEF RowsIn, Existing
  <2> QED
    BY <1>f, <1>w, <2>1 DEF Held, OnDisk
<1> QED
  BY <1>1, <1>2, <1>3, <1>4, <1>5, <1>6, <1>7, <1>8, <1>9

\* An error is what the history records.
LEMMA FailKeeps ==
  ASSUME GInv, DInv,
         Fail \/ EnsureFails \/ WriterFails \/ RotateFails \/ \E i \in Indices : PushFails(i)
  PROVE  DInv'
<1>1. before' = before /\ trouble' # "none" /\ (pushed' = pushed \/ \E r : pushed' = Append(pushed, r))
  BY DEF Fail, EnsureFails, WriterFails, RotateFails, PushFails, AfterError, MeetsError
<1>2. Len(pushed) <= Len(pushed') /\ Len(pushed) \in Nat /\ Len(pushed') \in Nat /\ before \in Nat
  BY <1>1, TypesOf DEF GInv, Types, ManagerTypes
<1> QED
  BY <1>1, <1>2 DEF DInv, Whole

\* A provider changes no file.
LEMMA SqlProviderKeeps ==
  ASSUME GInv, DInv, NEW p \in Providers, SqlProvider(p)
  PROVE  DInv'
<1>s. before' <= Len(pushed')
  BY DEF DInv, SqlProvider, boundVars
<1> SUFFICES ASSUME Whole'
             PROVE  (Blank /\ Logged /\ Listed /\ Parquets /\ Held)'
  BY <1>s DEF DInv
<1>w. Whole /\ Blank /\ Logged /\ Listed /\ Parquets /\ Held
  BY DEF Whole, DInv, SqlProvider, boundVars
<1> USE DEF Logged, Listed, Parquets
<1>1. (Blank /\ SinkIsCurrent /\ NothingBuffered /\ NewestWal /\ NextWalEmpty /\ WalInPreBatch
       /\ WalInFlight /\ FlightInArrow /\ RollsApart /\ ArrowsListed /\ MarkedAreRead
       /\ ParquetsHaveWal /\ ParquetsAreOld /\ NameIsFree /\ ParquetsAreLater /\ Held)'
  BY <1>w DEF Blank, SinkIsCurrent, NothingBuffered, NewestWal, NextWalEmpty, WalInPreBatch,
              WalInFlight, FlightInArrow, RollsApart, ArrowsListed, MarkedAreRead,
              ParquetsHaveWal, ParquetsAreOld, NameIsFree, ParquetsAreLater, Held, Pending,
              RowsIn, Existing, OnDisk, SqlProvider, diskVars, walVars, ipcVars
<1> QED
  BY <1>1

\* A file that is deleted late has its rows in a Parquet file or in the rollout.
LEMMA DropGuardKeeps ==
  ASSUME GInv, DInv, NEW p \in Providers, NEW b \in WalIds, DropGuard(p, b)
  PROVE  DInv'
<1>s. before' <= Len(pushed')
  BY DEF DInv, DropGuard, boundVars
<1> SUFFICES ASSUME Whole'
             PROVE  (Blank /\ Logged /\ Listed /\ Parquets /\ Held)'
  BY <1>s DEF DInv
<1>w. Whole /\ Blank /\ Logged /\ Listed /\ Parquets /\ Held
  BY DEF Whole, DInv, DropGuard, boundVars
<1> USE DEF Logged, Listed, Parquets
<1>a. arrow \in Files /\ b < currentWalId /\ pendingDeletions \subseteq WalIds /\ currentWalId \in Nat
  BY TypesOf, GuardsAreReaders DEF DropGuard, GInv, Types, ReaderTypes
<1>b. \/ b \in pendingDeletions /\ pendingDeletions' = pendingDeletions \ {b}
         /\ arrow' = [arrow EXCEPT ![b] = None]
      \/ UNCHANGED <<pendingDeletions, arrow>>
  BY DEF DropGuard, IsDeferred
<1>c. UNCHANGED <<wal, parquet, up, walVars, queue, ipcFiles, op, flight, rolling, pushed>>
  BY DEF DropGuard, ipcVars
<1>d. \A n \in WalIds : arrow'[n] # None =>
        /\ arrow'[n] = arrow[n]
        /\ n \in pendingDeletions => n \in pendingDeletions'
  BY <1>a, <1>b DEF Files
<1>e. \A n \in WalIds : n # b => arrow'[n] = arrow[n]
  BY <1>a, <1>b DEF Files
<1>1. (SinkIsCurrent /\ NothingBuffered /\ NewestWal /\ NextWalEmpty /\ WalInPreBatch
       /\ WalInFlight /\ RollsApart /\ ParquetsHaveWal /\ ParquetsAreOld /\ NameIsFree)'
  BY <1>w DEF SinkIsCurrent, NothingBuffered, NewestWal, NextWalEmpty, WalInPreBatch, WalInFlight,
              RollsApart, ParquetsHaveWal, ParquetsAreOld, NameIsFree, DropGuard, walVars, ipcVars
<1>2. (Blank /\ MarkedAreRead)'
  BY <1>w DEF Blank, MarkedAreRead, RowsIn, Existing, DropGuard, walVars, ipcVars
<1>3. FlightInArrow'
  <2>1. CASE op \in Written
    <3>1. currentWalId \in WalIds /\ currentWalId # b
      BY <1>a, <2>1 DEF GInv, Writing, Flushing, Rotated, Written, WalIds
    <3> QED
      BY <1>c, <1>e, <1>w, <3>1 DEF FlightInArrow, walVars
  <2>2. CASE op \notin Written
    BY <1>c, <2>2 DEF FlightInArrow
  <2> QED
    BY <2>1, <2>2
<1>4. ArrowsListed'
  <2>1. UNCHANGED Pending
    BY <1>c DEF Pending
  <2> QED
    BY <1>c, <1>d, <1>w, <2>1 DEF ArrowsListed, walVars
<1>5. ParquetsAreLater'
  BY <1>c, <1>d, <1>w DEF ParquetsAreLater
<1>6. Held'
  <2>1. b \in pendingDeletions => Range(arrow[b]) \subseteq RowsIn(parquet) \cup Range(rolling.rows)
    BY <1>w DEF MarkedAreRead
  <2>2. RowsIn(arrow) \subseteq RowsIn(arrow') \cup (RowsIn(parquet) \cup Range(rolling.rows))
    <3>1. CASE UNCHANGED arrow
      BY <3>1
    <3>2. CASE b \in pendingDeletions
      BY <1>e, <2>1, <3>2, RowsKept
    <3> QED
      BY <1>b, <3>1, <3>2
  <2>3. UNCHANGED <<RowsIn(wal), RowsIn(parquet), queue, pushed, rolling>>
    BY <1>c DEF RowsIn, Existing
  <2> QED
    BY <1>w, <2>2, <2>3 DEF Held, OnDisk
<1> QED
  BY <1>1, <1>2, <1>3, <1>4, <1>5, <1>6

\* A clean halt finds the queue, the rollout and the marks empty.
LEMMA HaltKeeps ==
  ASSUME GInv, DInv, Halt
  PROVE  DInv'
<1>s. before' <= Len(pushed')
  BY DEF DInv, Halt
<1> SUFFICES ASSUME Whole'
             PROVE  (Blank /\ Logged /\ Listed /\ Parquets /\ Held)'
  BY <1>s DEF DInv
<1>w. Whole /\ Blank /\ Logged /\ Listed /\ Parquets /\ Held
  BY DEF Whole, DInv, Halt
<1> USE DEF Logged, Listed, Parquets
<1>a. CleanHalt /\ op = "idle" /\ queue = <<>> /\ \A p \in Providers : guards[p] = {}
  BY DEF Halt, CleanHalt, Whole
<1>b. pendingDeletions = {}
  <2>1. \A b \in WalIds : Guarding(b) = {}
    BY <1>a DEF Guarding
  <2>2. \A b \in WalIds : activeReaders[b] = 0
    BY <2>1, FS_EmptySet DEF GInv, Counted
  <2> QED
    BY <2>2 DEF GInv, Counted, Types, ReaderTypes
<1>c. rolling = NoRollout /\ rolling' = NoRollout /\ queue' = <<>> /\ UNCHANGED <<wal, arrow, parquet, pushed>>
  BY <1>a, <1>w DEF Halt, RollsApart, diskVars
<1>1. ParquetsHaveWal'
  BY <1>w DEF ParquetsHaveWal, Halt, diskVars
<1>2. (Blank /\ SinkIsCurrent /\ NothingBuffered /\ NewestWal /\ NextWalEmpty /\ WalInPreBatch
       /\ WalInFlight /\ FlightInArrow /\ RollsApart /\ ArrowsListed /\ MarkedAreRead
       /\ ParquetsAreOld /\ NameIsFree)'
  BY <1>w DEF Blank, SinkIsCurrent, NothingBuffered, NewestWal, NextWalEmpty, WalInPreBatch,
              WalInFlight, FlightInArrow, RollsApart, ArrowsListed, MarkedAreRead, ParquetsAreOld,
              NameIsFree, Rotated, Opened, Written, Pending, RowsIn, Existing, Halt, diskVars
<1>3. ParquetsAreLater'
  BY <1>b, <1>c, <1>w DEF ParquetsAreLater
<1>4. Held'
  BY <1>a, <1>c, <1>w DEF Held, OnDisk, RowsIn, Existing
<1> QED
  BY <1>1, <1>2, <1>3, <1>4

\* A fresh manager on a directory without rows.
LEMMA StartFreshKeeps ==
  ASSUME GInv, DInv, StartFresh
  PROVE  DInv'
<1>g. GInv'
  BY StartFreshGuards
<1>t. pushed \in Seq(Rows) /\ before \in Nat /\ before <= Len(pushed) /\ before' = Len(pushed) /\ Len(pushed) \in Nat
  BY TypesOf DEF DInv, StartFresh, GInv, Types, ManagerTypes
<1>s. before' <= Len(pushed')
  BY <1>t DEF StartFresh
<1> SUFFICES ASSUME Whole'
             PROVE  (Blank /\ Logged /\ Listed /\ Parquets /\ Held)'
  BY <1>s DEF DInv
<1>a. pushed = <<>> /\ before = 0
  BY <1>t DEF Whole
<1>w. Whole /\ Blank /\ Logged /\ Listed /\ Parquets /\ Held
  BY <1>a DEF Whole, DInv, StartFresh
<1> USE DEF Logged, Listed, Parquets
<1>b. \A n \in WalIds : wal[n] = None /\ arrow[n] = None /\ parquet[n] = None
  BY <1>a, <1>w DEF Blank
<1>c. ipcFiles = <<>> /\ op = "idle" /\ UNCHANGED <<wal, arrow, parquet, ipcFiles, op>>
  BY <1>a, <1>w DEF Blank, StartFresh, diskVars, ipcVars
<1>1. (Blank /\ SinkIsCurrent /\ NothingBuffered /\ NextWalEmpty /\ WalInPreBatch
       /\ WalInFlight /\ FlightInArrow /\ RollsApart /\ ParquetsHaveWal /\ ParquetsAreLater
       /\ Held)'
  BY <1>w DEF Blank, SinkIsCurrent, NothingBuffered, NextWalEmpty, WalInPreBatch, WalInFlight,
              FlightInArrow, RollsApart, ParquetsHaveWal, ParquetsAreLater, Held, OnDisk, RowsIn,
              Existing, StartFresh, diskVars, walVars, ipcVars, readerVars
<1>2. MarkedAreRead'
  BY <1>w DEF MarkedAreRead, RowsIn, Existing, StartFresh, diskVars, readerVars
<1>3. NewestWal'
  BY <1>b, <1>c DEF NewestWal
<1>4. ArrowsListed'
  BY <1>b, <1>c DEF ArrowsListed
<1>5. ParquetsAreOld'
  BY <1>b, <1>c DEF ParquetsAreOld
<1>6. NameIsFree'
  BY <1>c DEF NameIsFree
<1> QED
  BY <1>1, <1>2, <1>3, <1>4, <1>5, <1>6

\* The last WAL is newer than every Arrow file, and than every Parquet file or as new.
LEMMA StartRestoredKeeps ==
  ASSUME GInv, DInv, StartRestored
  PROVE  DInv'
<1>s. before' <= Len(pushed')
  BY DEF DInv, StartRestored
<1> SUFFICES ASSUME Whole'
             PROVE  (Blank /\ Logged /\ Listed /\ Parquets /\ Held)'
  BY <1>s DEF DInv
<1>w. Whole /\ Blank /\ Logged /\ Listed /\ Parquets /\ Held
  BY DEF Whole, DInv, StartRestored
<1> USE DEF Logged, Listed, Parquets
<1>a. /\ LastId \in 0 .. MaxWals
      /\ \A n \in WalIds : wal[n] # None \/ arrow[n] # None => n <= LastId
      /\ \A n \in WalIds : arrow[n] # None => n < LastId
      /\ LastId # 0 => LastId \in WalIds /\ wal[LastId] # None /\ RecoversWal
  BY LastIdOK DEF GInv, Types
<1>b. /\ ~up /\ ~walOpen /\ op = "idle" /\ queue = <<>> /\ pendingDeletions = {}
      /\ \A n \in WalIds : n \in Nat
  BY <1>w, TypesOf DEF StartRestored, GInv, Writing, MarkedAreRead
<1>c. /\ currentWalId' = LastId /\ walOpen' = RecoversWal /\ prebatch' = RecoveredRows
      /\ sink' = IF RecoversWal THEN LastId ELSE 0
      /\ ipcFiles' = SortedIds(Existing(arrow))
      /\ UNCHANGED <<wal, arrow, parquet, queue, op, flight, rolling, pushed, pendingDeletions>>
  BY DEF StartRestored, diskVars, readerVars
<1>d. Range(ipcFiles') = Existing(arrow) /\ (Existing(arrow) = {} => ipcFiles' = <<>>)
  <2>1. Existing(arrow) \subseteq WalIds
    BY DEF Existing
  <2> QED
    BY <1>c, <2>1, SortedLists
<1>1. (ParquetsHaveWal /\ ParquetsAreLater /\ Held)'
  BY <1>w DEF ParquetsHaveWal, ParquetsAreLater, Held, OnDisk, RowsIn, Existing, StartRestored,
              diskVars, readerVars
<1>2. (SinkIsCurrent /\ MarkedAreRead)'
  BY <1>w DEF SinkIsCurrent, MarkedAreRead, Rotated, RowsIn, Existing, StartRestored, diskVars,
              readerVars
<1>3. Blank'
  <2> SUFFICES ASSUME pushed = <<>>
               PROVE  /\ \A n \in WalIds : wal[n] = None /\ arrow[n] = None /\ parquet[n] = None
                      /\ ~RecoversWal /\ ipcFiles' = <<>>
    BY <1>b, <1>c DEF Blank
  <2>1. \A n \in WalIds : wal[n] = None /\ arrow[n] = None /\ parquet[n] = None
    BY <1>w DEF Blank
  <2>2. Existing(arrow) = {}
    BY <2>1 DEF Existing
  <2>3. ~RecoversWal
    BY <1>a, <2>1 DEF RecoversWal
  <2> QED
    BY <1>d, <2>1, <2>2, <2>3
<1>4. NothingBuffered'
  BY <1>b, <1>c DEF NothingBuffered, Opened, Written, Rotated
<1>5. NewestWal'
  BY <1>a, <1>c DEF NewestWal
<1>6. NextWalEmpty'
  BY <1>b, <1>c DEF NextWalEmpty, Opened, Written, Rotated
<1>7. WalInPreBatch'
  BY <1>b, <1>c, RangeOfEmpty DEF WalInPreBatch, RecoveredRows
<1>8. WalInFlight'
  BY <1>b, <1>c DEF WalInFlight, Opened, Written, Rotated
<1>9. FlightInArrow'
  BY <1>b, <1>c DEF FlightInArrow, Opened, Written, Rotated
<1>10. RollsApart'
  BY <1>b, <1>c, <1>w DEF RollsApart
<1>11. ArrowsListed'
  BY <1>a, <1>c, <1>d DEF ArrowsListed, Existing
<1>12. ParquetsAreOld'
  <2> SUFFICES ASSUME NEW q \in WalIds, parquet[q] # None PROVE q <= LastId
    BY <1>c DEF ParquetsAreOld
  <2>1. PICK m \in WalIds : m >= q /\ wal[m] # None
    BY <1>w DEF ParquetsHaveWal
  <2>2. m <= LastId /\ m \in Nat /\ q \in Nat /\ LastId \in Nat
    BY <1>a, <1>b, <2>1, Constants
  <2> QED
    BY <2>1, <2>2
<1>13. NameIsFree'
  <2> SUFFICES ASSUME ipcFiles' # <<>> PROVE parquet[LastId] = None
    BY <1>b, <1>c DEF NameIsFree
  <2>1. PICK n \in WalIds : arrow[n] # None /\ n < LastId
    BY <1>a, <1>d DEF Existing
  <2>2. LastId # 0
    BY <1>a, <1>b, <2>1, Constants
  <2> QED
    BY <1>a, <1>b, <1>w, <2>1, <2>2 DEF ParquetsAreLater
<1> QED
  BY <1>1, <1>2, <1>3, <1>4, <1>5, <1>6, <1>7, <1>8, <1>9, <1>10, <1>11, <1>12, <1>13

\* An empty directory is whole.
LEMMA InitKeeps == Init => DInv
<1> SUFFICES ASSUME Init PROVE DInv
  OBVIOUS
<1>1. \A n \in WalIds : wal[n] = None /\ arrow[n] = None /\ parquet[n] = None
  BY DEF Init, NoCounts
<1>2. /\ op = "idle" /\ ~walOpen /\ ipcFiles = <<>> /\ rolling = NoRollout
      /\ pendingDeletions = {} /\ pushed = <<>> /\ before = 0
  BY DEF Init
<1>3. before <= Len(pushed)
  BY <1>2
<1>4. Blank /\ Logged
  BY <1>1, <1>2 DEF Blank, Logged, SinkIsCurrent, NothingBuffered, NewestWal, NextWalEmpty,
                    WalInPreBatch, WalInFlight, FlightInArrow, Opened, Written, Rotated
<1>5. Listed /\ Parquets
  BY <1>1, <1>2 DEF Listed, RollsApart, ArrowsListed, MarkedAreRead, Parquets, ParquetsHaveWal,
                    ParquetsAreOld, NameIsFree, ParquetsAreLater
<1>6. Held
  BY <1>2, RangeOfEmpty DEF Held
<1> QED
  BY <1>3, <1>4, <1>5, <1>6 DEF DInv

\* Nor does it change in a step that is not of the manager.
LEMMA StutterKeeps ==
  ASSUME DInv, UNCHANGED vars
  PROVE  DInv'
<1>1. UNCHANGED <<wal, arrow, parquet, up, walOpen, sink, currentWalId, prebatch, queue, ipcFiles,
                  pendingDeletions, op, flight, rolling, pushed, before, trouble>>
  BY DEF vars, diskVars, walVars, ipcVars, readerVars, boundVars
<1>2. (Blank => Blank') /\ (Logged => Logged')
  BY <1>1 DEF Blank, Logged, SinkIsCurrent, NothingBuffered, NewestWal, NextWalEmpty,
              WalInPreBatch, WalInFlight, FlightInArrow
<1>3. (Listed => Listed') /\ (Parquets => Parquets')
  BY <1>1 DEF Listed, RollsApart, ArrowsListed, MarkedAreRead, Pending, Parquets,
              ParquetsHaveWal, ParquetsAreOld, NameIsFree, ParquetsAreLater, RowsIn, Existing
<1>4. Held => Held'
  BY <1>1 DEF Held, OnDisk, RowsIn, Existing
<1> QED
  BY <1>1, <1>2, <1>3, <1>4 DEF DInv, Whole

\* Every step of a manager keeps the directory whole.
LEMMA NextKeeps == GInv /\ DInv /\ [Next]_vars => DInv'
<1> SUFFICES ASSUME GInv, DInv, [Next]_vars PROVE DInv'
  OBVIOUS
<1>1. ASSUME NEW i \in Indices, PushRecord(i) PROVE DInv'
  BY <1>1, PushRecordKeeps
<1>a. ASSUME NEW i \in Indices, PushFails(i) PROVE DInv'
  BY <1>a, FailKeeps
<1>2. CASE WriteRow
  BY <1>2, WriteRowKeeps
<1>3. CASE FlushWal \/ OpenNext \/ Rotate
  BY <1>3, FlushWalKeeps, OpenNextKeeps, RotateKeeps
<1>4. CASE WriteArrowIpc \/ IndexRows \/ DeleteWal \/ Track
  BY <1>4, WriteArrowIpcKeeps, IndexRowsKeeps, DeleteWalKeeps, TrackKeeps
<1>5. CASE RolloutToParquet \/ RollFile \/ WriteParquet
  BY <1>5, RolloutToParquetKeeps, RollFileKeeps, WriteParquetKeeps
<1>6. CASE Fail \/ EnsureFails \/ WriterFails \/ RotateFails
  BY <1>6, FailKeeps
<1>7. ASSUME NEW p \in Providers, SqlProvider(p) PROVE DInv'
  BY <1>7, SqlProviderKeeps
<1>8. ASSUME NEW p \in Providers, NEW b \in WalIds, DropGuard(p, b) PROVE DInv'
  BY <1>8, DropGuardKeeps
<1>9. CASE Halt \/ StartFresh \/ StartRestored
  BY <1>9, HaltKeeps, StartFreshKeeps, StartRestoredKeeps
<1>10. CASE UNCHANGED vars
  BY <1>10, StutterKeeps
<1> QED
  BY <1>1, <1>a, <1>2, <1>3, <1>4, <1>5, <1>6, <1>7, <1>8, <1>9, <1>10 DEF Next

\* RowsOnDisk: through flushes, rollouts, deferred deletions and clean restarts,
\* a row that left the queue of the background writer is in some WAL, Arrow or
\* Parquet file, whenever no rollout is between its files (data.rs, push_record
\* to rollout_to_parquet_inner).
THEOREM DiskHasRows == Spec => []RowsOnDisk
<1>1. Init => DInv
  BY InitKeeps
<1>2. GInv /\ DInv /\ [Next]_vars => DInv'
  BY NextKeeps
<1>3. DInv => RowsOnDisk
  <2> SUFFICES ASSUME DInv, op # "roll", Clean, before = 0
               PROVE  Range(pushed) \subseteq OnDisk \cup Range(queue)
    BY DEF RowsOnDisk
  <2>1. Held /\ RollsApart
    BY DEF DInv, Whole, Clean, Listed
  <2>2. Range(rolling.rows) = {}
    BY <2>1, RangeOfEmpty DEF RollsApart, NoRollout
  <2> QED
    BY <2>1, <2>2 DEF Held
<1> QED
  BY <1>1, <1>2, <1>3, Guarded, PTL DEF Spec

-----------------------------------------------------------------------------
(* Files one after the other *)

\* A set with zero, and with each number the next, has them all.
LEMMA AllNumbers ==
  ASSUME NEW G, 0 \in G, \A n \in Nat : n \in G => n + 1 \in G
  PROVE  \A n \in Nat : n \in G
<1> SUFFICES ASSUME Nat \ G # {} PROVE FALSE
  OBVIOUS
<1>1. PICK m \in Nat \ G : \A y \in Nat \ G : ~(<<y, m>> \in OpToRel(<, Nat))
  BY NatLessThanWellFounded, WFMin
<1>2. m # 0 /\ m - 1 \in Nat /\ m - 1 < m /\ (m - 1) + 1 = m
  OBVIOUS
<1>3. m - 1 \in G
  BY <1>1, <1>2 DEF OpToRel
<1> QED
  BY <1>2, <1>3

\* f has the concatenation of the first sequences of s at each place.
AddsUp(f, s) == f[0] = <<>> /\ \A k \in 1 .. Len(s) : f[k] = f[k - 1] \o s[k]

\* The recursive function of FlattenSeq
FlatUpTo(f, s) == f = [i \in 1 .. Len(s) |-> IF i = 1 THEN s[i] ELSE f[i - 1] \o s[i]]

LEMMA FlatExists ==
  ASSUME NEW S, NEW s \in Seq(Seq(S))
  PROVE  \E f : FlatUpTo(f, s) /\ f \in [1 .. Len(s) -> Seq(S)]
<1> DEFINE n == Len(s)
           upto(f, m) == \A i \in 1 .. m : f[i] = IF i = 1 THEN s[i] ELSE f[i - 1] \o s[i]
           ex(m) == \E f \in [1 .. m -> Seq(S)] : upto(f, m)
           G == {m \in Nat : m <= n => ex(m)}
<1>0. n \in Nat /\ \A i \in 1 .. n : s[i] \in Seq(S)
  OBVIOUS
<1>1. 0 \in G
  <2>1. PICK f : f = [i \in 1 .. 0 |-> <<>>]
    OBVIOUS
  <2>2. \A i \in 1 .. 0 : FALSE
    OBVIOUS
  <2>3. f \in [1 .. 0 -> Seq(S)] /\ upto(f, 0)
    BY <2>1, <2>2
  <2> QED
    BY <2>3
<1>2. ASSUME NEW m \in Nat, m \in G PROVE m + 1 \in G
  <2> SUFFICES ASSUME m + 1 <= n PROVE ex(m + 1)
    <3> HIDE DEF ex
    <3> QED OBVIOUS
  <2>0. ex(m)
    <3> HIDE DEF ex
    <3> QED BY <1>0, <1>2
  <2>1. PICK f \in [1 .. m -> Seq(S)] : upto(f, m)
    BY <2>0
  <2> DEFINE last == IF m + 1 = 1 THEN s[m + 1] ELSE f[m] \o s[m + 1]
             g == [i \in 1 .. m + 1 |-> IF i = m + 1 THEN last ELSE f[i]]
  <2>2. last \in Seq(S)
    <3>1. s[m + 1] \in Seq(S)
      BY <1>0
    <3>2. m + 1 # 1 => f[m] \in Seq(S)
      OBVIOUS
    <3> QED
      BY <3>1, <3>2
  <2>3. g \in [1 .. m + 1 -> Seq(S)]
    <3> HIDE DEF last
    <3> QED BY <2>2
  <2>4. upto(g, m + 1)
    <3> SUFFICES ASSUME NEW i \in 1 .. m + 1
                 PROVE  g[i] = IF i = 1 THEN s[i] ELSE g[i - 1] \o s[i]
      OBVIOUS
    <3>1. CASE i = m + 1
      <4>1. i # 1 => g[i - 1] = f[m]
        BY <3>1
      <4>2. g[i] = last
        BY <3>1
      <4> QED
        BY <3>1, <4>1, <4>2
    <3>2. CASE i # m + 1
      <4>1. i \in 1 .. m /\ g[i] = f[i]
        BY <3>2
      <4>2. i # 1 => i - 1 \in 1 .. m /\ g[i - 1] = f[i - 1]
        BY <4>1
      <4> HIDE DEF g
      <4> QED
        BY <2>1, <4>1, <4>2
    <3> QED
      BY <3>1, <3>2
  <2> HIDE DEF g
  <2> QED
    BY <2>3, <2>4
<1>3. n \in G
  <2> HIDE DEF G
  <2> QED BY <1>0, <1>1, <1>2, AllNumbers
<1>4. PICK f \in [1 .. n -> Seq(S)] : upto(f, n)
  BY <1>0, <1>3
<1>5. f = [i \in 1 .. n |-> IF i = 1 THEN s[i] ELSE f[i - 1] \o s[i]]
  BY <1>4
<1> QED
  BY <1>4, <1>5 DEF FlatUpTo

\* FlattenSeq puts the sequences behind one another.
LEMMA Flat ==
  ASSUME NEW S, NEW s \in Seq(Seq(S))
  PROVE  \E f \in [0 .. Len(s) -> Seq(S)] : AddsUp(f, s) /\ FlattenSeq(s) = f[Len(s)]
<1>0. Len(s) \in Nat /\ \A i \in 1 .. Len(s) : s[i] \in Seq(S)
  OBVIOUS
<1>1. CASE Len(s) = 0
  <2>1. FlattenSeq(s) = <<>>
    BY <1>1 DEF FlattenSeq
  <2>2. PICK f : f = [k \in 0 .. 0 |-> <<>>]
    OBVIOUS
  <2>3. f \in [0 .. Len(s) -> Seq(S)] /\ f[0] = <<>>
    BY <1>1, <2>2, EmptySeq
  <2>4. \A k \in 1 .. Len(s) : FALSE
    BY <1>1
  <2>5. AddsUp(f, s)
    BY <2>3, <2>4 DEF AddsUp
  <2> QED
    BY <1>1, <2>1, <2>3, <2>5
<1>2. CASE Len(s) # 0
  <2> DEFINE fl == CHOOSE f : FlatUpTo(f, s)
  <2>1. FlattenSeq(s) = fl[Len(s)]
    BY <1>2 DEF FlattenSeq, FlatUpTo
  <2>2. FlatUpTo(fl, s)
    BY FlatExists
  <2>3. PICK g \in [1 .. Len(s) -> Seq(S)] : FlatUpTo(g, s)
    BY FlatExists
  <2> HIDE DEF fl
  <2>4. \A i \in 1 .. Len(s) : fl[i] = (IF i = 1 THEN s[i] ELSE fl[i - 1] \o s[i])
    BY <2>2 DEF FlatUpTo
  <2> DEFINE G == {m \in Nat : m \in 1 .. Len(s) => fl[m] \in Seq(S)}
  <2>5. \A m \in Nat : m \in G
    <3>1. 0 \in G
      OBVIOUS
    <3>2. ASSUME NEW m \in Nat, m \in G PROVE m + 1 \in G
      <4> SUFFICES ASSUME m + 1 \in 1 .. Len(s) PROVE fl[m + 1] \in Seq(S)
        OBVIOUS
      <4>1. s[m + 1] \in Seq(S)
        BY <1>0
      <4>2. CASE m = 0
        BY <2>4, <4>1, <4>2
      <4>3. CASE m # 0
        <5>1. fl[m] \in Seq(S)
          BY <1>0, <3>2, <4>3
        <5>2. fl[m + 1] = fl[m] \o s[m + 1]
          <6>1. m + 1 \in 1 .. Len(s) /\ m + 1 # 1 /\ (m + 1) - 1 = m
            BY <4>3
          <6> QED
            BY <2>4, <6>1
        <5> QED
          BY <4>1, <5>1, <5>2
      <4> QED
        BY <4>2, <4>3
    <3> HIDE DEF G
    <3> QED
      BY <3>1, <3>2, AllNumbers
  <2> DEFINE h == [k \in 0 .. Len(s) |-> IF k = 0 THEN <<>> ELSE fl[k]]
  <2>6. h \in [0 .. Len(s) -> Seq(S)]
    <3>1. \A k \in 1 .. Len(s) : fl[k] \in Seq(S)
      BY <1>0, <2>5
    <3>2. <<>> \in Seq(S)
      BY EmptySeq
    <3> QED
      BY <1>0, <3>1, <3>2
  <2>7. h[0] = <<>> /\ \A k \in 1 .. Len(s) : h[k] = fl[k]
    BY <1>0
  <2>8. ASSUME NEW k \in 1 .. Len(s) PROVE h[k] = h[k - 1] \o s[k]
    <3>1. CASE k = 1
      <4>1. h[k] = s[k] /\ h[k - 1] = <<>> /\ s[k] \in Seq(S)
        BY <1>0, <2>4, <2>7, <3>1
      <4>2. PICK e \in Seq(S) : e = s[k]
        BY <4>1
      <4>3. e = <<>> \o e
        BY ConcatEmptySeq
      <4> QED
        BY <4>1, <4>2, <4>3
    <3>2. CASE k # 1
      <4>1. k - 1 \in 1 .. Len(s)
        BY <1>0, <3>2
      <4>2. fl[k] = fl[k - 1] \o s[k]
        BY <2>4, <3>2
      <4>3. h[k] = fl[k] /\ h[k - 1] = fl[k - 1]
        BY <2>7, <4>1
      <4> QED
        BY <4>2, <4>3
    <3> QED
      BY <3>1, <3>2
  <2> HIDE DEF h
  <2>9. AddsUp(h, s)
    BY <2>7, <2>8 DEF AddsUp
  <2>10. FlattenSeq(s) = h[Len(s)]
    BY <1>0, <1>2, <2>1, <2>7
  <2> QED
    BY <2>6, <2>9, <2>10
<1> QED
  BY <1>1, <1>2

\* Sequences with different elements, each once
LEMMA OnceBoth ==
  ASSUME NEW S, NEW a \in Seq(S), NEW b \in Seq(S), Once(a), Once(b), Range(a) \cap Range(b) = {}
  PROVE  /\ a \o b \in Seq(S) /\ Once(a \o b)
         /\ Range(a \o b) = Range(a) \cup Range(b)
<1>1. /\ a \o b \in Seq(S) /\ Len(a \o b) = Len(a) + Len(b)
      /\ \A i \in 1 .. (Len(a) + Len(b)) : (a \o b)[i] = IF i <= Len(a) THEN a[i] ELSE b[i - Len(a)]
  BY ConcatProperties
<1>2. Range(a \o b) = Range(a) \cup Range(b)
  BY RangeConcatenation
<1>3. PICK m \in Nat, n \in Nat : m = Len(a) /\ n = Len(b)
  BY LenProperties
<1>4. PICK c : c = a \o b
  OBVIOUS
<1>5. /\ Len(c) = m + n
      /\ \A i \in 1 .. m : c[i] = a[i] /\ a[i] \in Range(a)
      /\ \A i \in 1 .. n : c[m + i] = b[i] /\ b[i] \in Range(b)
  <2>1. \A i \in 1 .. m : i \in 1 .. (m + n) /\ i <= m
    OBVIOUS
  <2>2. \A i \in 1 .. n : m + i \in 1 .. (m + n) /\ ~(m + i <= m) /\ (m + i) - m = i
    OBVIOUS
  <2>3. \A i \in 1 .. m : a[i] \in Range(a)
    BY <1>3, RangeEquality
  <2>4. \A i \in 1 .. n : b[i] \in Range(b)
    BY <1>3, RangeEquality
  <2> QED
    BY <1>1, <1>3, <1>4, <2>1, <2>2, <2>3, <2>4
<1>6. Once(c)
  <2> SUFFICES ASSUME NEW j \in 1 .. m + n, NEW k \in 1 .. m + n, c[j] = c[k] PROVE j = k
    BY <1>5 DEF Once
  <2>1. \A i \in 1 .. m + n : i \in 1 .. m \/ (i - m \in 1 .. n /\ m + (i - m) = i)
    OBVIOUS
  <2>2. CASE j \in 1 .. m /\ k \in 1 .. m
    BY <1>3, <1>5, <2>2 DEF Once
  <2>3. CASE j \in 1 .. m /\ k - m \in 1 .. n
    <3>1. c[j] \in Range(a)
      BY <1>5, <2>3
    <3>2. m + (k - m) = k
      OBVIOUS
    <3>3. c[m + (k - m)] = b[k - m] /\ b[k - m] \in Range(b)
      BY <1>5, <2>3
    <3>4. c[k] \in Range(b)
      BY <3>2, <3>3, Zenon
    <3> QED
      BY <3>1, <3>4
  <2>4. CASE k \in 1 .. m /\ j - m \in 1 .. n
    <3>1. c[k] \in Range(a)
      BY <1>5, <2>4
    <3>2. m + (j - m) = j
      OBVIOUS
    <3>3. c[m + (j - m)] = b[j - m] /\ b[j - m] \in Range(b)
      BY <1>5, <2>4
    <3>4. c[j] \in Range(b)
      BY <3>2, <3>3, Zenon
    <3> QED
      BY <3>1, <3>4
  <2>5. CASE j - m \in 1 .. n /\ k - m \in 1 .. n
    <3>1. c[j] = b[j - m] /\ c[k] = b[k - m]
      <4>1. m + (j - m) = j /\ m + (k - m) = k
        OBVIOUS
      <4>2. c[m + (j - m)] = b[j - m] /\ c[m + (k - m)] = b[k - m]
        BY <1>5, <2>5
      <4> QED
        BY <4>1, <4>2, Zenon
    <3>2. j - m = k - m
      BY <1>3, <2>5, <3>1 DEF Once
    <3> QED
      BY <3>2
  <2> QED
    BY <2>1, <2>2, <2>3, <2>4, <2>5
<1> QED
  BY <1>1, <1>2, <1>4, <1>6

\* What a concatenation holds, and that it holds nothing twice.
LEMMA SumsOnce ==
  ASSUME NEW S, NEW s \in Seq(Seq(S)), NEW f \in [0 .. Len(s) -> Seq(S)], AddsUp(f, s),
         \A k \in 1 .. Len(s) : Once(s[k]),
         \A j, k \in 1 .. Len(s) : j # k => Range(s[j]) \cap Range(s[k]) = {}
  PROVE  /\ Once(f[Len(s)])
         /\ \A x \in Range(f[Len(s)]) : \E k \in 1 .. Len(s) : x \in Range(s[k])
<1> DEFINE good(m) == /\ Once(f[m])
                      /\ \A x \in Range(f[m]) : \E k \in 1 .. m : x \in Range(s[k])
           G == {m \in Nat : m <= Len(s) => good(m)}
<1>0. PICK n \in Nat : n = Len(s)
  BY LenProperties
<1>1. 0 \in G
  <2>1. f[0] = <<>> /\ Len(<<>>) = 0 /\ Range(<<>>) = {}
    BY RangeOfEmpty DEF AddsUp
  <2>2. good(0)
    BY <2>1 DEF Once
  <2> HIDE DEF good
  <2> QED
    BY <2>2
<1>2. ASSUME NEW m \in Nat, m \in G PROVE m + 1 \in G
  <2> SUFFICES ASSUME m + 1 <= n PROVE good(m + 1)
    <3> HIDE DEF good
    <3> QED BY <1>0
  <2>1. good(m)
    <3> HIDE DEF good
    <3> QED BY <1>0, <1>2
  <2>2. m + 1 \in 1 .. n /\ (m + 1) - 1 = m /\ m \in 0 .. n
    OBVIOUS
  <2>3. f[m + 1] = f[m] \o s[m + 1] /\ f[m] \in Seq(S) /\ s[m + 1] \in Seq(S)
    <3>1. \A k \in 1 .. n : f[k] = f[k - 1] \o s[k]
      BY <1>0 DEF AddsUp
    <3>2. f[m + 1] = f[(m + 1) - 1] \o s[m + 1]
      BY <2>2, <3>1
    <3>3. \A k \in 1 .. n : s[k] \in Seq(S)
      BY <1>0
    <3>4. f[m] \in Seq(S)
      BY <1>0, <2>2
    <3> QED
      BY <2>2, <3>2, <3>3, <3>4
  <2>4. PICK a \in Seq(S), b \in Seq(S) : a = f[m] /\ b = s[m + 1]
    BY <2>3
  <2>5. Once(a) /\ Once(b)
    BY <1>0, <2>1, <2>2, <2>4
  <2>6. Range(a) \cap Range(b) = {}
    <3> SUFFICES ASSUME NEW x \in Range(a), x \in Range(b) PROVE FALSE
      OBVIOUS
    <3>1. PICK k \in 1 .. m : x \in Range(s[k])
      BY <2>1, <2>4
    <3>2. k \in 1 .. n /\ k # m + 1
      BY <2>2
    <3> QED
      BY <1>0, <2>2, <2>4, <3>1, <3>2
  <2>7. Once(a \o b) /\ Range(a \o b) = Range(a) \cup Range(b)
    BY <2>5, <2>6, OnceBoth
  <2>8. f[m + 1] = a \o b
    BY <2>3, <2>4
  <2>9. ASSUME NEW x \in Range(f[m + 1]) PROVE \E k \in 1 .. m + 1 : x \in Range(s[k])
    <3>1. CASE x \in Range(a)
      <4>1. PICK k \in 1 .. m : x \in Range(s[k])
        BY <2>1, <2>4, <3>1
      <4> QED
        BY <4>1
    <3>2. CASE x \in Range(b)
      <4>1. m + 1 \in 1 .. m + 1
        OBVIOUS
      <4> QED
        BY <2>4, <3>2, <4>1
    <3> QED
      BY <2>7, <2>8, <2>9, <3>1, <3>2
  <2> QED
    BY <2>7, <2>8, <2>9
<1>3. n \in G
  <2> HIDE DEF G
  <2> QED BY <1>1, <1>2, AllNumbers
<1>4. good(n)
  <2> HIDE DEF good
  <2> QED BY <1>0, <1>3
<1> QED
  BY <1>0, <1>4

\* The files of a list, one after the other
LEMMA Concatenated ==
  ASSUME NEW files \in Files, NEW ids \in Seq(WalIds), \A n \in Range(ids) : files[n] # None
  PROVE  LET s == [k \in 1 .. Len(ids) |-> files[ids[k]]] IN
         /\ s \in Seq(Seq(Rows)) /\ Len(s) = Len(ids)
         /\ Concatenate(files, ids) \in Seq(Rows)
         /\ \E f \in [0 .. Len(s) -> Seq(Rows)] : AddsUp(f, s) /\ Concatenate(files, ids) = f[Len(s)]
<1> DEFINE s == [k \in 1 .. Len(ids) |-> files[ids[k]]]
<1>1. \A k \in 1 .. Len(ids) : ids[k] \in WalIds /\ ids[k] \in Range(ids)
  BY RangeEquality
<1>2. \A k \in 1 .. Len(ids) : files[ids[k]] \in Seq(Rows)
  BY <1>1 DEF Files, Optional
<1>3. s \in Seq(Seq(Rows)) /\ Len(s) = Len(ids)
  <2>1. Len(ids) \in Nat
    OBVIOUS
  <2> QED
    BY <1>2, <2>1
<1>4. Concatenate(files, ids) = FlattenSeq(s)
  BY DEF Concatenate
<1> HIDE DEF s
<1>5. PICK f \in [0 .. Len(s) -> Seq(Rows)] : AddsUp(f, s) /\ FlattenSeq(s) = f[Len(s)]
  BY <1>3, Flat
<1>6. f[Len(s)] \in Seq(Rows)
  BY <1>3
<1> QED
  BY <1>3, <1>4, <1>5, <1>6 DEF s

\* The files of a list are there, and no row is in two of them or twice in one.
EachOnce(files, ids) ==
  /\ Once(ids)
  /\ \A n \in Range(ids) : files[n] # None /\ Once(files[n])
  /\ \A m, n \in Range(ids) : m # n => Range(files[m]) \cap Range(files[n]) = {}

\* s has rows of these files, each once.
Joins(s, files, ids) ==
  /\ s \in Seq(Rows) /\ Once(s)
  /\ \A x \in Range(s) : \E n \in Range(ids) : x \in Range(files[n])

\* Such files, one after the other, have their rows once.
LEMMA ConcatenatedOnce ==
  ASSUME NEW files \in Files, NEW ids \in Seq(WalIds), EachOnce(files, ids)
  PROVE  Joins(Concatenate(files, ids), files, ids)
<1> DEFINE s == [k \in 1 .. Len(ids) |-> files[ids[k]]]
<1>1. /\ s \in Seq(Seq(Rows)) /\ Len(s) = Len(ids)
      /\ Concatenate(files, ids) \in Seq(Rows)
      /\ \E f \in [0 .. Len(s) -> Seq(Rows)] : AddsUp(f, s) /\ Concatenate(files, ids) = f[Len(s)]
  BY Concatenated DEF EachOnce
<1>2. \A k \in 1 .. Len(ids) : ids[k] \in Range(ids) /\ s[k] = files[ids[k]]
  BY RangeEquality
<1> HIDE DEF s
<1>3. PICK f \in [0 .. Len(s) -> Seq(Rows)] : AddsUp(f, s) /\ Concatenate(files, ids) = f[Len(s)]
  BY <1>1
<1>4. \A k \in 1 .. Len(s) : Once(s[k])
  BY <1>1, <1>2 DEF EachOnce
<1>5. \A j, k \in 1 .. Len(s) : j # k => Range(s[j]) \cap Range(s[k]) = {}
  <2> SUFFICES ASSUME NEW j \in 1 .. Len(s), NEW k \in 1 .. Len(s), j # k
               PROVE  Range(s[j]) \cap Range(s[k]) = {}
    OBVIOUS
  <2>1. ids[j] # ids[k]
    BY <1>1 DEF Once, EachOnce
  <2> QED
    BY <1>1, <1>2, <2>1 DEF EachOnce
<1>6. /\ Once(f[Len(s)])
      /\ \A x \in Range(f[Len(s)]) : \E k \in 1 .. Len(s) : x \in Range(s[k])
  BY <1>1, <1>3, <1>4, <1>5, SumsOnce
<1> QED
  BY <1>1, <1>2, <1>3, <1>6 DEF Joins

-----------------------------------------------------------------------------
(* No row twice *)

\* No manager was restored after an error, or after one that was not restored.
Tidy == trouble # "restored"

\* Where the rows a manager shows may be: in a file of either kind, in the rollout
\* or in the flush under way, or in the PreBatch.
Places == ({"parquet", "arrow"} \X WalIds) \cup ({"rolling", "flight", "memory"} \X {0})

\* The rows at each place
RowsAt(parquets, arrows, rolled, batch, rows) ==
  [p \in Places |->
     CASE p[1] = "parquet" -> parquets[p[2]]
       [] p[1] = "arrow" -> arrows[p[2]]
       [] p[1] = "rolling" -> rolled
       [] p[1] = "flight" -> batch
       [] OTHER -> rows]

\* No row is at two places or twice at one, and each is one of the first n.
Apart(c, n) ==
  \A p \in Places :
    /\ Once(c[p])
    /\ \A q \in Places \ {p} : Range(c[p]) \cap Range(c[q]) = {}
    /\ \A r \in Range(c[p]) : r[2] <= n

\* The files of these ids
Listing(files, ids) == [n \in WalIds |-> IF n \in ids THEN files[n] ELSE <<>>]

\* What a manager shows, and what one restored from the directory would
Contents == RowsAt(Listing(parquet, Range(parquetFilePaths)), Listing(arrow, Range(ipcFilePaths)),
                   rolling.rows, flight.batch, prebatch)
DirContents == RowsAt(Listing(parquet, Existing(parquet)), Listing(arrow, Existing(arrow)),
                      <<>>, <<>>, RecoveredRows)

\* The Arrow files a manager lists are there, and what waits for a rollout is listed.
ArrowPaths ==
  /\ \A b \in Range(ipcFilePaths) : arrow[b] # None /\ b \notin pendingDeletions
  /\ Range(ipcFiles) \cup Pending \subseteq Range(ipcFilePaths)
  /\ Once(ipcFiles) /\ Once(rolling.files)

\* So are the Parquet files, and the next name is not listed.
ParquetPaths ==
  /\ parquetFilePaths \in Seq(WalIds) /\ Once(parquetFilePaths)
  /\ \A q \in Range(parquetFilePaths) :
       /\ parquet[q] # None /\ q <= currentWalId
       /\ op = "roll" \/ ipcFiles # <<>> => q < currentWalId

\* What a flush and a rollout hold
InHand ==
  /\ op \notin Rotated => flight.batch = <<>>
  /\ op \in Written => arrow[currentWalId] = flight.batch
  /\ RollsApart

\* A directory that no error met is what its manager knows of it.
KnownDirectory ==
  /\ up => Existing(parquet) \subseteq Range(parquetFilePaths)
  /\ walOpen => prebatch = wal[sink] \o queue
  /\ ~walOpen => currentWalId = 0 /\ prebatch = <<>>
  /\ ~up => Apart(DirContents, Len(pushed))

\* What holds of a tidy manager
Sound == ArrowPaths /\ ParquetPaths /\ InHand /\ Apart(Contents, Len(pushed))

NInv ==
  /\ Tidy => Sound
  /\ Whole => KnownDirectory

-----------------------------------------------------------------------------
(* Rows that change their place *)

\* The places
LEMMA PlacesAre ==
  /\ \A n \in WalIds : <<"parquet", n>> \in Places /\ <<"arrow", n>> \in Places
  /\ <<"rolling", 0>> \in Places /\ <<"flight", 0>> \in Places /\ <<"memory", 0>> \in Places
  /\ \A p \in Places : \/ \E n \in WalIds : p = <<"parquet", n>> \/ p = <<"arrow", n>>
                       \/ p \in {<<"rolling", 0>>, <<"flight", 0>>, <<"memory", 0>>}
BY DEF Places

\* c has these rows at each place.
Shows(c, parquets, arrows, rolled, batch, rows) ==
  /\ c \in [Places -> Seq(Rows)]
  /\ \A n \in WalIds : c[<<"parquet", n>>] = parquets[n] /\ c[<<"arrow", n>>] = arrows[n]
  /\ c[<<"rolling", 0>>] = rolled /\ c[<<"flight", 0>>] = batch /\ c[<<"memory", 0>>] = rows

LEMMA RowsAtPlaces ==
  ASSUME NEW parquets \in [WalIds -> Seq(Rows)], NEW arrows \in [WalIds -> Seq(Rows)],
         NEW rolled \in Seq(Rows), NEW batch \in Seq(Rows), NEW rows \in Seq(Rows),
         NEW c, c = RowsAt(parquets, arrows, rolled, batch, rows)
  PROVE  Shows(c, parquets, arrows, rolled, batch, rows)
<1>1. /\ \A n \in WalIds : c[<<"parquet", n>>] = parquets[n] /\ c[<<"arrow", n>>] = arrows[n]
      /\ c[<<"rolling", 0>>] = rolled /\ c[<<"flight", 0>>] = batch /\ c[<<"memory", 0>>] = rows
  BY PlacesAre DEF RowsAt
<1>2. c = [p \in Places |-> c[p]]
  BY DEF RowsAt
<1>3. ASSUME NEW p \in Places PROVE c[p] \in Seq(Rows)
  <2>1. CASE \E n \in WalIds : p = <<"parquet", n>> \/ p = <<"arrow", n>>
    BY <1>1, <2>1
  <2>2. CASE p \in {<<"rolling", 0>>, <<"flight", 0>>, <<"memory", 0>>}
    BY <1>1, <2>2
  <2> QED
    BY <2>1, <2>2, PlacesAre
<1>4. c \in [Places -> Seq(Rows)]
  BY <1>2, <1>3
<1> QED
  BY <1>1, <1>4 DEF Shows

\* Rows that go, and those that stay
LEMMA ApartLess ==
  ASSUME NEW c \in [Places -> Seq(Rows)], NEW d \in [Places -> Seq(Rows)], NEW n, Apart(c, n),
         \A p \in Places : d[p] = c[p] \/ d[p] = <<>>
  PROVE  Apart(d, n)
<1>1. Once(<<>>) /\ Range(<<>>) = {}
  <2>1. Len(<<>>) = 0
    OBVIOUS
  <2> QED
    BY <2>1, RangeOfEmpty DEF Once
<1>2. \A p \in Places : Range(d[p]) \subseteq Range(c[p])
  BY <1>1
<1>3. \A p \in Places : Once(d[p])
  BY <1>1 DEF Apart
<1> QED
  BY <1>2, <1>3 DEF Apart

\* The rows of one place move to the end of another.
LEMMA ApartMoved ==
  ASSUME NEW c \in [Places -> Seq(Rows)], NEW d \in [Places -> Seq(Rows)], NEW n, Apart(c, n),
         NEW s \in Places, NEW t \in Places, s # t, d[s] = <<>>, d[t] = c[t] \o c[s],
         \A p \in Places \ {s, t} : d[p] = c[p]
  PROVE  Apart(d, n)
<1>1. Once(<<>>) /\ Range(<<>>) = {}
  <2>1. Len(<<>>) = 0
    OBVIOUS
  <2> QED
    BY <2>1, RangeOfEmpty DEF Once
<1>2. PICK a \in Seq(Rows), b \in Seq(Rows) : a = c[t] /\ b = c[s]
  OBVIOUS
<1>3. Once(a) /\ Once(b) /\ Range(a) \cap Range(b) = {}
  BY <1>2 DEF Apart
<1>4. Once(d[t]) /\ Range(d[t]) = Range(c[t]) \cup Range(c[s])
  BY <1>2, <1>3, OnceBoth
<1>5. \A p \in Places : Once(d[p])
  BY <1>1, <1>4 DEF Apart
<1>6. \A p \in Places : p # t => Range(d[p]) \subseteq Range(c[p]) /\ (p = s => Range(d[p]) = {})
  BY <1>1
<1>7. ASSUME NEW p \in Places, NEW q \in Places, p # q PROVE Range(d[p]) \cap Range(d[q]) = {}
  <2>1. CASE p # t /\ q # t
    BY <1>6, <1>7, <2>1 DEF Apart
  <2>2. CASE p = t
    <3>1. CASE q = s
      BY <1>6, <1>7, <2>2, <3>1
    <3>2. CASE q # s
      BY <1>4, <1>6, <1>7, <2>2, <3>2 DEF Apart
    <3> QED
      BY <3>1, <3>2
  <2>3. CASE q = t
    <3>1. CASE p = s
      BY <1>6, <1>7, <2>3, <3>1
    <3>2. CASE p # s
      BY <1>4, <1>6, <1>7, <2>3, <3>2 DEF Apart
    <3> QED
      BY <3>1, <3>2
  <2> QED
    BY <2>1, <2>2, <2>3
<1>8. \A p \in Places : \A r \in Range(d[p]) : r[2] <= n
  BY <1>4, <1>6 DEF Apart
<1> QED
  BY <1>5, <1>7, <1>8 DEF Apart

\* A row is pushed.
LEMMA ApartPushed ==
  ASSUME NEW c \in [Places -> Seq(Rows)], NEW d \in [Places -> Seq(Rows)], NEW n \in Nat, Apart(c, n),
         NEW t \in Places, NEW r \in Rows, r[2] = n + 1, d[t] = Append(c[t], r),
         \A p \in Places \ {t} : d[p] = c[p]
  PROVE  Apart(d, n + 1)
<1>1. PICK a \in Seq(Rows) : a = c[t]
  OBVIOUS
<1>2. \A p \in Places : r \notin Range(c[p])
  BY DEF Apart
<1>3. Once(d[t]) /\ Range(d[t]) = Range(c[t]) \cup {r}
  BY <1>1, <1>2, OnceMore, RangeOfAppend DEF Apart
<1>4. \A p \in Places : Once(d[p])
  BY <1>3 DEF Apart
<1>5. ASSUME NEW p \in Places, NEW q \in Places, p # q PROVE Range(d[p]) \cap Range(d[q]) = {}
  <2>1. CASE p # t /\ q # t
    BY <1>5, <2>1 DEF Apart
  <2>2. CASE p = t
    BY <1>2, <1>3, <1>5, <2>2 DEF Apart
  <2>3. CASE q = t
    BY <1>2, <1>3, <1>5, <2>3 DEF Apart
  <2> QED
    BY <2>1, <2>2, <2>3
<1>6. ASSUME NEW p \in Places, NEW x \in Range(d[p]) PROVE x[2] <= n + 1
  <2>1. x = r \/ (x \in Range(c[p]))
    BY <1>3
  <2>2. CASE x = r
    BY <2>2
  <2>3. CASE x \in Range(c[p])
    <3>1. x \in Rows
      BY <2>3, RangeOfSeq
    <3>2. x[2] \in Nat /\ x[2] <= n
      BY <2>3, <3>1, Constants DEF Rows, Apart
    <3> QED
      BY <3>2
  <2> QED
    BY <2>1, <2>2, <2>3
<1> QED
  BY <1>4, <1>5, <1>6 DEF Apart

-----------------------------------------------------------------------------
(* What a manager shows *)

\* c has the rows of each place.
Holds(c) ==
  /\ c \in [Places -> Seq(Rows)]
  /\ \A n \in WalIds :
       /\ c[<<"parquet", n>>] = IF n \in Range(parquetFilePaths) THEN parquet[n] ELSE <<>>
       /\ c[<<"arrow", n>>] = IF n \in Range(ipcFilePaths) THEN arrow[n] ELSE <<>>
  /\ c[<<"rolling", 0>>] = rolling.rows
  /\ c[<<"flight", 0>>] = flight.batch
  /\ c[<<"memory", 0>>] = prebatch

LEMMA ListingTypes ==
  ASSUME NEW files \in Files, NEW ids, \A n \in ids : files[n] # None
  PROVE  Listing(files, ids) \in [WalIds -> Seq(Rows)]
<1>1. \A n \in WalIds : n \in ids => files[n] \in Seq(Rows)
  BY DEF Files, Optional
<1> QED
  BY <1>1, Constants DEF Listing

LEMMA ContentsHold ==
  ASSUME GInv, ArrowPaths, ParquetPaths
  PROVE  Holds(Contents)
<1>1. PICK pq \in [WalIds -> Seq(Rows)] : pq = Listing(parquet, Range(parquetFilePaths))
  BY TypesOf, ListingTypes DEF ParquetPaths
<1>2. PICK ar \in [WalIds -> Seq(Rows)] : ar = Listing(arrow, Range(ipcFilePaths))
  BY TypesOf, ListingTypes DEF ArrowPaths
<1>3. PICK ro \in Seq(Rows), fl \in Seq(Rows), me \in Seq(Rows) :
        ro = rolling.rows /\ fl = flight.batch /\ me = prebatch
  BY TypesOf
<1>4. PICK c : c = RowsAt(pq, ar, ro, fl, me)
  OBVIOUS
<1>5. c = Contents
  BY <1>1, <1>2, <1>3, <1>4 DEF Contents
<1>6. \A n \in WalIds :
        /\ pq[n] = IF n \in Range(parquetFilePaths) THEN parquet[n] ELSE <<>>
        /\ ar[n] = IF n \in Range(ipcFilePaths) THEN arrow[n] ELSE <<>>
  BY <1>1, <1>2 DEF Listing
<1>7. Shows(c, pq, ar, ro, fl, me)
  BY <1>4, RowsAtPlaces
<1> QED
  BY <1>3, <1>5, <1>6, <1>7 DEF Holds, Shows

\* The same after a step
LEMMA ContentsHoldNext ==
  ASSUME GInv', ArrowPaths', ParquetPaths'
  PROVE  Holds(Contents)'
<1>0. /\ parquet' \in Files /\ arrow' \in Files
      /\ rolling'.rows \in Seq(Rows) /\ flight'.batch \in Seq(Rows) /\ prebatch' \in Seq(Rows)
  BY DEF GInv, Types, FileTypes, ManagerTypes, RolloutTypes
<1>1. PICK pq \in [WalIds -> Seq(Rows)] : pq = Listing(parquet', Range(parquetFilePaths'))
  BY <1>0, ListingTypes DEF ParquetPaths
<1>2. PICK ar \in [WalIds -> Seq(Rows)] : ar = Listing(arrow', Range(ipcFilePaths'))
  BY <1>0, ListingTypes DEF ArrowPaths
<1>3. PICK ro \in Seq(Rows), fl \in Seq(Rows), me \in Seq(Rows) :
        ro = rolling'.rows /\ fl = flight'.batch /\ me = prebatch'
  BY <1>0
<1>4. PICK c : c = RowsAt(pq, ar, ro, fl, me)
  OBVIOUS
<1>5. c = Contents'
  BY <1>1, <1>2, <1>3, <1>4 DEF Contents
<1>6. \A n \in WalIds :
        /\ pq[n] = IF n \in Range(parquetFilePaths') THEN parquet'[n] ELSE <<>>
        /\ ar[n] = IF n \in Range(ipcFilePaths') THEN arrow'[n] ELSE <<>>
  BY <1>1, <1>2 DEF Listing
<1>7. Shows(c, pq, ar, ro, fl, me)
  BY <1>4, RowsAtPlaces
<1> QED
  BY <1>3, <1>5, <1>6, <1>7 DEF Holds, Shows

\* Files marked for deletion are older than the current WAL.
LEMMA MarkedAreOld ==
  ASSUME GInv
  PROVE  \A b \in pendingDeletions : b \in WalIds /\ b < currentWalId
<1> SUFFICES ASSUME NEW b \in pendingDeletions PROVE b \in WalIds /\ b < currentWalId
  OBVIOUS
<1>1. b \in WalIds /\ Cardinality(Guarding(b)) > 0
  BY DEF GInv, Counted, Types, ReaderTypes
<1>2. Guarding(b) # {}
  BY <1>1, FS_EmptySet
<1> QED
  BY <1>1, <1>2 DEF Guarding, GInv, Older

\* A step that leaves what is shown alone, and its lists
LEMMA QuietStep ==
  ASSUME GInv, GInv', Sound,
         UNCHANGED <<parquet, parquetFilePaths, ipcFilePaths, ipcFiles, rolling, prebatch, pushed>>,
         flight'.batch = flight.batch, InHand', currentWalId <= currentWalId',
         \A b \in Range(ipcFilePaths) : arrow'[b] = arrow[b],
         pendingDeletions' \subseteq pendingDeletions,
         op' = "roll" => op = "roll"
  PROVE  Sound'
<1>1. ArrowPaths'
  BY DEF Sound, ArrowPaths, Pending, Once
<1>2. ParquetPaths'
  <2>1. currentWalId \in Nat /\ currentWalId' \in Nat
    BY Constants DEF GInv, Types, ManagerTypes
  <2>2. \A q \in Range(parquetFilePaths) : q \in Nat
    <3>1. parquetFilePaths \in Seq(WalIds)
      BY DEF Sound, ParquetPaths
    <3> QED
      BY <3>1, RangeOfSeq, Constants DEF WalIds
  <2>3. \A q \in Range(parquetFilePaths) :
          /\ q <= currentWalId => q <= currentWalId'
          /\ q < currentWalId => q < currentWalId'
    BY <2>1, <2>2
  <2> QED
    BY <2>3 DEF Sound, ParquetPaths
<1>3. Contents' = Contents
  <2>1. Listing(arrow', Range(ipcFilePaths)) = Listing(arrow, Range(ipcFilePaths))
    BY DEF Listing
  <2>2. Listing(parquet', Range(parquetFilePaths')) = Listing(parquet, Range(parquetFilePaths))
    OBVIOUS
  <2>3. Contents' = RowsAt(Listing(parquet', Range(parquetFilePaths')), Listing(arrow', Range(ipcFilePaths')),
                           rolling'.rows, flight'.batch, prebatch')
    BY DEF Contents
  <2> QED
    BY <2>1, <2>2, <2>3 DEF Contents
<1>4. Apart(Contents, Len(pushed))'
  BY <1>3 DEF Sound, Apart
<1> QED
  BY <1>1, <1>2, <1>4 DEF Sound

-----------------------------------------------------------------------------
(* Steps of a tidy manager *)

\* The background writer moves no row that is shown.
LEMMA WriteRowSound ==
  ASSUME GInv, GInv', Sound, WriteRow
  PROVE  Sound'
<1>1. UNCHANGED <<parquet, parquetFilePaths, ipcFilePaths, ipcFiles, rolling, prebatch, pushed, flight, arrow,
                  currentWalId, pendingDeletions, op>>
  BY DEF WriteRow, ipcVars, parquetVars, walVars, readerVars
<1>2. InHand'
  BY <1>1 DEF Sound, InHand, RollsApart
<1>3. currentWalId <= currentWalId'
  BY <1>1, TypesOf
<1> QED
  BY <1>1, <1>2, <1>3, QuietStep

\* A step of a flush that writes at most the Arrow file of the current WAL
LEMMA FlushStepSound ==
  ASSUME GInv, GInv', Sound, FlushWal \/ OpenNext \/ WriteArrowIpc \/ IndexRows \/ DeleteWal
  PROVE  Sound'
<1>1. UNCHANGED <<parquet, parquetFilePaths, ipcFilePaths, ipcFiles, rolling, prebatch, pushed, flight,
                  currentWalId, pendingDeletions>>
  BY DEF FlushWal, OpenNext, WriteArrowIpc, IndexRows, DeleteWal, diskVars, ipcVars, parquetVars,
         walVars, readerVars
<1>2. \/ op = "idle" /\ op' = "open" /\ arrow' = arrow
      \/ op = "open" /\ op' = "rotate" /\ arrow' = arrow
      \/ op = "write_ipc" /\ op' = "index" /\ arrow' = [arrow EXCEPT ![currentWalId] = flight.batch]
      \/ op = "index" /\ op' = "delete_wal" /\ arrow' = arrow
      \/ op = "delete_wal" /\ op' = "track" /\ arrow' = arrow
  BY DEF FlushWal, OpenNext, WriteArrowIpc, IndexRows, DeleteWal, diskVars
<1>3. op \in Written => currentWalId \in WalIds
  BY TypesOf DEF Written, GInv, Writing, Flushing, Rotated
<1>4. op = "write_ipc" => currentWalId \in WalIds /\ arrow \in Files
  BY TypesOf DEF GInv, Writing, Flushing, Rotated
<1>5. op = "write_ipc" => arrow'[currentWalId] = flight.batch
  BY <1>2, <1>4 DEF Files
<1>6. InHand'
  BY <1>1, <1>2, <1>5 DEF Sound, InHand, RollsApart, Rotated, Written
<1>7. \A b \in Range(ipcFilePaths) : arrow'[b] = arrow[b]
  <2> SUFFICES ASSUME NEW b \in Range(ipcFilePaths) PROVE arrow'[b] = arrow[b]
    OBVIOUS
  <2>1. b < currentWalId /\ b \in WalIds
    BY PathsAreIds DEF GInv, Older, Types
  <2>2. b # currentWalId
    BY <2>1, TypesOf
  <2> QED
    BY <1>2, <2>2, <2>1, TypesOf DEF Files
<1>8. currentWalId <= currentWalId'
  BY <1>1, TypesOf
<1>9. op' # "roll"
  BY <1>2
<1> QED
  BY <1>1, <1>6, <1>7, <1>8, <1>9, QuietStep

\* Nothing that is shown goes with the queue, and an id is only skipped.
LEMMA QueueFailsSound ==
  ASSUME GInv, GInv', Sound, EnsureFails \/ WriterFails
  PROVE  Sound'
<1>1. UNCHANGED <<parquet, parquetFilePaths, ipcFilePaths, ipcFiles, rolling, prebatch, pushed, flight, arrow,
                  pendingDeletions, op>>
  BY DEF EnsureFails, WriterFails, diskVars, ipcVars, parquetVars, walVars, readerVars
<1>2. op \notin Written \/ currentWalId' = currentWalId
  BY DEF EnsureFails, WriterFails, walVars, Written
<1>3. InHand'
  BY <1>1, <1>2 DEF Sound, InHand, RollsApart
<1>4. currentWalId <= currentWalId'
  BY TypesOf DEF EnsureFails, WriterFails, walVars
<1> QED
  BY <1>1, <1>3, <1>4, QuietStep

LEMMA SqlProviderSound ==
  ASSUME GInv, GInv', Sound, NEW p \in Providers, SqlProvider(p)
  PROVE  Sound'
<1>1. UNCHANGED <<parquet, parquetFilePaths, ipcFilePaths, ipcFiles, rolling, prebatch, pushed, flight, arrow,
                  currentWalId, pendingDeletions, op>>
  BY DEF SqlProvider, diskVars, ipcVars, parquetVars, walVars
<1>2. InHand'
  BY <1>1 DEF Sound, InHand, RollsApart
<1>3. currentWalId <= currentWalId'
  BY <1>1, TypesOf
<1> QED
  BY <1>1, <1>2, <1>3, QuietStep

\* Only a file marked for deletion goes with its last reader.
LEMMA DropGuardSound ==
  ASSUME GInv, GInv', Sound, NEW p \in Providers, NEW b \in WalIds, DropGuard(p, b)
  PROVE  Sound'
<1>1. UNCHANGED <<parquet, parquetFilePaths, ipcFilePaths, ipcFiles, rolling, prebatch, pushed, flight,
                  currentWalId, op>>
  BY DEF DropGuard, ipcVars, parquetVars, walVars
<1>2. /\ pendingDeletions' \subseteq pendingDeletions
      /\ \A n \in WalIds : arrow'[n] = arrow[n] \/ n \in pendingDeletions
  BY TypesOf DEF DropGuard, IsDeferred, Files
<1>3. op \in Written => currentWalId \in WalIds
  BY TypesOf DEF Written, GInv, Writing, Flushing, Rotated
<1>4. currentWalId \notin pendingDeletions
  <2>1. ASSUME currentWalId \in pendingDeletions PROVE currentWalId < currentWalId
    BY <2>1, MarkedAreOld
  <2>2. ~(currentWalId < currentWalId)
    BY TypesOf
  <2> QED
    BY <2>1, <2>2
<1>5. InHand'
  BY <1>1, <1>2, <1>3, <1>4 DEF Sound, InHand, RollsApart
<1>6. \A n \in Range(ipcFilePaths) : arrow'[n] = arrow[n]
  BY <1>2, PathsAreIds DEF Sound, ArrowPaths, GInv, Types
<1>7. currentWalId <= currentWalId'
  BY <1>1, TypesOf
<1> QED
  BY <1>1, <1>2, <1>5, <1>6, <1>7, QuietStep

LEMMA StartFreshSound ==
  ASSUME GInv, GInv', Sound, StartFresh
  PROVE  Sound'
<1>1. UNCHANGED <<parquet, parquetFilePaths, ipcFilePaths, ipcFiles, rolling, prebatch, pushed, flight, arrow,
                  currentWalId, pendingDeletions, op>>
  BY DEF StartFresh, diskVars, ipcVars, parquetVars, walVars, readerVars
<1>2. InHand'
  BY <1>1 DEF Sound, InHand, RollsApart
<1>3. currentWalId <= currentWalId'
  BY <1>1, TypesOf
<1> QED
  BY <1>1, <1>2, <1>3, QuietStep

LEMMA StutterSound ==
  ASSUME GInv, GInv', Sound, UNCHANGED vars
  PROVE  Sound'
<1>1. UNCHANGED <<parquet, parquetFilePaths, ipcFilePaths, ipcFiles, rolling, prebatch, pushed, flight, arrow,
                  currentWalId, pendingDeletions, op>>
  BY DEF vars, diskVars, ipcVars, parquetVars, walVars, readerVars
<1>2. InHand'
  BY <1>1 DEF Sound, InHand, RollsApart
<1>3. currentWalId <= currentWalId'
  BY <1>1, TypesOf
<1> QED
  BY <1>1, <1>2, <1>3, QuietStep

\* c has the rows of each place before a step, and d those after it.
Compared(c, d) ==
  /\ \A n \in WalIds :
       /\ c[<<"parquet", n>>] = IF n \in Range(parquetFilePaths) THEN parquet[n] ELSE <<>>
       /\ c[<<"arrow", n>>] = IF n \in Range(ipcFilePaths) THEN arrow[n] ELSE <<>>
       /\ d[<<"parquet", n>>] = IF n \in Range(parquetFilePaths') THEN parquet'[n] ELSE <<>>
       /\ d[<<"arrow", n>>] = IF n \in Range(ipcFilePaths') THEN arrow'[n] ELSE <<>>
  /\ c[<<"rolling", 0>>] = rolling.rows /\ d[<<"rolling", 0>>] = rolling'.rows
  /\ c[<<"flight", 0>>] = flight.batch /\ d[<<"flight", 0>>] = flight'.batch
  /\ c[<<"memory", 0>>] = prebatch /\ d[<<"memory", 0>>] = prebatch'

\* The rows at each place before and after a step, and what is left to show of them
LEMMA BeforeAndAfter ==
  ASSUME GInv, GInv', Sound, ArrowPaths', ParquetPaths', InHand'
  PROVE  \E c \in [Places -> Seq(Rows)], d \in [Places -> Seq(Rows)] :
           /\ Apart(c, Len(pushed))
           /\ Apart(d, Len(pushed')) => Sound'
           /\ Compared(c, d)
<1>1. Holds(Contents)
  BY ContentsHold DEF Sound
<1>2. Holds(Contents)'
  BY ContentsHoldNext
<1>3. PICK c : c = Contents
  OBVIOUS
<1>4. PICK d : d = Contents'
  OBVIOUS
<1>5. c \in [Places -> Seq(Rows)] /\ d \in [Places -> Seq(Rows)]
  BY <1>1, <1>2, <1>3, <1>4 DEF Holds
<1>6. Apart(c, Len(pushed))
  BY <1>3 DEF Sound
<1>7. Apart(d, Len(pushed')) => Sound'
  BY <1>4 DEF Sound, Apart
<1>8. \A n \in WalIds :
        /\ c[<<"parquet", n>>] = IF n \in Range(parquetFilePaths) THEN parquet[n] ELSE <<>>
        /\ c[<<"arrow", n>>] = IF n \in Range(ipcFilePaths) THEN arrow[n] ELSE <<>>
        /\ d[<<"parquet", n>>] = IF n \in Range(parquetFilePaths') THEN parquet'[n] ELSE <<>>
        /\ d[<<"arrow", n>>] = IF n \in Range(ipcFilePaths') THEN arrow'[n] ELSE <<>>
  BY <1>1, <1>2, <1>3, <1>4 DEF Holds
<1>9. /\ c[<<"rolling", 0>>] = rolling.rows /\ d[<<"rolling", 0>>] = rolling'.rows
      /\ c[<<"flight", 0>>] = flight.batch /\ d[<<"flight", 0>>] = flight'.batch
      /\ c[<<"memory", 0>>] = prebatch /\ d[<<"memory", 0>>] = prebatch'
  BY <1>1, <1>2, <1>3, <1>4 DEF Holds
<1> QED
  BY <1>5, <1>6, <1>7, <1>8, <1>9 DEF Compared

\* Where a row may be
LEMMA EachPlace ==
  ASSUME NEW p \in Places
  PROVE  \/ \E n \in WalIds : p = <<"parquet", n>>
         \/ \E n \in WalIds : p = <<"arrow", n>>
         \/ p = <<"rolling", 0>> \/ p = <<"flight", 0>> \/ p = <<"memory", 0>>
BY PlacesAre

\* The places of a row are different.
LEMMA PlacesDiffer ==
  /\ <<"rolling", 0>> # <<"flight", 0>> /\ <<"rolling", 0>> # <<"memory", 0>> /\ <<"flight", 0>> # <<"memory", 0>>
  /\ \A n, m : <<"parquet", n>> # <<"arrow", m>>
  /\ \A n : /\ <<"parquet", n>> # <<"rolling", 0>> /\ <<"parquet", n>> # <<"flight", 0>>
            /\ <<"parquet", n>> # <<"memory", 0>>
            /\ <<"arrow", n>> # <<"rolling", 0>> /\ <<"arrow", n>> # <<"flight", 0>>
            /\ <<"arrow", n>> # <<"memory", 0>>
  /\ \A n, m : (<<"parquet", n>> = <<"parquet", m>> => n = m) /\ (<<"arrow", n>> = <<"arrow", m>> => n = m)
OBVIOUS

\* The same rows at every place but those of S
AlikeBut(c, d, S) ==
  /\ \A n \in WalIds : /\ <<"parquet", n>> \in S \/ d[<<"parquet", n>>] = c[<<"parquet", n>>]
                       /\ <<"arrow", n>> \in S \/ d[<<"arrow", n>>] = c[<<"arrow", n>>]
  /\ <<"rolling", 0>> \in S \/ d[<<"rolling", 0>>] = c[<<"rolling", 0>>]
  /\ <<"flight", 0>> \in S \/ d[<<"flight", 0>>] = c[<<"flight", 0>>]
  /\ <<"memory", 0>> \in S \/ d[<<"memory", 0>>] = c[<<"memory", 0>>]

LEMMA ElsewhereSame ==
  ASSUME NEW c, NEW d, NEW S, AlikeBut(c, d, S)
  PROVE  \A p \in Places \ S : d[p] = c[p]
<1> SUFFICES ASSUME NEW p \in Places \ S PROVE d[p] = c[p]
  OBVIOUS
<1>1. CASE \E n \in WalIds : p = <<"parquet", n>>
  <2>1. PICK n \in WalIds : p = <<"parquet", n>>
    BY <1>1
  <2> QED
    BY <2>1 DEF AlikeBut
<1>2. CASE \E n \in WalIds : p = <<"arrow", n>>
  <2>1. PICK n \in WalIds : p = <<"arrow", n>>
    BY <1>2
  <2> QED
    BY <2>1 DEF AlikeBut
<1>3. CASE p \in {<<"rolling", 0>>, <<"flight", 0>>, <<"memory", 0>>}
  BY <1>3 DEF AlikeBut
<1> QED
  BY <1>1, <1>2, <1>3, EachPlace

LEMMA PushRecordSound ==
  ASSUME GInv, GInv', Sound, NEW i \in Indices, PushRecord(i) \/ PushFails(i)
  PROVE  Sound'
<1> DEFINE row == <<i, Len(pushed) + 1>>
<1>1. /\ UNCHANGED <<parquet, parquetFilePaths, ipcFilePaths, ipcFiles, rolling, flight, arrow, pendingDeletions>>
      /\ op = "idle" /\ op' \in {"open", "idle"}
      /\ prebatch' = Append(prebatch, row) /\ pushed' = Append(pushed, row)
      /\ currentWalId' \in {currentWalId, currentWalId + 1} /\ Len(pushed) < MaxRows
  BY DEF PushRecord, PushFails, diskVars, ipcVars, parquetVars, readerVars
<1>2. ArrowPaths'
  BY <1>1 DEF Sound, ArrowPaths, Pending, Once
<1>3. ParquetPaths'
  <2>1. \A q \in Range(parquetFilePaths) : q \in Nat
    <3>1. parquetFilePaths \in Seq(WalIds)
      BY DEF Sound, ParquetPaths
    <3> QED
      BY <3>1, RangeOfSeq, TypesOf
  <2>2. \A q \in Range(parquetFilePaths) :
          (q <= currentWalId => q <= currentWalId') /\ (q < currentWalId => q < currentWalId')
    BY <1>1, <2>1, TypesOf
  <2> QED
    BY <1>1, <2>2 DEF Sound, ParquetPaths, Once
<1>4. InHand'
  BY <1>1 DEF Sound, InHand, RollsApart, Rotated, Written
<1>5. PICK c \in [Places -> Seq(Rows)], d \in [Places -> Seq(Rows)] :
        /\ Apart(c, Len(pushed))
        /\ Apart(d, Len(pushed')) => Sound'
        /\ Compared(c, d)
  BY <1>2, <1>3, <1>4, BeforeAndAfter
<1>6. \A p \in Places \ {<<"memory", 0>>} : d[p] = c[p]
  <2>1. AlikeBut(c, d, {<<"memory", 0>>})
    BY <1>1, <1>5 DEF Compared, AlikeBut
  <2> QED
    BY <2>1, ElsewhereSame
<1>7. Len(pushed) \in Nat /\ row \in Rows /\ row[2] = Len(pushed) + 1 /\ Len(pushed') = Len(pushed) + 1
  BY <1>1, TypesOf, Constants DEF Rows
<1>8. <<"memory", 0>> \in Places /\ d[<<"memory", 0>>] = Append(c[<<"memory", 0>>], row)
  BY <1>1, <1>5, PlacesAre DEF Compared
<1>9. Apart(d, Len(pushed) + 1)
  BY <1>5, <1>6, <1>7, <1>8, ApartPushed
<1> QED
  BY <1>5, <1>7, <1>9

\* rotate() hands the rows in memory to the flush.
LEMMA RotateSound ==
  ASSUME GInv, GInv', Sound, Rotate
  PROVE  Sound'
<1>1. /\ UNCHANGED <<parquet, parquetFilePaths, ipcFilePaths, ipcFiles, rolling, arrow, pendingDeletions,
                     currentWalId, pushed>>
      /\ op = "rotate" /\ op' = "write_ipc" /\ flight'.batch = prebatch /\ prebatch' = <<>>
  BY DEF Rotate, NewPreBatch, diskVars, ipcVars, parquetVars, readerVars
<1>2. ArrowPaths'
  BY <1>1 DEF Sound, ArrowPaths, Pending, Once
<1>3. ParquetPaths'
  BY <1>1 DEF Sound, ParquetPaths, Once
<1>4. InHand' /\ flight.batch = <<>>
  BY <1>1 DEF Sound, InHand, RollsApart, Rotated, Written
<1>5. PICK c \in [Places -> Seq(Rows)], d \in [Places -> Seq(Rows)] :
        /\ Apart(c, Len(pushed))
        /\ Apart(d, Len(pushed')) => Sound'
        /\ Compared(c, d)
  BY <1>2, <1>3, <1>4, BeforeAndAfter
<1>6. \A p \in Places \ {<<"memory", 0>>, <<"flight", 0>>} : d[p] = c[p]
  <2>1. AlikeBut(c, d, {<<"memory", 0>>, <<"flight", 0>>})
    BY <1>1, <1>5 DEF Compared, AlikeBut
  <2> QED
    BY <2>1, ElsewhereSame
<1>7. d[<<"memory", 0>>] = <<>> /\ d[<<"flight", 0>>] = c[<<"flight", 0>>] \o c[<<"memory", 0>>]
  <2>1. PICK m \in Seq(Rows) : m = prebatch
    BY TypesOf
  <2>2. m = <<>> \o m
    OBVIOUS
  <2> QED
    BY <1>1, <1>4, <1>5, <2>1, <2>2 DEF Compared
<1>8. Apart(d, Len(pushed))
  <2>1. <<"memory", 0>> \in Places /\ <<"flight", 0>> \in Places /\ <<"memory", 0>> # <<"flight", 0>>
    BY PlacesAre, PlacesDiffer
  <2> QED
    BY <1>5, <1>6, <1>7, <2>1, ApartMoved
<1> QED
  BY <1>1, <1>5, <1>8

\* The Arrow file is listed, with the rows of the flush.
LEMMA TrackSound ==
  ASSUME GInv, GInv', Sound, Track
  PROVE  Sound'
<1> DEFINE cur == currentWalId
           files == Append(ipcFiles, cur)
           full == Len(files) >= IpcCapacity
<1>1. /\ UNCHANGED <<parquet, parquetFilePaths, arrow, pendingDeletions, pushed, prebatch>>
      /\ op = "track" /\ op' \in {"roll", "idle"} /\ flight'.batch = <<>>
      /\ ipcFilePaths' = Append(ipcFilePaths, cur) /\ currentWalId' = cur + 1
  BY DEF Track, NoFlight, diskVars, parquetVars, readerVars
<1>2. \/ ipcFiles' = files /\ rolling' = rolling /\ op' = "idle"
      \/ ipcFiles' = <<>> /\ rolling' = [NoRollout EXCEPT !.files = files] /\ op' = "roll"
  BY DEF Track
<1>3. cur \in WalIds /\ cur \in Nat /\ ipcFilePaths \in Seq(WalIds) /\ ipcFiles \in Seq(WalIds)
  BY <1>1, TypesOf DEF GInv, Writing, Flushing, Rotated, Types, RolloutTypes
<1>4. cur \notin Range(ipcFilePaths) /\ cur \notin pendingDeletions
  <2>1. ~(cur < cur)
    BY <1>3
  <2> QED
    BY <2>1, MarkedAreOld DEF GInv, Older
<1>5. arrow[cur] = flight.batch /\ rolling = NoRollout
  BY <1>1 DEF Sound, InHand, Written, RollsApart
<1>6. arrow[cur] # None
  BY <1>5, TypesOf, Constants
<1>7. Range(ipcFilePaths') = Range(ipcFilePaths) \cup {cur} /\ Range(files) = Range(ipcFiles) \cup {cur}
  BY <1>1, <1>3, RangeOfAppend
<1>8. files \in Seq(WalIds) /\ Once(files)
  BY <1>3, <1>4, OnceMore, RangeOfAppend DEF Sound, ArrowPaths
<1>9. ArrowPaths'
  <2>1. \A b \in Range(ipcFilePaths') : arrow'[b] # None /\ b \notin pendingDeletions'
    BY <1>1, <1>4, <1>6, <1>7 DEF Sound, ArrowPaths
  <2>2. Once(<<>>) /\ Range(<<>>) = {}
    <3>1. Len(<<>>) = 0
      OBVIOUS
    <3> QED
      BY <3>1, RangeOfEmpty DEF Once
  <2>3. Pending \subseteq Range(ipcFilePaths) /\ Range(ipcFiles) \subseteq Range(ipcFilePaths)
    BY DEF Sound, ArrowPaths
  <2>4. CASE ipcFiles' = files /\ rolling' = rolling
    <3>1. Pending' = Pending
      BY <2>4 DEF Pending
    <3> HIDE DEF files
    <3> QED
      BY <1>7, <1>8, <2>1, <2>3, <2>4, <3>1 DEF Sound, ArrowPaths, Once
  <2>5. CASE ipcFiles' = <<>> /\ rolling' = [NoRollout EXCEPT !.files = files]
    <3>1. rolling'.files = files /\ rolling'.next = 1
      BY <2>5 DEF NoRollout
    <3>2. Pending' = Range(files)
      <4> HIDE DEF files
      <4> QED
        BY <1>8, <3>1 DEF Pending, Range
    <3> HIDE DEF files
    <3> QED
      BY <1>7, <1>8, <2>1, <2>2, <2>3, <2>5, <3>1, <3>2 DEF ArrowPaths, Once
  <2> QED
    BY <1>2, <2>4, <2>5
<1>10. ParquetPaths'
  <2>1. \A q \in Range(parquetFilePaths) : q \in Nat
    <3>1. parquetFilePaths \in Seq(WalIds)
      BY DEF Sound, ParquetPaths
    <3> QED
      BY <3>1, RangeOfSeq, TypesOf
  <2>2. \A q \in Range(parquetFilePaths) : q <= cur => q <= cur + 1 /\ q < cur + 1
    BY <1>3, <2>1
  <2> QED
    BY <1>1, <2>2 DEF Sound, ParquetPaths, Once
<1>11. InHand'
  BY <1>1, <1>2, <1>5 DEF InHand, RollsApart, Rotated, Written
<1>12. PICK c \in [Places -> Seq(Rows)], d \in [Places -> Seq(Rows)] :
         /\ Apart(c, Len(pushed))
         /\ Apart(d, Len(pushed')) => Sound'
         /\ Compared(c, d)
  BY <1>9, <1>10, <1>11, BeforeAndAfter
<1>13. rolling'.rows = rolling.rows
  BY <1>2, <1>5 DEF NoRollout
<1>14. \A p \in Places \ {<<"flight", 0>>, <<"arrow", cur>>} : d[p] = c[p]
  <2>1. AlikeBut(c, d, {<<"flight", 0>>, <<"arrow", cur>>})
    <3>1. \A n \in WalIds : n # cur => d[<<"arrow", n>>] = c[<<"arrow", n>>]
      BY <1>1, <1>7, <1>12 DEF Compared
    <3> QED
      BY <1>1, <1>12, <1>13, <3>1 DEF Compared, AlikeBut
  <2> QED
    BY <2>1, ElsewhereSame
<1>15. d[<<"flight", 0>>] = <<>> /\ d[<<"arrow", cur>>] = c[<<"arrow", cur>>] \o c[<<"flight", 0>>]
  <2>1. PICK m \in Seq(Rows) : m = flight.batch
    BY TypesOf
  <2>2. m = <<>> \o m
    OBVIOUS
  <2>3. c[<<"arrow", cur>>] = <<>> /\ d[<<"arrow", cur>>] = flight.batch /\ c[<<"flight", 0>>] = flight.batch
    BY <1>1, <1>3, <1>4, <1>5, <1>7, <1>12 DEF Compared
  <2> QED
    BY <1>1, <1>12, <2>1, <2>2, <2>3 DEF Compared
<1>16. Apart(d, Len(pushed))
  <2>1. <<"arrow", cur>> \in Places /\ <<"flight", 0>> \in Places /\ <<"arrow", cur>> # <<"flight", 0>>
    BY <1>3, PlacesAre, PlacesDiffer
  <2> QED
    BY <1>12, <1>14, <1>15, <2>1, ApartMoved
<1> QED
  BY <1>1, <1>12, <1>16

\* A rollout takes the list.
LEMMA RolloutToParquetSound ==
  ASSUME GInv, GInv', Sound, RolloutToParquet
  PROVE  Sound'
<1>1. /\ UNCHANGED <<parquet, parquetFilePaths, ipcFilePaths, arrow, pendingDeletions, currentWalId, pushed,
                     prebatch, flight>>
      /\ op = "idle" /\ op' = "roll" /\ ipcFiles # <<>> /\ ipcFiles' = <<>>
      /\ rolling' = [NoRollout EXCEPT !.files = ipcFiles]
  BY DEF RolloutToParquet, walVars, diskVars, parquetVars, readerVars
<1>2. rolling'.files = ipcFiles /\ rolling'.next = 1 /\ rolling'.rows = <<>> /\ rolling.rows = <<>>
  BY <1>1 DEF NoRollout, Sound, InHand, RollsApart
<1>3. ArrowPaths'
  <2>1. Pending' = Range(ipcFiles)
    BY <1>2, TypesOf DEF Pending, Range
  <2>2. Once(<<>>) /\ Range(<<>>) = {}
    <3>1. Len(<<>>) = 0
      OBVIOUS
    <3> QED
      BY <3>1, RangeOfEmpty DEF Once
  <2> QED
    BY <1>1, <1>2, <2>1, <2>2 DEF Sound, ArrowPaths, Once
<1>4. ParquetPaths'
  BY <1>1 DEF Sound, ParquetPaths, Once
<1>5. InHand'
  BY <1>1 DEF Sound, InHand, RollsApart, Rotated, Written
<1>6. PICK c \in [Places -> Seq(Rows)], d \in [Places -> Seq(Rows)] :
        /\ Apart(c, Len(pushed))
        /\ Apart(d, Len(pushed')) => Sound'
        /\ Compared(c, d)
  BY <1>3, <1>4, <1>5, BeforeAndAfter
<1>7. \A p \in Places \ {} : d[p] = c[p]
  <2>1. AlikeBut(c, d, {})
    BY <1>1, <1>2, <1>6 DEF Compared, AlikeBut
  <2> QED
    BY <2>1, ElsewhereSame
<1>8. Apart(d, Len(pushed))
  BY <1>6, <1>7, ApartLess
<1> QED
  BY <1>1, <1>6, <1>8

\* The rows of an Arrow file go to the rollout, and its path goes from the list.
LEMMA RollFileSound ==
  ASSUME GInv, GInv', Sound, RollFile
  PROVE  Sound'
<1>1. PICK b : b = rolling.files[rolling.next]
  OBVIOUS
<1>2. /\ UNCHANGED <<parquet, parquetFilePaths, ipcFiles, currentWalId, pushed, prebatch, flight, op>>
      /\ op = "roll" /\ rolling.next <= Len(rolling.files)
      /\ rolling'.files = rolling.files /\ rolling'.next = rolling.next + 1
      /\ arrow[b] # None => rolling'.rows = rolling.rows \o arrow[b]
                            /\ ipcFilePaths' = RemoveFirst(ipcFilePaths, b)
      /\ \A n \in WalIds : n # b => arrow'[n] = arrow[n]
      /\ pendingDeletions' \subseteq pendingDeletions \cup {b}
  BY <1>1, TypesOf DEF RollFile, walVars, parquetVars, Files, GInv, Types, RolloutTypes
<1>3. PICK files \in Seq(WalIds), next \in Nat : files = rolling.files /\ next = rolling.next
  BY TypesOf
<1>4. next \in 1 .. Len(files)
  BY <1>2, <1>3 DEF GInv, Types, RolloutTypes
<1>5. b \in WalIds /\ b \in Pending
  BY <1>1, <1>3, <1>4 DEF Pending
<1>6. b \in Range(ipcFilePaths) /\ arrow[b] # None /\ arrow[b] \in Seq(Rows)
  BY <1>5, TypesOf DEF Sound, ArrowPaths, Files, Optional
<1>7. Range(ipcFilePaths') = Range(ipcFilePaths) \ {b} /\ Range(ipcFilePaths) \subseteq WalIds
  <2>1. PICK paths \in Seq(WalIds) : paths = ipcFilePaths
    BY DEF GInv, Types, RolloutTypes
  <2>2. Once(paths)
    BY <2>1 DEF GInv, Older
  <2>3. Range(RemoveFirst(paths, b)) = Range(paths) \ {b}
    BY <2>2, PathDropped
  <2> QED
    BY <1>2, <1>6, <2>1, <2>3, RangeOfSeq
<1>8. Pending' \subseteq Pending \ {b} /\ ipcFiles = <<>>
  <2>1. Pending = {files[k] : k \in next .. Len(files)} /\ Pending' = {files[k] : k \in next + 1 .. Len(files)}
    BY <1>2, <1>3 DEF Pending
  <2>2. Once(files)
    BY <1>3 DEF Sound, ArrowPaths
  <2>3. \A k \in next + 1 .. Len(files) : k \in next .. Len(files) /\ files[k] # files[next]
    BY <1>4, <2>2 DEF Once
  <2> QED
    BY <1>1, <1>2, <1>3, <2>1, <2>3 DEF Sound, InHand, RollsApart
<1>9. ArrowPaths'
  <2>1. Range(<<>>) = {}
    BY RangeOfEmpty
  <2> QED
    BY <1>2, <1>7, <1>8, <2>1 DEF Sound, ArrowPaths, Once
<1>10. ParquetPaths'
  BY <1>2 DEF Sound, ParquetPaths, Once
<1>11. InHand'
  BY <1>2 DEF Sound, InHand, RollsApart, Rotated, Written
<1>12. PICK c \in [Places -> Seq(Rows)], d \in [Places -> Seq(Rows)] :
         /\ Apart(c, Len(pushed))
         /\ Apart(d, Len(pushed')) => Sound'
         /\ Compared(c, d)
  BY <1>9, <1>10, <1>11, BeforeAndAfter
<1>13. \A p \in Places \ {<<"arrow", b>>, <<"rolling", 0>>} : d[p] = c[p]
  <2>1. AlikeBut(c, d, {<<"arrow", b>>, <<"rolling", 0>>})
    <3>1. \A n \in WalIds : n # b => d[<<"arrow", n>>] = c[<<"arrow", n>>]
      BY <1>2, <1>7, <1>12 DEF Compared
    <3> QED
      BY <1>2, <1>12, <3>1 DEF Compared, AlikeBut
  <2> QED
    BY <2>1, ElsewhereSame
<1>14. d[<<"arrow", b>>] = <<>> /\ d[<<"rolling", 0>>] = c[<<"rolling", 0>>] \o c[<<"arrow", b>>]
  BY <1>2, <1>5, <1>6, <1>7, <1>12 DEF Compared
<1>15. Apart(d, Len(pushed))
  <2>1. <<"arrow", b>> \in Places /\ <<"rolling", 0>> \in Places /\ <<"arrow", b>> # <<"rolling", 0>>
    BY <1>5, PlacesAre, PlacesDiffer
  <2> QED
    BY <1>12, <1>13, <1>14, <2>1, ApartMoved
<1> QED
  BY <1>2, <1>12, <1>15

\* The rows of the rollout go to a Parquet file that was not listed.
LEMMA WriteParquetSound ==
  ASSUME GInv, GInv', Sound, WriteParquet
  PROVE  Sound'
<1> DEFINE cur == currentWalId
<1>1. /\ UNCHANGED <<arrow, ipcFiles, ipcFilePaths, pendingDeletions, currentWalId, pushed, prebatch, flight>>
      /\ op = "roll" /\ op' = "idle" /\ rolling' = NoRollout
      /\ rolling.rows # <<>> => /\ parquet' = [parquet EXCEPT ![cur] = rolling.rows]
                                /\ parquetFilePaths' = Append(parquetFilePaths, cur)
      /\ rolling.rows = <<>> => parquet' = parquet /\ parquetFilePaths' = parquetFilePaths
  BY DEF WriteParquet, walVars, ipcVars, readerVars
<1>2. cur \in WalIds /\ cur \in Nat /\ parquetFilePaths \in Seq(WalIds) /\ Once(parquetFilePaths)
  BY <1>1, TypesOf DEF GInv, Writing, Sound, ParquetPaths
<1>3. cur \notin Range(parquetFilePaths)
  <2>1. ~(cur < cur)
    BY <1>2
  <2> QED
    BY <1>1, <2>1 DEF Sound, ParquetPaths
<1>4. rolling.rows # <<>> => /\ Range(parquetFilePaths') = Range(parquetFilePaths) \cup {cur}
                             /\ parquetFilePaths' \in Seq(WalIds) /\ Once(parquetFilePaths')
                             /\ parquet'[cur] = rolling.rows
                             /\ \A n \in WalIds : n # cur => parquet'[n] = parquet[n]
  <2>1. rolling.rows # <<>> => /\ Range(parquetFilePaths') = Range(parquetFilePaths) \cup {cur}
                               /\ parquetFilePaths' \in Seq(WalIds) /\ Once(parquetFilePaths')
    <3>1. PICK q \in Seq(WalIds), n \in WalIds : q = parquetFilePaths /\ n = cur
      BY <1>2
    <3>2. Append(q, n) \in Seq(WalIds) /\ Range(Append(q, n)) = Range(q) \cup {n}
      BY RangeOfAppend
    <3>3. Once(Append(q, n))
      BY <1>2, <1>3, <3>1, OnceMore
    <3> QED
      BY <1>1, <3>1, <3>2, <3>3
  <2> QED
    BY <1>1, <1>2, <2>1, TypesOf DEF Files
<1>5. rolling'.files = <<>> /\ rolling'.next = 1 /\ rolling'.rows = <<>> /\ ipcFiles = <<>>
  BY <1>1 DEF NoRollout, Sound, InHand, RollsApart
<1>6. ArrowPaths'
  <2>1. Pending' = {}
    BY <1>5 DEF Pending
  <2>2. Once(<<>>) /\ Range(<<>>) = {}
    <3>1. Len(<<>>) = 0
      OBVIOUS
    <3> QED
      BY <3>1, RangeOfEmpty DEF Once
  <2> QED
    BY <1>1, <1>5, <2>1, <2>2 DEF Sound, ArrowPaths, Once
<1>7. ParquetPaths'
  <2>1. CASE rolling.rows # <<>>
    <3>1. rolling.rows # None
      BY TypesOf, Constants
    <3>2. cur <= cur
      BY <1>2
    <3>3. Range(parquetFilePaths) \subseteq WalIds
      BY <1>2, RangeOfSeq
    <3>4. \A q \in Range(parquetFilePaths') : parquet'[q] # None /\ q <= currentWalId'
      BY <1>1, <1>3, <1>4, <2>1, <3>1, <3>2, <3>3 DEF Sound, ParquetPaths
    <3> QED
      BY <1>1, <1>4, <1>5, <2>1, <3>4 DEF ParquetPaths, Once
  <2>2. CASE rolling.rows = <<>>
    BY <1>1, <2>2 DEF Sound, ParquetPaths, Once
  <2> QED
    BY <2>1, <2>2
<1>8. InHand'
  BY <1>1 DEF Sound, InHand, RollsApart, Rotated, Written
<1>9. PICK c \in [Places -> Seq(Rows)], d \in [Places -> Seq(Rows)] :
        /\ Apart(c, Len(pushed))
        /\ Apart(d, Len(pushed')) => Sound'
        /\ Compared(c, d)
  BY <1>6, <1>7, <1>8, BeforeAndAfter
<1>10. CASE rolling.rows = <<>>
  <2>1. AlikeBut(c, d, {})
    BY <1>1, <1>5, <1>9, <1>10 DEF Compared, AlikeBut
  <2>2. \A p \in Places : d[p] = c[p]
    BY <2>1, ElsewhereSame
  <2> QED
    BY <1>1, <1>9, <2>2, ApartLess
<1>11. CASE rolling.rows # <<>>
  <2>1. AlikeBut(c, d, {<<"rolling", 0>>, <<"parquet", cur>>})
    <3>1. \A n \in WalIds : n # cur => d[<<"parquet", n>>] = c[<<"parquet", n>>]
      BY <1>4, <1>9, <1>11 DEF Compared
    <3> QED
      BY <1>1, <1>9, <3>1 DEF Compared, AlikeBut
  <2>2. \A p \in Places \ {<<"rolling", 0>>, <<"parquet", cur>>} : d[p] = c[p]
    BY <2>1, ElsewhereSame
  <2>3. d[<<"rolling", 0>>] = <<>> /\ d[<<"parquet", cur>>] = c[<<"parquet", cur>>] \o c[<<"rolling", 0>>]
    <3>1. PICK m \in Seq(Rows) : m = rolling.rows
      BY TypesOf
    <3>2. m = <<>> \o m
      OBVIOUS
    <3>3. c[<<"parquet", cur>>] = <<>> /\ d[<<"parquet", cur>>] = rolling.rows
      BY <1>2, <1>3, <1>4, <1>9, <1>11 DEF Compared
    <3> QED
      BY <1>5, <1>9, <3>1, <3>2, <3>3 DEF Compared
  <2>4. <<"parquet", cur>> \in Places /\ <<"rolling", 0>> \in Places /\ <<"rolling", 0>> # <<"parquet", cur>>
    BY <1>2, PlacesAre, PlacesDiffer
  <2>5. Apart(d, Len(pushed))
    BY <1>9, <2>2, <2>3, <2>4, ApartMoved
  <2> QED
    BY <1>1, <1>9, <2>5
<1> QED
  BY <1>10, <1>11

\* An error or the end of the process only loses rows.
LEMMA FailSound ==
  ASSUME GInv, GInv', Sound, Fail
  PROVE  Sound'
<1>1. /\ UNCHANGED <<parquet, parquetFilePaths, arrow, ipcFiles, ipcFilePaths, pendingDeletions, currentWalId,
                     pushed, prebatch>>
      /\ op' = "idle" /\ rolling' = NoRollout /\ flight'.batch = <<>>
  BY DEF Fail, AfterError, NoFlight, diskVars, walVars, ipcVars, parquetVars, readerVars
<1>2. rolling'.files = <<>> /\ rolling'.next = 1 /\ rolling'.rows = <<>>
  BY <1>1 DEF NoRollout
<1>3. ArrowPaths'
  <2>1. Pending' = {}
    BY <1>2 DEF Pending
  <2>2. Once(<<>>)
    <3>1. Len(<<>>) = 0
      OBVIOUS
    <3> QED
      BY <3>1 DEF Once
  <2> QED
    BY <1>1, <1>2, <2>1, <2>2 DEF Sound, ArrowPaths, Once
<1>4. ParquetPaths'
  BY <1>1 DEF Sound, ParquetPaths, Once
<1>5. InHand'
  BY <1>1 DEF Sound, InHand, RollsApart, Rotated, Written
<1>6. PICK c \in [Places -> Seq(Rows)], d \in [Places -> Seq(Rows)] :
        /\ Apart(c, Len(pushed))
        /\ Apart(d, Len(pushed')) => Sound'
        /\ Compared(c, d)
  BY <1>3, <1>4, <1>5, BeforeAndAfter
<1>7. \A p \in Places \ {<<"rolling", 0>>, <<"flight", 0>>} : d[p] = c[p]
  <2>1. AlikeBut(c, d, {<<"rolling", 0>>, <<"flight", 0>>})
    BY <1>1, <1>6 DEF Compared, AlikeBut
  <2> QED
    BY <2>1, ElsewhereSame
<1>8. d[<<"rolling", 0>>] = <<>> /\ d[<<"flight", 0>>] = <<>>
  BY <1>1, <1>2, <1>6 DEF Compared
<1>9. \A p \in Places : d[p] = c[p] \/ d[p] = <<>>
  BY <1>7, <1>8
<1>10. Apart(d, Len(pushed))
  BY <1>6, <1>9, ApartLess
<1> QED
  BY <1>1, <1>6, <1>10

\* The rows a rotation had taken are gone.
LEMMA RotateFailsSound ==
  ASSUME GInv, GInv', Sound, RotateFails
  PROVE  Sound'
<1>1. /\ UNCHANGED <<parquet, parquetFilePaths, ipcFilePaths, ipcFiles, rolling, arrow, pendingDeletions,
                     currentWalId, pushed, flight>>
      /\ op = "rotate" /\ op' = "idle" /\ prebatch' = <<>>
  BY DEF RotateFails, NewPreBatch, diskVars, ipcVars, parquetVars, readerVars
<1>2. ArrowPaths'
  BY <1>1 DEF Sound, ArrowPaths, Pending, Once
<1>3. ParquetPaths'
  BY <1>1 DEF Sound, ParquetPaths, Once
<1>4. InHand'
  BY <1>1 DEF Sound, InHand, RollsApart, Rotated, Written
<1>5. PICK c \in [Places -> Seq(Rows)], d \in [Places -> Seq(Rows)] :
        /\ Apart(c, Len(pushed))
        /\ Apart(d, Len(pushed')) => Sound'
        /\ Compared(c, d)
  BY <1>2, <1>3, <1>4, BeforeAndAfter
<1>6. \A p \in Places \ {<<"memory", 0>>} : d[p] = c[p]
  <2>1. AlikeBut(c, d, {<<"memory", 0>>})
    BY <1>1, <1>5 DEF Compared, AlikeBut
  <2> QED
    BY <2>1, ElsewhereSame
<1>7. \A p \in Places : d[p] = c[p] \/ d[p] = <<>>
  BY <1>1, <1>5, <1>6 DEF Compared
<1>8. Apart(d, Len(pushed))
  BY <1>5, <1>7, ApartLess
<1> QED
  BY <1>1, <1>5, <1>8

LEMMA HaltSound ==
  ASSUME GInv, GInv', Sound, Halt
  PROVE  Sound'
<1>1. /\ UNCHANGED <<parquet, arrow, pushed>>
      /\ op' = "idle" /\ rolling' = NoRollout /\ flight'.batch = <<>>
      /\ ipcFiles' = <<>> /\ ipcFilePaths' = <<>> /\ parquetFilePaths' = <<>> /\ prebatch' = <<>>
  BY DEF Halt, NoFlight, diskVars
<1>2. rolling'.files = <<>> /\ rolling'.next = 1 /\ rolling'.rows = <<>>
  BY <1>1 DEF NoRollout
<1>3. Once(<<>>) /\ Range(<<>>) = {}
  <2>1. Len(<<>>) = 0
    OBVIOUS
  <2> QED
    BY <2>1, RangeOfEmpty DEF Once
<1>4. ArrowPaths'
  <2>1. Pending' = {}
    BY <1>2 DEF Pending
  <2> QED
    BY <1>1, <1>2, <1>3, <2>1 DEF ArrowPaths, Once
<1>5. ParquetPaths'
  BY <1>1, <1>3, Constants DEF ParquetPaths, Once
<1>6. InHand'
  BY <1>1 DEF InHand, RollsApart, Rotated, Written
<1>7. PICK c \in [Places -> Seq(Rows)], d \in [Places -> Seq(Rows)] :
        /\ Apart(c, Len(pushed))
        /\ Apart(d, Len(pushed')) => Sound'
        /\ Compared(c, d)
  BY <1>4, <1>5, <1>6, BeforeAndAfter
<1>8. \A p \in Places : d[p] = c[p] \/ d[p] = <<>>
  <2>1. PICK z \in [Places -> Seq(Rows)] : z = [p \in Places |-> <<>>]
    BY Constants
  <2>2. AlikeBut(z, d, {})
    BY <1>1, <1>2, <1>3, <1>7, <2>1, PlacesAre DEF Compared, AlikeBut
  <2>3. \A p \in Places : d[p] = z[p]
    BY <2>2, ElsewhereSame
  <2> QED
    BY <2>1, <2>3
<1>9. Apart(d, Len(pushed))
  BY <1>7, <1>8, ApartLess
<1> QED
  BY <1>1, <1>7, <1>9

\* A manager restored from a directory no error met and no fresh manager went over
LEMMA StartRestoredSound ==
  ASSUME GInv, GInv', Sound, DInv, Whole, KnownDirectory, StartRestored
  PROVE  Sound'
<1>1. /\ UNCHANGED <<wal, parquet, arrow, pushed, rolling, flight, pendingDeletions, op>>
      /\ ~up /\ currentWalId' = LastId
      /\ prebatch' = RecoveredRows /\ ipcFiles' = SortedIds(Existing(arrow))
      /\ ipcFilePaths' = SortedPaths(Existing(arrow)) /\ parquetFilePaths' = SortedPaths(Existing(parquet))
  BY DEF StartRestored, diskVars, readerVars
<1>2. op = "idle" /\ rolling = NoRollout /\ flight.batch = <<>> /\ pendingDeletions = {}
  BY <1>1 DEF GInv, Writing, Sound, InHand, RollsApart, Rotated, DInv, Listed, MarkedAreRead
<1>3. /\ ipcFiles' \in Seq(WalIds) /\ Range(ipcFiles') = Existing(arrow) /\ Once(ipcFiles')
      /\ Range(ipcFilePaths') = Existing(arrow)
      /\ parquetFilePaths' \in Seq(WalIds) /\ Range(parquetFilePaths') = Existing(parquet)
      /\ Once(parquetFilePaths')
      /\ (Existing(arrow) = {} => ipcFiles' = <<>>)
  BY <1>1, SortedLists DEF Existing
<1>4. rolling.files = <<>> /\ rolling.next = 1 /\ rolling.rows = <<>>
  BY <1>2 DEF NoRollout
<1>5. ArrowPaths'
  <2>1. Pending' = {}
    BY <1>1, <1>4 DEF Pending
  <2>2. Once(rolling.files)
    BY DEF Sound, ArrowPaths
  <2> QED
    BY <1>1, <1>2, <1>3, <2>1, <2>2 DEF ArrowPaths, Once, Existing
<1>6. ParquetPaths'
  <2>1. /\ LastId \in Nat
        /\ \A n \in WalIds : wal[n] # None => n <= LastId
        /\ \A n \in WalIds : arrow[n] # None => n < LastId
    BY LastIdOK, Constants DEF GInv, Types
  <2>2. ASSUME NEW q \in WalIds, parquet[q] # None PROVE q <= LastId
    <3>1. PICK m \in WalIds : m >= q /\ wal[m] # None
      BY <2>2 DEF DInv, Parquets, ParquetsHaveWal
    <3>2. m <= LastId /\ m \in Nat /\ q \in Nat
      BY <2>1, <3>1, TypesOf
    <3> QED
      BY <2>1, <3>1, <3>2
  <2>3. ASSUME NEW q \in WalIds, parquet[q] # None, ipcFiles' # <<>> PROVE q < LastId
    <3>1. PICK n \in WalIds : arrow[n] # None
      BY <1>3, <2>3 DEF Existing
    <3>2. ~(n < q)
      BY <1>2, <2>3, <3>1 DEF DInv, Parquets, ParquetsAreLater
    <3>3. n < LastId /\ n \in Nat /\ q \in Nat
      BY <2>1, <3>1, TypesOf
    <3> QED
      BY <2>1, <3>2, <3>3
  <2> QED
    BY <1>1, <1>2, <1>3, <2>2, <2>3 DEF ParquetPaths, Once, Existing
<1>7. InHand'
  BY <1>1, <1>2 DEF InHand, RollsApart, Rotated, Written
<1>8. Contents' = DirContents
  <2>1. Contents' = RowsAt(Listing(parquet', Range(parquetFilePaths')), Listing(arrow', Range(ipcFilePaths')),
                           rolling'.rows, flight'.batch, prebatch')
    BY DEF Contents
  <2>2. Contents' = RowsAt(Listing(parquet, Existing(parquet)), Listing(arrow, Existing(arrow)),
                           <<>>, <<>>, RecoveredRows)
    BY <1>1, <1>2, <1>3, <1>4, <2>1
  <2> QED
    BY <2>2 DEF DirContents
<1>9. Apart(Contents, Len(pushed))'
  BY <1>1, <1>8 DEF KnownDirectory, Apart
<1> QED
  BY <1>5, <1>6, <1>7, <1>9 DEF Sound

-----------------------------------------------------------------------------
(* What a manager knows of its directory *)

\* A step that leaves the WAL and the Parquet files alone
LEMMA QuietKnown ==
  ASSUME GInv, Sound, KnownDirectory, up, up', walOpen \/ currentWalId' = currentWalId,
         UNCHANGED <<wal, parquet, queue, sink, walOpen, prebatch, parquetFilePaths>>
  PROVE  KnownDirectory'
BY DEF KnownDirectory, Existing

LEMMA PushRecordKnown ==
  ASSUME GInv, DInv, Whole, Sound, KnownDirectory, NEW i \in Indices, PushRecord(i)
  PROVE  KnownDirectory'
<1> DEFINE row == <<i, Len(pushed) + 1>>
<1>1. /\ UNCHANGED <<parquet, parquetFilePaths, up>> /\ up /\ op = "idle"
      /\ prebatch' = Append(prebatch, row) /\ queue' = Append(queue, row) /\ walOpen'
      /\ walOpen => wal' = wal /\ sink' = sink
      /\ ~walOpen => /\ sink' = currentWalId + 1
                     /\ wal' = IF wal[currentWalId + 1] # None THEN wal
                               ELSE [wal EXCEPT ![currentWalId + 1] = <<>>]
      /\ Len(pushed) < MaxRows /\ currentWalId < MaxWals - 1
  BY DEF PushRecord, parquetVars
<1>2. row \in Rows
  BY <1>1, TypesOf, Constants DEF Rows
<1>3. prebatch' = wal'[sink'] \o queue'
  <2>1. CASE walOpen
    <3>1. PICK w \in Seq(Rows), q \in Seq(Rows) : w = wal[sink] /\ q = queue
      BY <2>1, TypesOf
    <3>2. PICK r \in Rows : r = row
      BY <1>2
    <3>3. Append(w \o q, r) = w \o Append(q, r)
      OBVIOUS
    <3> QED
      BY <1>1, <2>1, <3>1, <3>2, <3>3 DEF KnownDirectory
  <2>2. CASE ~walOpen
    <3>1. currentWalId = 0 /\ prebatch = <<>> /\ queue = <<>>
      BY <2>2 DEF KnownDirectory, GInv, Writing
    <3>2. 1 \in WalIds /\ currentWalId + 1 = 1
      BY <3>1, Constants DEF WalIds
    <3>3. wal[1] = None
      <4>1. \A n \in WalIds : wal[n] # None => n <= 0
        BY <1>1, <3>1 DEF DInv, Logged, NewestWal, Opened, Rotated
      <4> QED
        BY <3>2, <4>1
    <3>4. wal'[1] = <<>> /\ sink' = 1
      BY <1>1, <2>2, <3>2, <3>3, TypesOf DEF Files
    <3>5. PICK r \in Rows : r = row
      BY <1>2
    <3>6. Append(<<>>, r) = <<>> \o Append(<<>>, r)
      OBVIOUS
    <3> QED
      BY <1>1, <3>1, <3>4, <3>5, <3>6
  <2> QED
    BY <2>1, <2>2
<1> QED
  BY <1>1, <1>3 DEF KnownDirectory, Existing

LEMMA WriteRowKnown ==
  ASSUME GInv, Sound, KnownDirectory, WriteRow
  PROVE  KnownDirectory'
<1>1. /\ UNCHANGED <<parquet, parquetFilePaths, up, walOpen, sink, prebatch, currentWalId>>
      /\ queue # <<>> /\ queue' = Tail(queue) /\ wal' = [wal EXCEPT ![sink] = Append(@, Head(queue))]
  BY DEF WriteRow, parquetVars, walVars
<1>2. walOpen /\ up /\ sink \in WalIds
  BY <1>1, TypesOf DEF GInv, Writing
<1>3. PICK w \in Seq(Rows), q \in Seq(Rows) : w = wal[sink] /\ q = queue
  BY <1>2, TypesOf
<1>4. w \o q = Append(w, Head(q)) \o Tail(q)
  BY <1>1, <1>3
<1>5. wal'[sink] = Append(w, Head(q))
  BY <1>1, <1>2, <1>3, TypesOf DEF Files
<1> QED
  BY <1>1, <1>2, <1>3, <1>4, <1>5 DEF KnownDirectory, Existing

LEMMA FlushStepKnown ==
  ASSUME GInv, DInv, Whole, Sound, KnownDirectory, OpenNext \/ Rotate \/ DeleteWal
  PROVE  KnownDirectory'
<1>1. UNCHANGED <<parquet, parquetFilePaths, up, walOpen, queue, currentWalId>>
  BY DEF OpenNext, Rotate, DeleteWal, diskVars, parquetVars, walVars
<1>2. walOpen /\ up /\ sink \in WalIds /\ currentWalId \in WalIds /\ currentWalId + 1 \in WalIds
      /\ currentWalId \in Nat /\ currentWalId # currentWalId + 1 /\ wal \in Files
  <2>1. walOpen /\ currentWalId < MaxWals
    BY DEF OpenNext, Rotate, DeleteWal, GInv, Writing, Flushing, Rotated
  <2> QED
    BY <2>1, TypesOf, Constants DEF WalIds
<1>3. prebatch' = wal'[sink'] \o queue'
  <2>1. CASE OpenNext
    <3>1. sink = currentWalId /\ UNCHANGED <<sink, prebatch>>
      BY <1>2, <2>1 DEF OpenNext, walVars, DInv, Logged, SinkIsCurrent, Rotated
    <3>2. wal'[sink] = wal[sink]
      BY <1>2, <2>1, <3>1 DEF OpenNext, Files
    <3> QED
      BY <1>1, <1>2, <3>1, <3>2 DEF KnownDirectory
  <2>2. CASE Rotate
    <3>1. /\ sink' = currentWalId + 1 /\ prebatch' = <<>> /\ queue = <<>> /\ wal' = wal
          /\ wal[currentWalId + 1] = <<>>
      BY <2>2 DEF Rotate, NewPreBatch, Drained, diskVars, DInv, Logged, NextWalEmpty, Opened
    <3>2. <<>> = <<>> \o <<>>
      OBVIOUS
    <3> QED
      BY <1>1, <3>1, <3>2
  <2>3. CASE DeleteWal
    <3>1. sink = currentWalId + 1 /\ UNCHANGED <<sink, prebatch>>
      BY <1>2, <2>3 DEF DeleteWal, walVars, GInv, Writing, Rotated
    <3>2. wal'[sink] = wal[sink]
      BY <1>2, <2>3, <3>1 DEF DeleteWal, Files
    <3> QED
      BY <1>1, <1>2, <3>1, <3>2 DEF KnownDirectory
  <2> QED
    BY <2>1, <2>2, <2>3
<1> QED
  BY <1>1, <1>2, <1>3 DEF KnownDirectory, Existing

LEMMA WriteParquetKnown ==
  ASSUME GInv, Sound, KnownDirectory, WriteParquet
  PROVE  KnownDirectory'
<1>1. /\ UNCHANGED <<up, wal, walOpen, sink, queue, prebatch, currentWalId>> /\ op = "roll"
      /\ rolling.rows # <<>> => /\ parquet' = [parquet EXCEPT ![currentWalId] = rolling.rows]
                                /\ parquetFilePaths' = Append(parquetFilePaths, currentWalId)
      /\ rolling.rows = <<>> => parquet' = parquet /\ parquetFilePaths' = parquetFilePaths
  BY DEF WriteParquet, walVars
<1>2. up /\ walOpen /\ currentWalId \in WalIds
  BY <1>1, TypesOf DEF GInv, Writing
<1>3. Existing(parquet') \subseteq Range(parquetFilePaths')
  <2>1. CASE rolling.rows = <<>>
    BY <1>1, <1>2, <2>1 DEF KnownDirectory, Existing
  <2>2. CASE rolling.rows # <<>>
    <3>1. Range(parquetFilePaths') = Range(parquetFilePaths) \cup {currentWalId}
      <4>1. PICK q \in Seq(WalIds), n \in WalIds : q = parquetFilePaths /\ n = currentWalId
        BY <1>2 DEF Sound, ParquetPaths
      <4>2. Range(Append(q, n)) = Range(q) \cup {n}
        BY RangeOfAppend
      <4> QED
        BY <1>1, <2>2, <4>1, <4>2
    <3>2. \A n \in WalIds : n # currentWalId => parquet'[n] = parquet[n]
      BY <1>1, <2>2, TypesOf DEF Files
    <3> QED
      BY <1>2, <3>1, <3>2 DEF KnownDirectory, Existing
  <2> QED
    BY <2>1, <2>2
<1> QED
  BY <1>1, <1>2, <1>3 DEF KnownDirectory

\* After a clean halt the directory holds what the manager showed, each row once.
LEMMA HaltKnown ==
  ASSUME GInv, GInv', DInv, Whole, Sound, KnownDirectory, Halt, Whole'
  PROVE  KnownDirectory'
<1>1. /\ UNCHANGED <<wal, parquet, arrow, pushed>> /\ up /\ ~up' /\ ~walOpen'
      /\ currentWalId' = 0 /\ prebatch' = <<>>
      /\ op = "idle" /\ queue = <<>> /\ \A p \in Providers : guards[p] = {}
  BY DEF Halt, diskVars, CleanHalt, Whole
<1>2. pendingDeletions = {}
  <2>1. ASSUME NEW b \in pendingDeletions PROVE FALSE
    <3>1. b \in WalIds /\ Cardinality(Guarding(b)) > 0
      BY DEF GInv, Counted, Types, ReaderTypes
    <3>2. Guarding(b) = {}
      BY <1>1 DEF Guarding
    <3> QED
      BY <3>1, <3>2, FS_EmptySet
  <2> QED
    BY <2>1
<1>3. Existing(parquet) \subseteq Range(parquetFilePaths)
  BY <1>1 DEF KnownDirectory
<1>4. Existing(arrow) \subseteq Range(ipcFilePaths)
  BY <1>1, <1>2 DEF DInv, Listed, ArrowsListed, Written, Sound, ArrowPaths, Existing
<1>5. RecoveredRows = prebatch \/ RecoveredRows = <<>>
  <2>1. CASE ~RecoversWal
    BY <2>1 DEF RecoveredRows
  <2>2. CASE RecoversWal
    <3>1. /\ LastId \in 0 .. MaxWals
          /\ \A n \in WalIds : wal[n] # None => n <= LastId
      BY LastIdOK DEF GInv, Types
    <3>2. LastId \in WalIds /\ LastId \in Nat /\ LastId # 0 /\ wal[LastId] # None
      BY <2>2, <3>1, Constants DEF RecoversWal, WalIds
    <3>3. LastId <= currentWalId
      BY <1>1, <3>2 DEF DInv, Logged, NewestWal, Opened, Rotated
    <3>4. walOpen
      BY <3>2, <3>3 DEF KnownDirectory
    <3>5. sink = currentWalId /\ currentWalId \in WalIds /\ wal[sink] # None /\ wal[sink] \in Seq(Rows)
      BY <1>1, <3>4, TypesOf DEF DInv, Logged, SinkIsCurrent, Rotated, GInv, Writing
    <3>6. currentWalId <= LastId
      BY <3>1, <3>5
    <3>7. LastId = sink
      BY <3>2, <3>3, <3>5, <3>6, TypesOf
    <3>8. PICK w \in Seq(Rows) : w = wal[sink]
      BY <3>5
    <3>9. w \o <<>> = w
      OBVIOUS
    <3> QED
      BY <1>1, <2>2, <3>4, <3>7, <3>8, <3>9 DEF RecoveredRows, KnownDirectory
  <2> QED
    BY <2>1, <2>2
<1>6. Holds(Contents)
  BY ContentsHold DEF Sound
<1>7. PICK c \in [Places -> Seq(Rows)] :
        /\ Apart(c, Len(pushed)) /\ c[<<"memory", 0>>] = prebatch
        /\ \A n \in WalIds :
             /\ c[<<"parquet", n>>] = IF n \in Range(parquetFilePaths) THEN parquet[n] ELSE <<>>
             /\ c[<<"arrow", n>>] = IF n \in Range(ipcFilePaths) THEN arrow[n] ELSE <<>>
  BY <1>6 DEF Holds, Sound
<1>8. PICK pq \in [WalIds -> Seq(Rows)] : pq = Listing(parquet, Existing(parquet))
  BY TypesOf, ListingTypes DEF Existing
<1>9. PICK ar \in [WalIds -> Seq(Rows)] : ar = Listing(arrow, Existing(arrow))
  BY TypesOf, ListingTypes DEF Existing
<1>10. PICK me \in Seq(Rows), none \in Seq(Rows) : me = RecoveredRows /\ none = <<>>
  BY <1>5, TypesOf, Constants
<1>11. PICK d : d = RowsAt(pq, ar, none, none, me)
  OBVIOUS
<1>12. Shows(d, pq, ar, none, none, me) /\ d = DirContents
  BY <1>8, <1>9, <1>10, <1>11, RowsAtPlaces DEF DirContents
<1>13. d \in [Places -> Seq(Rows)]
  BY <1>12 DEF Shows
<1>14. \A p \in Places : d[p] = c[p] \/ d[p] = <<>>
  <2>1. \A n \in WalIds : /\ d[<<"parquet", n>>] = c[<<"parquet", n>>] \/ d[<<"parquet", n>>] = <<>>
                          /\ d[<<"arrow", n>>] = c[<<"arrow", n>>] \/ d[<<"arrow", n>>] = <<>>
    <3>1. \A n \in WalIds : /\ (pq[n] = parquet[n] /\ n \in Range(parquetFilePaths)) \/ pq[n] = <<>>
                            /\ (ar[n] = arrow[n] /\ n \in Range(ipcFilePaths)) \/ ar[n] = <<>>
      BY <1>3, <1>4, <1>8, <1>9 DEF Listing
    <3> QED
      BY <1>7, <1>12, <3>1 DEF Shows
  <2>2. d[<<"memory", 0>>] = c[<<"memory", 0>>] \/ d[<<"memory", 0>>] = <<>>
    BY <1>5, <1>7, <1>10, <1>12 DEF Shows
  <2>3. d[<<"rolling", 0>>] = <<>> /\ d[<<"flight", 0>>] = <<>>
    BY <1>10, <1>12 DEF Shows
  <2> SUFFICES ASSUME NEW p \in Places PROVE d[p] = c[p] \/ d[p] = <<>>
    OBVIOUS
  <2>4. CASE \E n \in WalIds : p = <<"parquet", n>>
    BY <2>1, <2>4
  <2>5. CASE \E n \in WalIds : p = <<"arrow", n>>
    BY <2>1, <2>5
  <2> QED
    BY <2>2, <2>3, <2>4, <2>5, EachPlace
<1>15. Apart(DirContents, Len(pushed))
  BY <1>7, <1>12, <1>13, <1>14, ApartLess
<1>16. Apart(DirContents, Len(pushed))'
  <2>1. DirContents' = DirContents
    BY <1>1 DEF DirContents, Listing, Existing, RecoveredRows, RecoversWal, LastId
  <2> QED
    BY <1>1, <1>15, <2>1 DEF Apart
<1> QED
  BY <1>1, <1>16 DEF KnownDirectory

\* Nothing was pushed when a fresh manager leaves a directory whole.
LEMMA StartFreshKnown ==
  ASSUME GInv, DInv, Whole, Sound, KnownDirectory, StartFresh, Whole'
  PROVE  KnownDirectory'
<1>1. UNCHANGED <<wal, parquet, walOpen, currentWalId, prebatch, parquetFilePaths, sink, queue>>
      /\ ~up /\ up' /\ Len(pushed) = 0
  BY DEF StartFresh, Whole, diskVars, walVars, parquetVars
<1>2. pushed = <<>>
  BY <1>1, TypesOf
<1>3. Existing(parquet) = {} /\ ~walOpen
  BY <1>1, <1>2 DEF DInv, Blank, Existing, GInv, Writing
<1> QED
  BY <1>1, <1>3 DEF KnownDirectory, Existing

LEMMA StartRestoredKnown ==
  ASSUME GInv, DInv, Whole, Sound, KnownDirectory, StartRestored
  PROVE  KnownDirectory'
<1>1. /\ UNCHANGED <<wal, parquet, queue>> /\ ~up /\ up'
      /\ walOpen' = RecoversWal /\ currentWalId' = LastId /\ prebatch' = RecoveredRows
      /\ sink' = IF RecoversWal THEN LastId ELSE 0
      /\ parquetFilePaths' = SortedPaths(Existing(parquet))
  BY DEF StartRestored, diskVars
<1>2. Range(parquetFilePaths') = Existing(parquet)
  BY <1>1, SortedLists DEF Existing
<1>3. queue = <<>>
  BY <1>1 DEF GInv, Writing
<1>4. LastId # 0 => RecoversWal
  BY LastIdOK DEF GInv, Types
<1>5. RecoversWal => prebatch' = wal'[sink'] \o queue'
  <2> SUFFICES ASSUME RecoversWal PROVE prebatch' = wal'[sink'] \o queue'
    OBVIOUS
  <2>1. LastId \in WalIds /\ wal[LastId] # None
    BY LastIdOK, Constants DEF GInv, Types, RecoversWal, WalIds
  <2>2. PICK w \in Seq(Rows) : w = wal[LastId]
    BY <2>1, TypesOf DEF Files, Optional
  <2>3. w \o <<>> = w
    OBVIOUS
  <2> QED
    BY <1>1, <1>3, <2>2, <2>3 DEF RecoveredRows
<1>6. ~RecoversWal => LastId = 0 /\ RecoveredRows = <<>>
  BY <1>4 DEF RecoveredRows
<1> QED
  BY <1>1, <1>2, <1>5, <1>6 DEF KnownDirectory, Existing

LEMMA InitApart == Init => NInv
<1> SUFFICES ASSUME Init PROVE NInv
  OBVIOUS
<1>0. GInv
  BY InitGuards
<1>1. Once(<<>>) /\ Range(<<>>) = {} /\ Len(<<>>) = 0
  <2>1. Len(<<>>) = 0
    OBVIOUS
  <2> QED
    BY <2>1, RangeOfEmpty DEF Once
<1>2. rolling.files = <<>> /\ rolling.next = 1 /\ rolling.rows = <<>> /\ flight.batch = <<>>
  BY DEF Init, NoRollout, NoFlight
<1>3. ArrowPaths
  <2>1. Pending = {}
    BY <1>2 DEF Pending
  <2> QED
    BY <1>1, <1>2, <2>1 DEF Init, ArrowPaths
<1>4. ParquetPaths
  BY <1>1, Constants DEF Init, ParquetPaths
<1>5. InHand
  BY <1>2 DEF Init, InHand, RollsApart, Rotated, Written
<1>6. Apart(Contents, Len(pushed))
  <2>1. PICK c \in [Places -> Seq(Rows)] : Holds(c) /\ c = Contents
    BY <1>0, <1>3, <1>4, ContentsHold DEF Holds
  <2>2. PICK z \in [Places -> Seq(Rows)] : z = [p \in Places |-> <<>>]
    BY Constants
  <2>3. AlikeBut(z, c, {})
    BY <1>1, <1>2, <2>1, <2>2, PlacesAre DEF Init, Holds, AlikeBut
  <2>4. \A p \in Places : c[p] = <<>>
    BY <2>2, <2>3, ElsewhereSame
  <2> QED
    BY <1>1, <2>1, <2>4 DEF Apart
<1>7. KnownDirectory
  <2>1. Existing(parquet) = {}
    BY DEF Init, NoCounts, Existing
  <2> QED
    BY <2>1 DEF Init, KnownDirectory
<1> QED
  BY <1>3, <1>4, <1>5, <1>6, <1>7 DEF NInv, Sound

\* A step that is not of restore() keeps a manager tidy.
LEMMA NextSound ==
  ASSUME GInv, GInv', DInv, NInv, [Next]_vars, Tidy'
  PROVE  Sound'
<1>1. CASE StartRestored
  <2>1. Whole
    BY <1>1 DEF StartRestored, Tidy, Whole, GInv, Types, ManagerTypes
  <2>2. Sound /\ KnownDirectory
    BY <2>1 DEF NInv, Tidy, Whole
  <2> QED
    BY <1>1, <2>1, <2>2, StartRestoredSound
<1>2. CASE ~StartRestored
  <2>1. trouble' = trouble \/ (trouble = "none" /\ trouble' = "met")
    BY <1>2 DEF Next, PushRecord, PushFails, EnsureFails, WriteRow, WriterFails, FlushWal, OpenNext, Rotate,
                RotateFails, WriteArrowIpc, IndexRows, DeleteWal, Track, RolloutToParquet, RollFile,
                WriteParquet, Fail, AfterError, MeetsError, SqlProvider, DropGuard, Halt, StartFresh,
                vars, boundVars
  <2>2. Sound
    BY <2>1 DEF NInv, Tidy
  <2>3. ASSUME NEW i \in Indices, PushRecord(i) PROVE Sound'
    BY <2>2, <2>3, PushRecordSound
  <2>a. ASSUME NEW i \in Indices, PushFails(i) PROVE Sound'
    BY <2>2, <2>a, PushRecordSound
  <2>4. CASE WriteRow \/ FlushWal \/ OpenNext \/ WriteArrowIpc \/ IndexRows \/ DeleteWal
    BY <2>2, <2>4, WriteRowSound, FlushStepSound
  <2>5. CASE Rotate \/ Track \/ EnsureFails \/ WriterFails \/ RotateFails
    BY <2>2, <2>5, RotateSound, TrackSound, QueueFailsSound, RotateFailsSound
  <2>6. CASE RolloutToParquet \/ RollFile \/ WriteParquet
    BY <2>2, <2>6, RolloutToParquetSound, RollFileSound, WriteParquetSound
  <2>7. ASSUME NEW p \in Providers, SqlProvider(p) PROVE Sound'
    BY <2>2, <2>7, SqlProviderSound
  <2>8. ASSUME NEW p \in Providers, NEW b \in WalIds, DropGuard(p, b) PROVE Sound'
    BY <2>2, <2>8, DropGuardSound
  <2>9. CASE Fail \/ Halt \/ StartFresh
    BY <2>2, <2>9, FailSound, HaltSound, StartFreshSound
  <2>10. CASE UNCHANGED vars
    BY <2>2, <2>10, StutterSound
  <2> QED
    BY <1>2, <2>3, <2>a, <2>4, <2>5, <2>6, <2>7, <2>8, <2>9, <2>10 DEF Next
<1> QED
  BY <1>1, <1>2

\* A directory that is whole after a step was whole before it.
LEMMA WholeBefore ==
  ASSUME DInv, GInv, [Next]_vars, Whole'
  PROVE  Whole
<1>1. trouble = "none"
  BY DEF Whole, Next, PushRecord, PushFails, EnsureFails, WriteRow, WriterFails, FlushWal, OpenNext,
         Rotate, RotateFails, WriteArrowIpc, IndexRows, DeleteWal, Track, RolloutToParquet, RollFile,
         WriteParquet, Fail, AfterError, MeetsError, SqlProvider, DropGuard, Halt, StartFresh,
         StartRestored, vars, boundVars
<1>2. before' = before \/ before' = Len(pushed)
  BY DEF Next, PushRecord, PushFails, EnsureFails, WriteRow, WriterFails, FlushWal, OpenNext, Rotate,
         RotateFails, WriteArrowIpc, IndexRows, DeleteWal, Track, RolloutToParquet, RollFile, WriteParquet,
         Fail, AfterError, SqlProvider, DropGuard, Halt, StartFresh, StartRestored, vars, boundVars
<1>3. before \in Nat /\ before <= Len(pushed)
  BY DEF DInv, GInv, Types, ManagerTypes
<1>4. before = 0
  BY <1>2, <1>3, TypesOf DEF Whole
<1> QED
  BY <1>1, <1>4 DEF Whole

LEMMA NextKnown ==
  ASSUME GInv, GInv', DInv, NInv, [Next]_vars, Whole'
  PROVE  KnownDirectory'
<1>0. Whole /\ Sound /\ KnownDirectory
  BY WholeBefore DEF NInv, Tidy, Whole
<1>1. ASSUME NEW i \in Indices, PushRecord(i) PROVE KnownDirectory'
  BY <1>0, <1>1, PushRecordKnown
<1>2. CASE WriteRow
  BY <1>0, <1>2, WriteRowKnown
<1>3. CASE OpenNext \/ Rotate \/ DeleteWal
  BY <1>0, <1>3, FlushStepKnown
<1>4. CASE FlushWal \/ WriteArrowIpc \/ IndexRows \/ Track \/ RolloutToParquet \/ RollFile
  <2>1. /\ UNCHANGED <<wal, parquet, queue, sink, walOpen, prebatch, parquetFilePaths, up>>
        /\ walOpen \/ currentWalId' = currentWalId
        /\ up
    BY <1>4, TypesOf DEF FlushWal, WriteArrowIpc, IndexRows, Track, RolloutToParquet, RollFile,
           diskVars, walVars, parquetVars, GInv, Writing, Flushing, Rotated
  <2> QED
    BY <1>0, <2>1, QuietKnown
<1>5. CASE WriteParquet
  BY <1>0, <1>5, WriteParquetKnown
<1>6. CASE Fail \/ EnsureFails \/ WriterFails \/ RotateFails \/ \E i \in Indices : PushFails(i)
  BY <1>0, <1>6 DEF Fail, EnsureFails, WriterFails, RotateFails, PushFails, AfterError, MeetsError, Whole
<1>7. ASSUME NEW p \in Providers, SqlProvider(p) PROVE KnownDirectory'
  <2>1. UNCHANGED <<wal, parquet, queue, sink, walOpen, prebatch, parquetFilePaths, up, currentWalId>> /\ up
    BY <1>7 DEF SqlProvider, diskVars, walVars, parquetVars
  <2> QED
    BY <1>0, <2>1, QuietKnown
<1>8. ASSUME NEW p \in Providers, NEW b \in WalIds, DropGuard(p, b) PROVE KnownDirectory'
  <2>1. UNCHANGED <<wal, parquet, queue, sink, walOpen, prebatch, parquetFilePaths, up, currentWalId>>
    BY <1>8 DEF DropGuard, walVars, parquetVars
  <2>2. up
    <3>1. b < currentWalId /\ b \in Nat
      BY <1>8, TypesOf DEF DropGuard, GInv, Older
    <3>2. currentWalId # 0
      BY <3>1
    <3> QED
      BY <3>2 DEF GInv, Writing, Types, ManagerTypes
  <2> QED
    BY <1>0, <2>1, <2>2, QuietKnown
<1>9. CASE Halt
  BY <1>0, <1>9, HaltKnown
<1>10. CASE StartFresh
  BY <1>0, <1>10, StartFreshKnown
<1>11. CASE StartRestored
  BY <1>0, <1>11, StartRestoredKnown
<1>12. CASE UNCHANGED vars
  <2>1. UNCHANGED <<wal, parquet, arrow, queue, sink, walOpen, prebatch, parquetFilePaths, up, currentWalId, pushed>>
    BY <1>12 DEF vars, diskVars, walVars, parquetVars
  <2>2. DirContents' = DirContents
    BY <2>1 DEF DirContents, Listing, Existing, RecoveredRows, RecoversWal, LastId
  <2> QED
    BY <1>0, <2>1, <2>2 DEF KnownDirectory, Existing, Apart
<1> QED
  BY <1>1, <1>2, <1>3, <1>4, <1>5, <1>6, <1>7, <1>8, <1>9, <1>10, <1>11, <1>12 DEF Next

\* What a tidy manager shows it shows once.
LEMMA ShownOnce ==
  ASSUME GInv, Sound
  PROVE  Once(VisibleRows)
<1>1. PICK c \in [Places -> Seq(Rows)] : Holds(c) /\ Apart(c, Len(pushed))
  BY ContentsHold DEF Sound, Holds
<1>2. PICK pq \in Seq(WalIds), ar \in Seq(WalIds) : pq = parquetFilePaths /\ ar = ipcFilePaths
  BY DEF Sound, ParquetPaths, GInv, Types, RolloutTypes
<1>3. PICK P \in Files, A \in Files : P = parquet /\ A = arrow
  BY TypesOf
<1>4. Range(pq) \subseteq WalIds /\ Range(ar) \subseteq WalIds
  BY RangeOfSeq
<1>5. /\ \A n \in Range(pq) : P[n] # None /\ P[n] = c[<<"parquet", n>>] /\ <<"parquet", n>> \in Places
      /\ \A n \in Range(ar) : A[n] # None /\ A[n] = c[<<"arrow", n>>] /\ <<"arrow", n>> \in Places
  BY <1>1, <1>2, <1>3, <1>4, PlacesAre DEF Holds, Sound, ArrowPaths, ParquetPaths
<1>6. Once(pq) /\ Once(ar)
  BY <1>2 DEF Sound, ParquetPaths, GInv, Older
<1>7. EachOnce(P, pq)
  <2>1. ASSUME NEW n \in Range(pq) PROVE P[n] # None /\ Once(P[n])
    BY <1>1, <1>5 DEF Apart
  <2>2. ASSUME NEW n \in Range(pq), NEW m \in Range(pq), m # n PROVE Range(P[m]) \cap Range(P[n]) = {}
    <3>1. <<"parquet", m>> # <<"parquet", n>>
      BY <2>2, PlacesDiffer
    <3> QED
      BY <1>1, <1>5, <3>1 DEF Apart
  <2> QED
    BY <1>6, <2>1, <2>2 DEF EachOnce
<1>8. EachOnce(A, ar)
  <2>1. ASSUME NEW n \in Range(ar) PROVE A[n] # None /\ Once(A[n])
    BY <1>1, <1>5 DEF Apart
  <2>2. ASSUME NEW n \in Range(ar), NEW m \in Range(ar), m # n PROVE Range(A[m]) \cap Range(A[n]) = {}
    <3>1. <<"arrow", m>> # <<"arrow", n>>
      BY <2>2, PlacesDiffer
    <3> QED
      BY <1>1, <1>5, <3>1 DEF Apart
  <2> QED
    BY <1>6, <2>1, <2>2 DEF EachOnce
<1>9. ASSUME NEW m \in Range(pq), NEW n \in Range(ar) PROVE Range(P[m]) \cap Range(A[n]) = {}
  <2>1. <<"parquet", m>> # <<"arrow", n>>
    BY PlacesDiffer
  <2> QED
    BY <1>1, <1>5, <2>1 DEF Apart
<1>10. PICK a \in Seq(Rows) : a = Concatenate(P, pq) /\ Joins(a, P, pq)
  BY <1>7, ConcatenatedOnce DEF Joins
<1>11. PICK b \in Seq(Rows) : b = Concatenate(A, ar) /\ Joins(b, A, ar)
  BY <1>8, ConcatenatedOnce DEF Joins
<1>12. Range(a) \cap Range(b) = {}
  BY <1>9, <1>10, <1>11 DEF Joins
<1>13. a \o b \in Seq(Rows) /\ Once(a \o b) /\ Range(a \o b) = Range(a) \cup Range(b)
  BY <1>10, <1>11, <1>12, OnceBoth DEF Joins
<1>14. PICK m \in Seq(Rows) : m = IF walOpen THEN prebatch ELSE <<>>
  BY TypesOf, Constants
<1>15. Once(m) /\ \A p \in Places : p # <<"memory", 0>> => Range(m) \cap Range(c[p]) = {}
  <2>1. Once(<<>>) /\ Range(<<>>) = {}
    <3>1. Len(<<>>) = 0
      OBVIOUS
    <3> QED
      BY <3>1, RangeOfEmpty DEF Once
  <2>2. <<"memory", 0>> \in Places /\ c[<<"memory", 0>>] = prebatch
    BY <1>1, PlacesAre DEF Holds
  <2> QED
    BY <1>1, <1>14, <2>1, <2>2 DEF Apart
<1>16. /\ \A n \in Range(pq) : Range(m) \cap Range(P[n]) = {}
       /\ \A n \in Range(ar) : Range(m) \cap Range(A[n]) = {}
  BY <1>5, <1>15, PlacesDiffer
<1>17. Range(a \o b) \cap Range(m) = {}
  BY <1>10, <1>11, <1>13, <1>16 DEF Joins
<1>18. PICK ab \in Seq(Rows) : ab = a \o b
  BY <1>13
<1>19. Once(ab \o m)
  BY <1>13, <1>15, <1>17, <1>18, OnceBoth
<1>20. VisibleRows = ab \o m
  BY <1>2, <1>3, <1>10, <1>11, <1>14, <1>18 DEF VisibleRows
<1> QED
  BY <1>19, <1>20

\* NoRowTwice: a row that get_batches() and sql_provider() show is in one of the
\* listed files or in the PreBatch, and in it once, whatever flushes, rollouts,
\* errors and ends of the process came before (data.rs, push_record to restore).
THEOREM NoRowIsTwice == Spec => []NoRowTwice
<1>1. Init => NInv
  BY InitApart
<1>2. GInv /\ GInv' /\ DInv /\ NInv /\ [Next]_vars => NInv'
  BY NextSound, NextKnown DEF NInv
<1>3. GInv /\ NInv => NoRowTwice
  BY ShownOnce DEF NInv, Tidy, NoRowTwice, Once
<1>4. Init => DInv
  BY InitKeeps
<1>5. GInv /\ DInv /\ [Next]_vars => DInv'
  BY NextKeeps
<1> QED
  BY <1>1, <1>2, <1>3, <1>4, <1>5, Guarded, PTL DEF Spec

=============================================================================
