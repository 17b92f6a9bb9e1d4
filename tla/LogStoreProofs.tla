--------------------------- MODULE LogStoreProofs ---------------------------
(***************************************************************************)
(* Proofs about module LogStore, for every bound on terms and indexes and  *)
(* every distance between snapshots: none of the LOG_FATALs of the log and *)
(* of the Ready loop is reached, what the store was given is stable, the   *)
(* cursors agree, storage and unstable part leave no hole, and what is     *)
(* read through the three objects is the one log of module AbstractLog.    *)
(*                                                                         *)
(* All of it holds for a server that is never removed from its cluster: a  *)
(* server that publishes its own removal stops counting in the middle of a *)
(* Ready and its cursors part.                                             *)
(***************************************************************************)
EXTENDS LogStore, SetInduction, SequenceTheorems, TLAPS

-----------------------------------------------------------------------------
(* Types.                                                                  *)

SnapshotType == [index : Nat, term : Nat]

StorageType == [snap : Nat, base : SnapshotType, ents : Seq(Terms)]

UnstableType == [offset : Nat, ents : Seq(Terms), snap : SnapshotType]

LogType == [storage : StorageType, unstable : UnstableType,
            committed : Nat, applied : Nat]

ReadyType == [entries : Seq(Terms), offset : Nat, snapshot : SnapshotType,
              committed_entries : Seq(Terms), first : Nat]

TypeInv ==
    /\ log \in LogType
    /\ app \in [applied_index : Nat, snapshot_index : Nat]
    /\ delivered \in Seq(Nat)
    /\ rd \in ReadyType
    /\ pc \in {"start", "idle", "store", "publish", "snapshot", "advance"}
    /\ fatal = FALSE

-----------------------------------------------------------------------------
(* The inductive invariant.                                                *)

(* The unstable part continues what the storage holds, or it is a snapshot *)
(* alone.                                                                  *)
Joined(l) ==
    LET u == l.unstable
    IN  IF u.snap = NoSnap
        THEN /\ u.offset \in 1 .. storage_last_index(l.storage) + 1
             /\ u.ents = <<>> => u.offset = storage_last_index(l.storage) + 1
        ELSE /\ u.ents = <<>>
             /\ u.offset = u.snap.index + 1
             /\ l.committed = u.snap.index

(* Every cursor is within the next one's reach.                            *)
Cursors ==
    /\ log.storage.base.index <= log.storage.snap
    /\ log.storage.snap = app.snapshot_index
    /\ app.snapshot_index <= app.applied_index
    /\ app.applied_index = Len(delivered)
    /\ app.applied_index <= storage_last_index(log.storage)
    /\ log.applied <= app.applied_index
    /\ app.applied_index <= log.committed
    /\ log.committed <= last_index(log)

(* What the store was given is what the storage holds.                     *)
Given(s) ==
    \A i \in s.base.index + 1 .. Len(delivered) :
        delivered[i] # 0 => delivered[i] = storage_term(s, i)

(* The storage has received all that the unstable part holds.              *)
Copied(l) ==
    LET s == l.storage
        u == l.unstable
    IN  IF u.snap = NoSnap
        THEN u.ents # <<>> =>
                /\ upper(u) = storage_last_index(s) + 1
                /\ \A i \in u.offset .. upper(u) - 1 :
                      i >= s.base.index => storage_term(s, i) = u.ents[i - u.offset + 1]
        ELSE s.base = u.snap /\ s.ents = <<>>

(* What the Ready being processed holds, from RawNode::ready to advance.   *)
Copy == rd.entries = log.unstable.ents /\ rd.offset = log.unstable.offset
            /\ rd.snapshot = log.unstable.snap

ToApply ==
    rd.committed_entries # <<>> =>
        /\ log.unstable.snap = NoSnap
        /\ rd.first = app.applied_index + 1
        /\ app.applied_index + Len(rd.committed_entries) <= log.committed
        /\ \A k \in 1 .. Len(rd.committed_entries) :
              rd.committed_entries[k] = term(log, app.applied_index + k)

(* Nothing the store was given is in the unstable part yet.                *)
Ahead == IF log.unstable.snap = NoSnap THEN app.applied_index < log.unstable.offset
         ELSE app.applied_index < log.unstable.snap.index

AtIdle == log.applied = app.applied_index /\ Ahead

(* Before the first event the unstable part holds at most bootstrap        *)
(* entries, which are committed.                                           *)
Committed(l) ==
    l.unstable.snap = NoSnap /\ (l.unstable.ents # <<>> => last_index(l) = l.committed)

AtStore == log.applied = app.applied_index /\ Ahead /\ Copy /\ ToApply

AtPublish ==
    /\ IF log.unstable.snap = NoSnap THEN log.applied = app.applied_index
       ELSE app.applied_index = log.unstable.snap.index
    /\ Copied(log) /\ Copy /\ ToApply

AtAdvance == app.applied_index = applied_cursor(log) /\ Copied(log) /\ Copy

Place ==
    CASE pc = "start"   -> AtIdle /\ Committed(log)
      [] pc = "idle"    -> AtIdle
      [] pc = "store"   -> AtStore
      [] pc = "publish" -> AtPublish
      [] OTHER          -> AtAdvance

Inv == TypeInv /\ Joined(log) /\ Cursors /\ Given(log.storage) /\ Place


-----------------------------------------------------------------------------
(* Operators.                                                              *)

(* The greater of two numbers.                                             *)
LEMMA MaxOfTwo ==
    ASSUME NEW a \in Int, NEW b \in Int
    PROVE  Max({a, b}) = IF a >= b THEN a ELSE b
<1> DEFINE P(x) == x \in {a, b} /\ \A y \in {a, b} : x >= y
<1>1. \E x : P(x)
    <2>1. CASE a >= b
        BY <2>1
    <2>2. CASE b >= a
        BY <2>2
    <2> QED BY <2>1, <2>2
<1>2. Max({a, b}) = CHOOSE x : P(x)
    BY DEF Max
<1>3. P(CHOOSE x : P(x))
    BY <1>1
<1> QED BY <1>2, <1>3

(* The smaller of two numbers.                                             *)
LEMMA MinOfTwo ==
    ASSUME NEW a \in Int, NEW b \in Int
    PROVE  Min({a, b}) = IF a <= b THEN a ELSE b
<1> DEFINE P(x) == x \in {a, b} /\ \A y \in {a, b} : x <= y
<1>1. \E x : P(x)
    <2>1. CASE a <= b
        BY <2>1
    <2>2. CASE b <= a
        BY <2>2
    <2> QED BY <2>1, <2>2
<1>2. Min({a, b}) = CHOOSE x : P(x)
    BY DEF Min
<1>3. P(CHOOSE x : P(x))
    BY <1>1
<1> QED BY <1>2, <1>3

(* The least element of a set of naturals.                                 *)
LEMMA MinOfSet ==
    ASSUME NEW T \in SUBSET Nat, T # {}
    PROVE  Min(T) \in T /\ \A y \in T : Min(T) <= y
<1> DEFINE P(x) == x \in T /\ \A y \in T : x <= y
<1>1. \E x : P(x)
    BY LeastElement
<1>2. Min(T) = CHOOSE x : P(x)
    BY DEF Min
<1>3. P(CHOOSE x : P(x))
    BY <1>1
<1> QED BY <1>2, <1>3

LEMMA NoSnapType == NoSnap \in SnapshotType /\ NoSnap.index = 0 /\ NoSnap.term = 0
    BY DEF NoSnap, SnapshotType

(* The fields of a log.                                                    *)
LEMMA LogFields ==
    ASSUME NEW l \in LogType
    PROVE  /\ l.storage \in StorageType /\ l.unstable \in UnstableType
           /\ l.committed \in Nat /\ l.applied \in Nat
           /\ l.storage.snap \in Nat /\ l.storage.base \in SnapshotType
           /\ l.storage.base.index \in Nat /\ l.storage.base.term \in Nat
           /\ l.storage.ents \in Seq(Terms)
           /\ Len(l.storage.ents) \in Nat
           /\ l.unstable.offset \in Nat /\ l.unstable.ents \in Seq(Terms)
           /\ Len(l.unstable.ents) \in Nat
           /\ l.unstable.snap \in SnapshotType
           /\ l.unstable.snap.index \in Nat /\ l.unstable.snap.term \in Nat
           /\ storage_last_index(l.storage) \in Nat
           /\ upper(l.unstable) \in Nat
    BY SMTT(30) DEF LogType, StorageType, UnstableType, SnapshotType, storage_last_index, upper

LEMMA StorageTerm ==
    ASSUME NEW s \in StorageType
    PROVE  /\ storage_term(s, s.base.index) = s.base.term
           /\ \A i \in s.base.index + 1 .. storage_last_index(s) :
                 /\ storage_term(s, i) = s.ents[i - s.base.index]
                 /\ storage_term(s, i) \in Terms
           /\ \A i \in s.base.index .. storage_last_index(s) : storage_term(s, i) \in Nat
<1>1. /\ s.base.index \in Nat /\ s.base.term \in Nat
      /\ s.ents \in Seq(Terms) /\ Len(s.ents) \in Nat
    BY DEF StorageType, SnapshotType
<1>2. storage_term(s, s.base.index) = s.base.term
    BY <1>1 DEF storage_term
<1>3. ASSUME NEW i \in s.base.index + 1 .. storage_last_index(s)
      PROVE  /\ storage_term(s, i) = s.ents[i - s.base.index]
             /\ storage_term(s, i) \in Terms
  <2>1. i - s.base.index \in 1 .. Len(s.ents) /\ i # s.base.index
      BY <1>1 DEF storage_last_index
  <2>2. storage_term(s, i) = s.ents[i - s.base.index]
      BY <2>1 DEF storage_term
  <2> QED BY <1>1, <2>1, <2>2
<1>4. \A t \in Terms : t \in Nat
    BY SnapAssumption DEF Terms
<1>5. \A i \in s.base.index .. storage_last_index(s) :
          i = s.base.index \/ i \in s.base.index + 1 .. storage_last_index(s)
    BY <1>1 DEF storage_last_index
<1> QED BY <1>1, <1>2, <1>3, <1>4, <1>5

(* What is read of a log without a pending snapshot: the unstable part     *)
(* from its offset on, the storage below.                                  *)
LEMMA Reads ==
    ASSUME NEW l \in LogType, Joined(l), l.unstable.snap = NoSnap
    PROVE  /\ first_index(l) = l.storage.base.index + 1
           /\ last_index(l) = IF l.unstable.ents = <<>> THEN storage_last_index(l.storage)
                              ELSE upper(l.unstable) - 1
           /\ last_index(l) \in Nat
           /\ \A i \in l.storage.base.index .. last_index(l) :
                 /\ term(l, i) = IF i < l.unstable.offset THEN storage_term(l.storage, i)
                                 ELSE l.unstable.ents[i - l.unstable.offset + 1]
                 /\ term(l, i) \in Nat
                 /\ i > l.storage.base.index => term(l, i) \in Terms
           /\ \A i \in Int : i \notin l.storage.base.index .. last_index(l) => term(l, i) = 0
<1> DEFINE u == l.unstable
           s == l.storage
<1>1. s \in StorageType /\ u \in UnstableType
      /\ s.base.index \in Nat /\ u.offset \in Nat /\ u.ents \in Seq(Terms)
      /\ Len(u.ents) \in Nat /\ storage_last_index(s) \in Nat /\ upper(u) = u.offset + Len(u.ents)
    BY LogFields DEF upper
<1>2. first_index(l) = s.base.index + 1
    BY DEF first_index
<1>3. last_index(l) = IF u.ents = <<>> THEN storage_last_index(s) ELSE upper(u) - 1
    BY DEF last_index
<1>4. /\ u.offset \in 1 .. storage_last_index(s) + 1
      /\ u.ents = <<>> => u.offset = storage_last_index(s) + 1
    BY DEF Joined
<1>5. u.ents # <<>> => Len(u.ents) > 0
    BY <1>1
<1>6. last_index(l) \in Nat
    BY <1>1, <1>3, <1>4, <1>5
<1>7. ASSUME NEW i \in s.base.index .. last_index(l), i < u.offset
      PROVE  term(l, i) = storage_term(s, i) /\ i \in s.base.index .. storage_last_index(s)
  <2>1. maybe_term(u, i) = Unavailable
      BY <1>1, <1>7 DEF maybe_term
  <2>2. i \in s.base.index .. storage_last_index(s)
      BY <1>1, <1>4, <1>6, <1>7
  <2> QED BY <2>1, <2>2, <1>2, <1>1 DEF term
<1>8. ASSUME NEW i \in s.base.index .. last_index(l), ~(i < u.offset)
      PROVE  term(l, i) = u.ents[i - u.offset + 1] /\ term(l, i) \in Terms
  <2>1. u.ents # <<>> /\ i \in u.offset .. upper(u) - 1
      BY <1>1, <1>3, <1>4, <1>6, <1>8
  <2>2. i - u.offset + 1 \in 1 .. Len(u.ents)
    <3>1. i \in u.offset .. (u.offset + Len(u.ents)) - 1
        BY <1>1, <2>1, Zenon
    <3>2. \A o, n \in Nat : \A j \in o .. (o + n) - 1 : j - o + 1 \in 1 .. n
        OBVIOUS
    <3> QED BY <1>1, <3>1, <3>2, Zenon
  <2>3. u.ents[i - u.offset + 1] \in Terms
    <3>1. u.ents \in Seq(Terms) /\ i - u.offset + 1 \in 1 .. Len(u.ents)
        BY <1>1, <2>2, Zenon
    <3>2. \A e \in Seq(Terms) : \A j \in 1 .. Len(e) : e[j] \in Terms
        OBVIOUS
    <3> QED BY <3>1, <3>2, Zenon
  <2>4. maybe_term(u, i) = u.ents[i - u.offset + 1]
      BY <1>1, <1>8, <2>1 DEF maybe_term
  <2>5. u.ents[i - u.offset + 1] # Unavailable
      BY <2>3 DEF Unavailable, Terms
  <2> QED BY <1>1, <1>2, <2>3, <2>4, <2>5 DEF term
<1>9. \A t \in Terms : t \in Nat
    BY SnapAssumption DEF Terms
<1>10. ASSUME NEW i \in s.base.index .. last_index(l)
       PROVE  /\ term(l, i) = IF i < u.offset THEN storage_term(s, i)
                              ELSE u.ents[i - u.offset + 1]
              /\ term(l, i) \in Nat
              /\ i > s.base.index => term(l, i) \in Terms
  <2>1. CASE i < u.offset
    <3>1. i > s.base.index => i \in s.base.index + 1 .. storage_last_index(s)
        BY <1>1, <1>7, <2>1
    <3> QED BY <1>1, <1>7, <2>1, <3>1, StorageTerm
  <2>2. CASE ~(i < u.offset)
      BY <1>8, <1>9, <2>2
  <2> QED BY <2>1, <2>2
<1>11. \A i \in Int : i \notin s.base.index .. last_index(l) => term(l, i) = 0
    BY <1>1, <1>2 DEF term
<1> QED BY <1>2, <1>3, <1>6, <1>10, <1>11

(* What is read of a log that waits for a snapshot to be stored.           *)
LEMMA ReadsSnapshot ==
    ASSUME NEW l \in LogType, Joined(l), l.unstable.snap # NoSnap
    PROVE  /\ first_index(l) = l.unstable.snap.index + 1
           /\ last_index(l) = l.unstable.snap.index
           /\ term(l, l.unstable.snap.index) = l.unstable.snap.term
<1>1. /\ l.unstable.snap.index \in Nat /\ l.unstable.snap.term \in Nat
      /\ l.unstable.offset = l.unstable.snap.index + 1 /\ l.unstable.ents = <<>>
    BY LogFields DEF Joined
<1>2. first_index(l) = l.unstable.snap.index + 1
    BY DEF first_index
<1>3. last_index(l) = l.unstable.snap.index
    BY <1>1 DEF last_index
<1>4. maybe_term(l.unstable, l.unstable.snap.index) = l.unstable.snap.term
    BY <1>1 DEF maybe_term
<1> QED BY <1>1, <1>2, <1>3, <1>4 DEF term, Unavailable


(* Only the commit index matters to what commit_to changes.                *)
LEMMA SameReads ==
    ASSUME NEW l \in LogType, NEW m \in LogType,
           m.storage = l.storage, m.unstable = l.unstable
    PROVE  /\ first_index(m) = first_index(l) /\ last_index(m) = last_index(l)
           /\ \A i : term(m, i) = term(l, i)
<1>1. first_index(m) = first_index(l) /\ last_index(m) = last_index(l)
    BY DEF first_index, last_index
<1> QED BY <1>1 DEF term

LEMMA CommitTo ==
    ASSUME NEW l \in LogType, NEW c \in Nat
    PROVE  /\ commit_to(l, c) \in LogType
           /\ commit_to(l, c).storage = l.storage
           /\ commit_to(l, c).unstable = l.unstable
           /\ commit_to(l, c).applied = l.applied
           /\ commit_to(l, c).committed = IF l.committed >= c THEN l.committed ELSE c
<1>1. l.committed \in Nat
    BY LogFields
<1>2. Max({l.committed, c}) = IF l.committed >= c THEN l.committed ELSE c
    BY <1>1, MaxOfTwo
<1>3. commit_to(l, c) = [l EXCEPT !.committed = Max({l.committed, c})]
    BY DEF commit_to
<1> HIDE DEF Max
<1> QED BY <1>1, <1>2, <1>3 DEF LogType

-----------------------------------------------------------------------------
(* What an event may make of the log.  It starts from a log of which all   *)
(* is stable or committed.                                                 *)

Settled(l) ==
    /\ l \in LogType /\ Joined(l) /\ Committed(l)
    /\ l.storage.base.index <= l.committed /\ l.committed <= last_index(l)

(* A higher commit index...                                                *)
Raised(l, m) ==
    /\ m \in LogType
    /\ m.storage = l.storage /\ m.unstable = l.unstable /\ m.applied = l.applied
    /\ m.committed \in l.committed .. last_index(l)

(* ...new entries behind an index that is not below the commit index...    *)
Written(l, m, after) ==
    /\ m \in LogType /\ Joined(m)
    /\ m.storage = l.storage /\ m.applied = l.applied
    /\ after \in l.committed .. last_index(l)
    /\ m.unstable.snap = NoSnap /\ m.unstable.offset \in {after + 1, l.unstable.offset}
    /\ last_index(m) > after
    /\ m.committed \in l.committed .. last_index(m)
    /\ \A i \in l.storage.base.index .. after : term(m, i) = term(l, i)

(* ...or a snapshot of more than was committed.                            *)
Restored(l, m) ==
    /\ m \in LogType /\ Joined(m)
    /\ m.storage = l.storage /\ m.applied = l.applied
    /\ m.unstable.snap # NoSnap
    /\ m.unstable.snap.index > l.committed

Changed(l, m) ==
    Raised(l, m) \/ (\E after \in Nat : Written(l, m, after)) \/ Restored(l, m)

(* RaftLog::append of entries behind index after.                          *)
LEMMA AppendAt ==
    ASSUME NEW l, Settled(l), NEW ents \in Seq(Terms), ents # <<>>,
           NEW after \in Nat, l.committed <= after, after <= last_index(l)
    PROVE  /\ ~append_fails(l, after, ents)
           /\ Written(l, append(l, after, ents), after)
           /\ last_index(append(l, after, ents)) = after + Len(ents)
           /\ append(l, after, ents).committed = l.committed
<1> DEFINE u == l.unstable
           s == l.storage
           m == append(l, after, ents)
           v == truncate_and_append(u, after + 1, ents)
<1>1. /\ l \in LogType /\ Joined(l) /\ u.snap = NoSnap
      /\ u.ents # <<>> => last_index(l) = l.committed
      /\ s.base.index <= l.committed
    BY DEF Settled, Committed
<1>2. /\ u \in UnstableType /\ s \in StorageType /\ u.offset \in Nat /\ s.base.index \in Nat
      /\ u.ents \in Seq(Terms) /\ Len(u.ents) \in Nat
      /\ storage_last_index(s) \in Nat /\ l.committed \in Nat /\ l.applied \in Nat
    BY <1>1, LogFields
<1>3. /\ last_index(l) = IF u.ents = <<>> THEN storage_last_index(s) ELSE upper(u) - 1
      /\ u.offset \in 1 .. storage_last_index(s) + 1
      /\ u.ents = <<>> => u.offset = storage_last_index(s) + 1
    BY <1>1, Reads DEF Joined
<1>4. upper(u) = u.offset + Len(u.ents)
    BY DEF upper
<1>5. after + 1 <= upper(u) /\ (u.ents # <<>> => after + 1 = upper(u))
  <2>1. CASE u.ents = <<>>
      BY <1>2, <1>3, <1>4, <2>1
  <2>2. CASE u.ents # <<>>
    <3>1. after = last_index(l)
        BY <1>1, <1>2, <2>2
    <3>2. last_index(l) = upper(u) - 1 /\ upper(u) \in Nat
        BY <1>2, <1>3, <1>4, <2>2
    <3> QED BY <3>1, <3>2
  <2> QED BY <2>1, <2>2
<1>6. ~append_fails(l, after, ents)
    BY <1>2, <1>4, <1>5 DEF append_fails
<1>7. Len(ents) \in Nat /\ Len(ents) > 0
    OBVIOUS
<1>8. /\ v \in UnstableType /\ v.snap = NoSnap /\ v.ents # <<>>
      /\ v.offset \in {after + 1, u.offset} /\ v.offset \in 1 .. storage_last_index(s) + 1
      /\ v.offset + Len(v.ents) = after + 1 + Len(ents)
      /\ \A i \in v.offset .. after : i >= u.offset /\ v.ents[i - v.offset + 1] = u.ents[i - u.offset + 1]
      /\ \A i \in Nat : i <= after /\ i < v.offset => i < u.offset
  <2>1. CASE after + 1 = upper(u)
    <3>1. v = [u EXCEPT !.ents = u.ents \o ents]
        BY <2>1 DEF truncate_and_append
    <3>2. /\ u.ents \o ents \in Seq(Terms) /\ Len(u.ents \o ents) = Len(u.ents) + Len(ents)
          /\ \A k \in 1 .. Len(u.ents) : (u.ents \o ents)[k] = u.ents[k]
        BY <1>2
    <3> DEFINE w == u.ents \o ents
    <3> HIDE DEF w
    <3>3. v = [u EXCEPT !.ents = w] /\ w \in Seq(Terms) /\ Len(w) = Len(u.ents) + Len(ents)
          /\ \A k \in 1 .. Len(u.ents) : w[k] = u.ents[k]
        BY <3>1, <3>2 DEF w
    <3>4. v \in UnstableType /\ v.snap = NoSnap /\ v.ents = w /\ v.offset = u.offset
        BY <1>1, <1>2, <3>3 DEF UnstableType
    <3>5. w # <<>> /\ v.offset + Len(w) = after + 1 + Len(ents)
        BY <1>2, <1>4, <1>7, <2>1, <3>3, <3>4
    <3>6. \A i \in u.offset .. after : i - u.offset + 1 \in 1 .. Len(u.ents)
      <4>1. u.offset \in Nat /\ Len(u.ents) \in Nat /\ after + 1 = u.offset + Len(u.ents)
          BY <1>2, <1>4, <2>1
      <4> HIDE DEF u, v, s, m
      <4> QED BY <4>1
    <3> HIDE DEF v
    <3>7. \A i \in v.offset .. after :
              i >= u.offset /\ v.ents[i - v.offset + 1] = u.ents[i - u.offset + 1]
      <4> SUFFICES ASSUME NEW i \in u.offset .. after
                   PROVE  i >= u.offset /\ w[i - u.offset + 1] = u.ents[i - u.offset + 1]
          BY <3>4
      <4>1. i - u.offset + 1 \in 1 .. Len(u.ents)
          BY <3>6
      <4>2. i >= u.offset
          BY <1>2
      <4> QED BY <3>3, <4>1, <4>2, Zenon
    <3>8. \A i \in Nat : i <= after /\ i < v.offset => i < u.offset
        BY <3>4
    <3> QED BY <1>2, <1>3, <3>4, <3>5, <3>7, <3>8
  <2>2. CASE after + 1 # upper(u)
    <3>1. after + 1 <= u.offset /\ after + 1 \in 1 .. storage_last_index(s) + 1
        BY <1>2, <1>3, <1>4, <1>5, <2>2
    <3>2. v = [u EXCEPT !.offset = after + 1, !.ents = ents]
        BY <2>2, <3>1 DEF truncate_and_append
    <3> HIDE DEF v
    <3>3. v \in UnstableType /\ v.snap = NoSnap /\ v.ents = ents /\ v.offset = after + 1
      <4>1. v = [offset |-> after + 1, ents |-> ents, snap |-> NoSnap]
          BY <1>1, <1>2, <3>2 DEF UnstableType
      <4> QED BY <4>1, NoSnapType DEF UnstableType
    <3> QED BY <1>2, <1>7, <3>1, <3>3
  <2> QED BY <2>1, <2>2
<1>9. m = [storage |-> s, unstable |-> v, committed |-> l.committed, applied |-> l.applied]
  <2>1. m = [l EXCEPT !.unstable = v]
      BY DEF append
  <2> HIDE DEF v, m
  <2> QED BY <1>1, <2>1 DEF LogType
<1> HIDE DEF v
<1>10. m \in LogType
    BY <1>2, <1>8, <1>9 DEF LogType
<1>11. m.storage = s /\ m.applied = l.applied /\ m.committed = l.committed /\ m.unstable = v
    BY <1>9
<1>12. Joined(m)
    BY <1>2, <1>8, <1>11 DEF Joined
<1>13. v.offset \in Nat /\ Len(v.ents) \in Nat
    BY <1>8 DEF UnstableType
<1>14. upper(v) = after + 1 + Len(ents)
    BY <1>8 DEF upper
<1> HIDE DEF m
<1>15. last_index(m) = after + Len(ents)
    BY <1>7, <1>8, <1>10, <1>11, <1>12, <1>14, Reads
<1>16. ASSUME NEW i \in s.base.index .. after
       PROVE  term(m, i) = term(l, i)
  <2>1. i \in Nat /\ i \in s.base.index .. last_index(l)
    <3>1. last_index(l) \in Nat /\ s.base.index \in Nat
        BY <1>1, <1>2, Reads
    <3> HIDE DEF s, u
    <3> QED BY <3>1
  <2>2. term(l, i) = IF i < u.offset THEN storage_term(s, i) ELSE u.ents[i - u.offset + 1]
      BY <1>1, <2>1, Reads
  <2>3. i \in m.storage.base.index .. last_index(m)
      BY <1>2, <1>7, <1>11, <1>15
  <2>4. term(m, i) = IF i < v.offset THEN storage_term(s, i) ELSE v.ents[i - v.offset + 1]
      BY <1>8, <1>10, <1>11, <1>12, <2>3, Reads
  <2>5. CASE i < v.offset
      BY <1>8, <2>1, <2>2, <2>4, <2>5
  <2>6. CASE ~(i < v.offset)
    <3>1. i \in v.offset .. after
        BY <1>13, <2>1, <2>6
    <3>2. i >= u.offset /\ v.ents[i - v.offset + 1] = u.ents[i - u.offset + 1]
        BY <1>8, <3>1, Zenon
    <3>3. u.offset \in Nat
        BY <1>2
    <3> QED BY <2>1, <2>2, <2>4, <2>6, <3>2, <3>3
  <2> QED BY <2>5, <2>6
<1>17. m.committed \in l.committed .. last_index(m)
    BY <1>2, <1>7, <1>11, <1>15
<1>18. last_index(l) \in Nat /\ after \in l.committed .. last_index(l)
    BY <1>1, <1>2, Reads
<1>19. Written(l, m, after)
    BY <1>7, <1>8, <1>10, <1>11, <1>12, <1>15, <1>16, <1>17, <1>18 DEF Written
<1> QED BY <1>6, <1>11, <1>15, <1>19 DEF m

(* commit_to within the log, of a log as it was or with new entries.       *)
LEMMA CommitRaises ==
    ASSUME NEW l, Settled(l), NEW c \in Nat, c <= last_index(l)
    PROVE  Raised(l, commit_to(l, c))
<1>1. l \in LogType /\ l.committed \in Nat /\ l.committed <= last_index(l)
      /\ last_index(l) \in Nat
    BY LogFields, Reads DEF Settled, Committed
<1> DEFINE m == commit_to(l, c)
<1>2. /\ m \in LogType /\ m.storage = l.storage /\ m.unstable = l.unstable
      /\ m.applied = l.applied
      /\ m.committed = IF l.committed >= c THEN l.committed ELSE c
    BY <1>1, CommitTo
<1> HIDE DEF m
<1>3. m.committed \in l.committed .. last_index(l)
    BY <1>1, <1>2
<1>4. Raised(l, m)
    BY <1>2, <1>3 DEF Raised
<1> QED BY <1>4 DEF m

LEMMA CommitWrites ==
    ASSUME NEW l, Settled(l), NEW m, NEW after \in Nat, Written(l, m, after),
           NEW c \in Nat, c <= last_index(m)
    PROVE  Written(l, commit_to(m, c), after)
<1> DEFINE n == commit_to(m, c)
<1>1. l \in LogType /\ m \in LogType /\ l.committed \in Nat /\ m.committed \in Nat
    BY LogFields DEF Settled, Written
<1>2. /\ n \in LogType /\ n.storage = m.storage /\ n.unstable = m.unstable
      /\ n.applied = m.applied
      /\ n.committed = IF m.committed >= c THEN m.committed ELSE c
    BY <1>1, CommitTo
<1> HIDE DEF n
<1>3. last_index(n) = last_index(m) /\ \A i : term(n, i) = term(m, i)
    BY <1>1, <1>2, SameReads
<1>4. last_index(m) \in Nat /\ Joined(n)
    BY <1>1, <1>2, Reads DEF Written, Joined
<1>5. n.committed \in l.committed .. last_index(n)
    BY <1>1, <1>2, <1>3, <1>4 DEF Written
<1>6. Written(l, n, after)
    BY <1>2, <1>3, <1>4, <1>5 DEF Written
<1> QED BY <1>6 DEF n


(* An index at which a term other than 0 is read is within the log.        *)
LEMMA MatchWithin ==
    ASSUME NEW l, Settled(l), NEW i \in Nat, NEW t \in Terms, match_term(l, i, t)
    PROVE  i \in l.storage.base.index .. last_index(l)
<1>1. l \in LogType /\ Joined(l) /\ l.unstable.snap = NoSnap
    BY DEF Settled, Committed
<1>2. t # 0
    BY DEF Terms
<1> QED BY <1>1, <1>2, Reads DEF match_term

(* RaftLog::maybe_append after a matching previous entry.                  *)
LEMMA MaybeAppend ==
    ASSUME NEW l, Settled(l), NEW index \in Nat, NEW log_term \in Nat,
           log_term # 0 => log_term \in Terms, (log_term = 0) <=> (index = 0),
           index >= l.committed, match_term(l, index, log_term),
           NEW c \in Nat, NEW ents \in Seq(Terms)
    PROVE  /\ ~maybe_append_fails(l, index, ents)
           /\ Changed(l, maybe_append(l, index, c, ents))
<1> DEFINE new == {k \in 1..Len(ents) : ~ match_term(l, index + k, ents[k])}
           tail == fresh(l, index, ents)
           after == index + Len(ents) - Len(tail)
           l1 == append(l, after, tail)
           c1 == Min({c, index + Len(ents)})
<1>1. /\ l \in LogType /\ l.committed \in Nat /\ last_index(l) \in Nat
      /\ l.committed <= last_index(l)
    BY LogFields, Reads DEF Settled, Committed
<1>2. index <= last_index(l)
  <2>1. CASE log_term = 0
      BY <1>1, <2>1
  <2>2. CASE log_term # 0
      BY <1>1, <2>2, MatchWithin, LogFields
  <2> QED BY <2>1, <2>2
<1>3. Len(ents) \in Nat /\ \A k \in 1..Len(ents) : ents[k] \in Terms
    OBVIOUS
<1>4. ASSUME NEW k \in 1..Len(ents), k \notin new
      PROVE  index + k <= last_index(l)
  <2>1. match_term(l, index + k, ents[k]) /\ index + k \in Nat /\ ents[k] \in Terms
      BY <1>3, <1>4
  <2> QED BY <1>1, <2>1, MatchWithin, LogFields
<1>5. maybe_append(l, index, c, ents) = commit_to(l1, c1)
    BY DEF maybe_append
<1>6. maybe_append_fails(l, index, ents) = append_fails(l, after, tail)
    BY DEF maybe_append_fails
<1>7. c1 \in Nat /\ c1 <= index + Len(ents)
    BY <1>3, MinOfTwo
<1>8. CASE new = {}
  <2>1. tail = <<>>
      BY <1>8 DEF fresh, find_conflict
  <2>2. ~append_fails(l, after, tail)
      BY <2>1 DEF append_fails
  <2>3. truncate_and_append(l.unstable, after + 1, <<>>) = l.unstable
      BY DEF truncate_and_append
  <2>4. l1 = l
      BY <1>1, <2>1, <2>3 DEF append, LogType
  <2>5. index + Len(ents) <= last_index(l)
    <3>1. CASE Len(ents) = 0
        BY <1>2, <3>1
    <3>2. CASE Len(ents) # 0
        BY <1>3, <1>4, <1>8, <3>2
    <3> QED BY <3>1, <3>2
  <2>6. c1 <= last_index(l)
      BY <1>1, <1>3, <1>7, <2>5
  <2> HIDE DEF c1, l1, after, tail
  <2>7. Raised(l, commit_to(l, c1))
      BY <1>7, <2>6, CommitRaises
  <2> QED BY <1>5, <1>6, <2>2, <2>4, <2>7 DEF Changed
<1>9. CASE new # {}
  <2> DEFINE k0 == Min(new)
  <2>1. new \in SUBSET Nat
      OBVIOUS
  <2>2. k0 \in new /\ \A y \in new : k0 <= y
    <3> HIDE DEF new
    <3> QED BY <1>9, <2>1, MinOfSet
  <2>3. k0 \in 1..Len(ents)
      BY <2>2
  <2>4. find_conflict(l, index, ents) = index + k0
      BY <1>9 DEF find_conflict
  <2> HIDE DEF k0, new
  <2>5. tail = SubSeq(ents, k0, Len(ents))
      BY <2>3, <2>4 DEF fresh
  <2>6. tail \in Seq(Terms) /\ Len(tail) = Len(ents) - k0 + 1
      BY <1>3, <2>3, <2>5, SubSeqProperties
  <2>7. tail # <<>>
      BY <2>3, <2>6
  <2>8. after = index + k0 - 1 /\ after \in Nat /\ l.committed <= after
      BY <1>1, <1>3, <2>3, <2>6
  <2>9. after <= last_index(l)
    <3>1. CASE k0 = 1
        BY <1>2, <2>8, <3>1
    <3>2. CASE k0 # 1
      <4>1. k0 - 1 \in 1..Len(ents) /\ k0 - 1 \notin new
          BY <2>2, <2>3, <3>2
      <4>2. index + (k0 - 1) <= last_index(l)
          BY <1>4, <4>1
      <4> QED BY <2>3, <2>8, <4>2
    <3> QED BY <3>1, <3>2
  <2>10. after + Len(tail) = index + Len(ents)
      BY <1>3, <2>3, <2>6, <2>8
  <2> HIDE DEF after, tail, c1
  <2>11. ~append_fails(l, after, tail) /\ Written(l, l1, after) /\ last_index(l1) = after + Len(tail)
      BY <2>6, <2>7, <2>8, <2>9, AppendAt
  <2>12. c1 <= last_index(l1)
      BY <1>7, <2>10, <2>11
  <2> HIDE DEF l1
  <2>13. Written(l, commit_to(l1, c1), after)
      BY <1>7, <2>8, <2>11, <2>12, CommitWrites
  <2> QED BY <1>5, <1>6, <2>8, <2>11, <2>13 DEF Changed
<1> QED BY <1>8, <1>9

(* Raft::restore of a snapshot beyond the commit index.                    *)
LEMMA RestoreChanges ==
    ASSUME NEW l, Settled(l), NEW snapshot \in SnapshotType,
           snapshot.index > l.committed
    PROVE  Changed(l, restore(l, snapshot))
<1> DEFINE m == restore(l, snapshot)
           v == unstable_restore(snapshot)
<1>1. l \in LogType /\ l.committed \in Nat /\ snapshot.index \in Nat
    BY LogFields DEF Settled, SnapshotType
<1>2. v \in UnstableType /\ v.snap = snapshot /\ v.ents = <<>> /\ v.offset = snapshot.index + 1
    BY <1>1 DEF unstable_restore, UnstableType
<1>3. m = [l EXCEPT !.committed = snapshot.index, !.unstable = v]
    BY DEF restore
<1> HIDE DEF v
<1>4. /\ m \in LogType /\ m.storage = l.storage /\ m.applied = l.applied
      /\ m.unstable = v /\ m.committed = snapshot.index
    BY <1>1, <1>2, <1>3 DEF LogType
<1>5. snapshot # NoSnap
    BY <1>1, NoSnapType
<1>6. Joined(m)
    BY <1>2, <1>4, <1>5 DEF Joined
<1>7. Restored(l, m)
    BY <1>2, <1>4, <1>5, <1>6 DEF Restored
<1> QED BY <1>7 DEF Changed

-----------------------------------------------------------------------------
(* Events.                                                                 *)

LEMMA IdleSettled ==
    ASSUME Inv, Idle
    PROVE  Settled(log)
<1>1. log \in LogType /\ Joined(log) /\ Cursors
    BY DEF Inv, TypeInv
<1>2. Committed(log)
  <2>1. CASE pc = "start"
      BY <2>1 DEF Inv, Place
  <2>2. CASE ~has_ready(log)
      BY <2>2 DEF has_ready, Committed
  <2> QED BY <2>1, <2>2 DEF Idle
<1>3. log.storage.base.index \in Nat /\ log.storage.snap \in Nat /\ log.committed \in Nat
    BY <1>1, LogFields
<1>4. app.applied_index \in Nat /\ app.snapshot_index \in Nat
    BY DEF Inv, TypeInv
<1>5. log.storage.base.index <= log.committed
    BY <1>1, <1>3, <1>4 DEF Cursors
<1> QED BY <1>1, <1>2, <1>5 DEF Settled, Cursors

(* The log after an event; nothing else changes, and no LOG_FATAL fires.   *)
EventStep ==
    /\ Settled(log) /\ Changed(log, log')
    /\ pc \in {"start", "idle"} /\ pc' = "idle" /\ fatal' = FALSE
    /\ UNCHANGED <<app, delivered, rd>>

LEMMA BatchTypes == \A ents \in Batches : ents \in Seq(Terms) /\ ents # <<>>
<1> SUFFICES ASSUME NEW ents \in Batches PROVE ents \in Seq(Terms) /\ ents # <<>>
    OBVIOUS
<1>1. PICK n \in 1..2 : ents \in [1..n -> Terms]
    BY DEF Batches
<1>2. ents \in Seq(Terms) /\ Len(ents) = n
    BY <1>1
<1> QED BY <1>2

LEMMA EventResult ==
    ASSUME Inv, Event
    PROVE  EventStep
<1>1. ASSUME Idle, NEW l, Changed(log, l), NEW f, ~f, f \in BOOLEAN, Become(l, f)
      PROVE  EventStep
  <2>1. Settled(log)
      BY <1>1, IdleSettled
  <2> QED BY <1>1, <2>1 DEF EventStep, Become, Idle
<1>2. ASSUME Idle PROVE Changed(log, log)
  <2>1. Settled(log) /\ log \in LogType /\ log.committed \in Nat /\ last_index(log) \in Nat
      BY <1>2, IdleSettled, LogFields, Reads DEF Settled, Committed
  <2> QED BY <2>1 DEF Settled, Changed, Raised
<1>3. CASE AppendEntry
  <2>1. Idle /\ Settled(log)
      BY <1>3, IdleSettled DEF AppendEntry
  <2>2. PICK ents \in Batches : Become(append(log, last_index(log), ents),
                                       append_fails(log, last_index(log), ents))
      BY <1>3 DEF AppendEntry
  <2>3. ents \in Seq(Terms) /\ ents # <<>>
      BY BatchTypes
  <2>4. last_index(log) \in Nat /\ log.committed <= last_index(log)
      BY <2>1, Reads DEF Settled, Committed
  <2>5. /\ ~append_fails(log, last_index(log), ents)
        /\ Written(log, append(log, last_index(log), ents), last_index(log))
      BY <2>1, <2>3, <2>4, AppendAt
  <2>6. Changed(log, append(log, last_index(log), ents))
      BY <2>4, <2>5 DEF Changed
  <2>7. append_fails(log, last_index(log), ents) \in BOOLEAN
      BY DEF append_fails
  <2> QED BY <1>1, <2>1, <2>2, <2>5, <2>6, <2>7
<1>4. CASE MaybeCommit
  <2>1. Idle /\ Settled(log)
      BY <1>4, IdleSettled DEF MaybeCommit
  <2>2. PICK i \in 1..MaxIndex, t \in Terms : Become(maybe_commit(log, i, t), FALSE)
      BY <1>4 DEF MaybeCommit
  <2>3. CASE i > log.committed /\ term(log, i) = t
    <3>1. maybe_commit(log, i, t) = commit_to(log, i) /\ match_term(log, i, t) /\ i \in Nat
        BY <2>3, SnapAssumption DEF maybe_commit, match_term
    <3>2. log \in LogType /\ last_index(log) \in Nat
        BY <2>1, Reads DEF Settled, Committed
    <3>3. i <= last_index(log)
        BY <2>1, <3>1, <3>2, MatchWithin, LogFields
    <3>4. Changed(log, commit_to(log, i))
        BY <2>1, <3>1, <3>3, CommitRaises DEF Changed
    <3> QED BY <1>1, <2>1, <2>2, <3>1, <3>4
  <2>4. CASE ~(i > log.committed /\ term(log, i) = t)
    <3>1. maybe_commit(log, i, t) = log
        BY <2>4 DEF maybe_commit
    <3> QED BY <1>1, <1>2, <2>1, <2>2, <3>1
  <2> QED BY <2>3, <2>4
<1>5. CASE HandleAppend
  <2>1. Idle /\ Settled(log)
      BY <1>5, IdleSettled DEF HandleAppend
  <2>2. PICK index \in 0..MaxIndex, log_term \in 0..MaxTerm, c \in 0..MaxIndex,
             ents \in Batches \cup {<<>>} :
            /\ (log_term = 0) <=> (index = 0)
            /\ Become(handle_append_entries(log, index, log_term, c, ents),
                      /\ index >= log.committed
                      /\ match_term(log, index, log_term)
                      /\ maybe_append_fails(log, index, ents))
      BY <1>5 DEF HandleAppend
  <2>3. /\ index \in Nat /\ c \in Nat /\ log_term \in Nat
        /\ log_term # 0 => log_term \in Terms
      BY SnapAssumption DEF Terms
  <2>4. ents \in Seq(Terms)
    <3>1. <<>> \in Seq(Terms)
        OBVIOUS
    <3> QED BY <3>1, BatchTypes
  <2>5. CASE index >= log.committed /\ match_term(log, index, log_term)
    <3>1. /\ ~maybe_append_fails(log, index, ents)
          /\ Changed(log, maybe_append(log, index, c, ents))
        BY <2>1, <2>2, <2>3, <2>4, <2>5, MaybeAppend
    <3>2. handle_append_entries(log, index, log_term, c, ents) = maybe_append(log, index, c, ents)
        BY <2>5 DEF handle_append_entries
    <3> QED BY <1>1, <2>1, <2>2, <3>1, <3>2
  <2>6. CASE ~(index >= log.committed /\ match_term(log, index, log_term))
    <3>1. handle_append_entries(log, index, log_term, c, ents) = log
        BY <2>6 DEF handle_append_entries
    <3> QED BY <1>1, <1>2, <2>1, <2>2, <2>6, <3>1
  <2> QED BY <2>5, <2>6
<1>6. CASE HandleHeartbeat
  <2>1. Idle /\ Settled(log)
      BY <1>6, IdleSettled DEF HandleHeartbeat
  <2>2. PICK c \in 0..last_index(log) : Become(commit_to(log, c), commit_to_fails(log, c))
      BY <1>6 DEF HandleHeartbeat
  <2>3. last_index(log) \in Nat
      BY <2>1, Reads DEF Settled, Committed
  <2>4. c \in Nat /\ c <= last_index(log)
      BY <2>3
  <2>5. Changed(log, commit_to(log, c))
      BY <2>1, <2>4, CommitRaises DEF Changed
  <2>6. commit_to_fails(log, c) = FALSE
      BY <2>3, <2>4 DEF commit_to_fails
  <2> QED BY <1>1, <2>1, <2>2, <2>5, <2>6
<1>7. CASE HandleSnapshot
  <2>1. Idle /\ Settled(log)
      BY <1>7, IdleSettled DEF HandleSnapshot
  <2> DEFINE After(snapshot) ==
               CASE snapshot.index <= log.committed -> log
                 [] snapshot.index > log.committed
                      /\ match_term(log, snapshot.index, snapshot.term) ->
                      commit_to(log, snapshot.index)
                 [] OTHER -> restore(log, snapshot)
  <2>2. PICK snapshot \in [index : 1..MaxIndex, term : Terms] : Become(After(snapshot), FALSE)
      BY <1>7 DEF HandleSnapshot
  <2>3. snapshot.index \in Nat /\ snapshot.term \in Terms /\ snapshot \in SnapshotType
      BY SnapAssumption DEF SnapshotType, Terms
  <2>4. log \in LogType /\ last_index(log) \in Nat /\ log.committed \in Nat
      BY <2>1, Reads, LogFields DEF Settled, Committed
  <2>5. CASE snapshot.index <= log.committed
    <3>1. After(snapshot) = log
        BY <2>3, <2>4, <2>5
    <3> HIDE DEF After
    <3> QED BY <1>1, <1>2, <2>1, <2>2, <3>1
  <2>6. CASE snapshot.index > log.committed
               /\ match_term(log, snapshot.index, snapshot.term)
    <3>1. After(snapshot) = commit_to(log, snapshot.index)
        BY <2>3, <2>4, <2>6
    <3> HIDE DEF After
    <3>2. snapshot.index <= last_index(log)
        BY <2>1, <2>3, <2>4, <2>6, MatchWithin, LogFields
    <3>3. Changed(log, commit_to(log, snapshot.index))
        BY <2>1, <2>3, <3>2, CommitRaises DEF Changed
    <3> QED BY <1>1, <2>1, <2>2, <3>1, <3>3
  <2>7. CASE snapshot.index > log.committed
               /\ ~match_term(log, snapshot.index, snapshot.term)
    <3>1. After(snapshot) = restore(log, snapshot)
        BY <2>3, <2>4, <2>7
    <3> HIDE DEF After
    <3>2. Changed(log, restore(log, snapshot))
        BY <2>1, <2>3, <2>7, RestoreChanges
    <3> QED BY <1>1, <2>1, <2>2, <3>1, <3>2
  <2> QED BY <2>3, <2>4, <2>5, <2>6, <2>7
<1>8. CASE Tick
  <2>1. Idle /\ Become(log, FALSE)
    <3>1. ~fatal
        BY DEF Inv, TypeInv
    <3> QED BY <1>8, <3>1 DEF Tick, Idle
  <2> QED BY <1>1, <1>2, <2>1
<1> QED BY <1>3, <1>4, <1>5, <1>6, <1>7, <1>8 DEF Event


(* The fields of the other variables.                                      *)
LEMMA InvFields ==
    ASSUME Inv
    PROVE  /\ log \in LogType /\ Joined(log) /\ Cursors /\ Given(log.storage)
           /\ app \in [applied_index : Nat, snapshot_index : Nat]
           /\ app.applied_index \in Nat /\ app.snapshot_index \in Nat
           /\ delivered \in Seq(Nat) /\ Len(delivered) \in Nat
           /\ rd \in ReadyType /\ rd.entries \in Seq(Terms) /\ rd.offset \in Nat
           /\ rd.snapshot \in SnapshotType /\ rd.snapshot.index \in Nat
           /\ rd.committed_entries \in Seq(Terms) /\ Len(rd.committed_entries) \in Nat
           /\ rd.first \in Nat
           /\ last_index(log) \in Nat
<1>1. log \in LogType /\ Joined(log)
    BY DEF Inv, TypeInv
<1>2. last_index(log) \in Nat
    BY <1>1, Reads, ReadsSnapshot, LogFields
<1> QED BY <1>2 DEF Inv, TypeInv, ReadyType, SnapshotType

LEMMA EventInv ==
    ASSUME Inv, EventStep
    PROVE  Inv'
<1>1. /\ log.storage.base.index \in Nat /\ log.storage.snap \in Nat /\ log.committed \in Nat
      /\ log.applied \in Nat /\ storage_last_index(log.storage) \in Nat
      /\ log.unstable.offset \in Nat
    BY InvFields, LogFields
<1>2. AtIdle
    BY DEF Inv, Place, EventStep
<1>3. ASSUME log' \in LogType, Joined(log)', log'.storage = log.storage,
             log'.applied = log.applied, log.committed <= log'.committed,
             log'.committed <= last_index(log'), Ahead'
      PROVE  Inv'
  <2>1. TypeInv'
      BY <1>3, InvFields DEF EventStep, Inv, TypeInv
  <2>2. log'.committed \in Nat
      BY <1>3, LogFields
  <2>3. Cursors'
      BY <1>1, <1>3, <2>2, InvFields DEF Cursors, EventStep
  <2>4. Given(log.storage)'
      BY <1>3, InvFields DEF Given, EventStep
  <2>5. AtIdle'
      BY <1>2, <1>3 DEF AtIdle, EventStep
  <2>6. Place'
      BY <1>2, <2>5 DEF Place, EventStep
  <2> QED BY <1>3, <2>1, <2>3, <2>4, <2>6 DEF Inv
<1>4. CASE Raised(log, log')
  <2>1. /\ log' \in LogType /\ log'.storage = log.storage /\ log'.unstable = log.unstable
        /\ log'.applied = log.applied /\ log'.committed \in log.committed .. last_index(log)
      BY <1>4 DEF Raised
  <2>2. last_index(log') = last_index(log)
      BY <2>1, InvFields, SameReads
  <2>3. Joined(log)'
      BY <2>1, InvFields DEF Joined, EventStep, Settled, Committed
  <2>4. Ahead'
      BY <1>2, <2>1 DEF Ahead, AtIdle, EventStep
  <2> QED BY <1>1, <1>3, <2>1, <2>2, <2>3, <2>4, InvFields
<1>5. ASSUME NEW after \in Nat, Written(log, log', after)
      PROVE  Inv'
  <2>1. /\ log' \in LogType /\ Joined(log') /\ log'.storage = log.storage
        /\ log'.applied = log.applied /\ log'.committed \in log.committed .. last_index(log')
        /\ log'.unstable.snap = NoSnap /\ log'.unstable.offset \in {after + 1, log.unstable.offset}
        /\ after \in log.committed .. last_index(log)
      BY <1>5 DEF Written
  <2>2. last_index(log') \in Nat
      BY <2>1, Reads
  <2>3. Ahead'
    <3>1. app.applied_index < after + 1 /\ app.applied_index < log.unstable.offset
        BY <1>1, <1>2, <2>1, InvFields DEF Ahead, AtIdle, Cursors, EventStep, Settled, Committed
    <3> QED BY <2>1, <3>1 DEF Ahead, EventStep
  <2>4. Joined(log)'
      BY <2>1 DEF Joined
  <2>5. log.committed <= log'.committed /\ log'.committed <= last_index(log')
      BY <1>1, <2>1, <2>2
  <2> QED BY <1>3, <2>1, <2>3, <2>4, <2>5
<1>6. CASE Restored(log, log')
  <2>1. /\ log' \in LogType /\ Joined(log') /\ log'.storage = log.storage
        /\ log'.applied = log.applied /\ log'.unstable.snap # NoSnap
        /\ log'.unstable.snap.index > log.committed
      BY <1>6 DEF Restored
  <2>2. log'.unstable.snap.index \in Nat /\ log'.committed = log'.unstable.snap.index
      BY <2>1, LogFields DEF Joined
  <2>3. last_index(log') = log'.unstable.snap.index
      BY <2>1, ReadsSnapshot
  <2>4. Ahead'
      BY <1>1, <2>1, <2>2, InvFields, SMTT(30) DEF Ahead, Cursors, EventStep
  <2>5. Joined(log)'
      BY <2>1 DEF Joined
  <2> QED BY <1>1, <1>3, <2>1, <2>2, <2>3, <2>4, <2>5
<1> QED BY <1>4, <1>5, <1>6 DEF EventStep, Changed


-----------------------------------------------------------------------------
(* The Ready loop.                                                         *)

(* RawNode::ready finds everything it returns.                             *)
LEMMA SliceReads ==
    ASSUME NEW l \in LogType, Joined(l), l.unstable.snap = NoSnap,
           NEW lo \in Nat, NEW hi \in Nat,
           lo > l.storage.base.index, lo <= hi, hi <= last_index(l)
    PROVE  /\ ~slice_fails(l, lo, hi)
           /\ slice(l, lo, hi) \in Seq(Terms) /\ Len(slice(l, lo, hi)) = hi - lo + 1
           /\ \A k \in 1 .. hi - lo + 1 : slice(l, lo, hi)[k] = term(l, lo + k - 1)
<1> DEFINE u == l.unstable
           s == l.storage
<1>1. /\ u.offset \in Nat /\ u.ents \in Seq(Terms) /\ s.base.index \in Nat /\ s \in StorageType
      /\ Len(u.ents) \in Nat /\ storage_last_index(s) \in Nat
      /\ upper(u) = u.offset + Len(u.ents)
    BY LogFields DEF upper
<1>2. /\ u.offset \in 1 .. storage_last_index(s) + 1
      /\ u.ents = <<>> => u.offset = storage_last_index(s) + 1
    BY DEF Joined
<1>3. /\ first_index(l) = s.base.index + 1 /\ last_index(l) \in Nat
      /\ last_index(l) = IF u.ents = <<>> THEN storage_last_index(s) ELSE upper(u) - 1
    BY Reads
<1>4. ~slice_fails(l, lo, hi)
  <2>1. u.offset - 1 \in Int /\ Min({hi, u.offset - 1}) = IF hi <= u.offset - 1 THEN hi ELSE u.offset - 1
      BY <1>1, MinOfTwo, SMTT(30)
  <2>2. ~(Min({hi, u.offset - 1}) > storage_last_index(s))
      BY <1>1, <1>2, <2>1
  <2>3. ~(lo < first_index(l)) /\ ~(hi > last_index(l))
      BY <1>1, <1>3
  <2> QED BY <2>2, <2>3 DEF slice_fails
<1>5. ASSUME NEW i \in lo .. hi
      PROVE  /\ (IF i < u.offset THEN storage_term(s, i) ELSE maybe_term(u, i)) = term(l, i)
             /\ term(l, i) \in Terms
  <2>1. i \in s.base.index .. last_index(l) /\ i > s.base.index
      BY <1>1, <1>3
  <2>2. /\ term(l, i) = IF i < u.offset THEN storage_term(s, i) ELSE u.ents[i - u.offset + 1]
        /\ term(l, i) \in Terms
      BY <2>1, Reads
  <2>3. CASE i < u.offset
      BY <2>2, <2>3
  <2>4. CASE ~(i < u.offset)
    <3>1. i \in u.offset .. upper(u) - 1
        BY <1>1, <1>2, <1>3, <2>1, <2>4
    <3>2. maybe_term(u, i) = u.ents[i - u.offset + 1]
        BY <1>1, <2>4, <3>1 DEF maybe_term
    <3> QED BY <2>2, <2>4, <3>2
  <2> QED BY <2>3, <2>4
<1>6. slice(l, lo, hi) = [k \in 1 .. hi - lo + 1 |->
          IF lo + k - 1 < u.offset THEN storage_term(s, lo + k - 1)
          ELSE maybe_term(u, lo + k - 1)]
    BY DEF slice
<1>7. \A k \in 1 .. hi - lo + 1 : /\ slice(l, lo, hi)[k] = term(l, lo + k - 1)
                                   /\ term(l, lo + k - 1) \in Terms
  <2> SUFFICES ASSUME NEW k \in 1 .. hi - lo + 1
               PROVE  slice(l, lo, hi)[k] = term(l, lo + k - 1) /\ term(l, lo + k - 1) \in Terms
      OBVIOUS
  <2>1. lo + k - 1 \in lo .. hi
      OBVIOUS
  <2> QED BY <1>5, <1>6, <2>1
<1>8. hi - lo + 1 \in Nat /\ slice(l, lo, hi) \in [1 .. hi - lo + 1 -> Terms]
    BY <1>6, <1>7
<1>9. slice(l, lo, hi) \in Seq(Terms) /\ Len(slice(l, lo, hi)) = hi - lo + 1
    BY <1>8
<1> QED BY <1>4, <1>7, <1>9

LEMMA ReadyInv ==
    ASSUME Inv, Ready
    PROVE  Inv' /\ UNCHANGED <<log, app, delivered>>
<1> DEFINE lo == next_offset(log)
           fails == has_next_entries(log) /\ slice_fails(log, lo, log.committed)
           his == IF has_next_entries(log) THEN lo..log.committed ELSE {lo - 1}
<1>1. /\ log.storage.base.index \in Nat /\ log.storage.snap \in Nat /\ log.committed \in Nat
      /\ log.applied \in Nat /\ storage_last_index(log.storage) \in Nat
      /\ log.unstable.offset \in Nat /\ log.unstable.ents \in Seq(Terms)
      /\ Len(log.unstable.ents) \in Nat
      /\ log.unstable.snap \in SnapshotType /\ log.unstable.snap.index \in Nat
      /\ upper(log.unstable) = log.unstable.offset + Len(log.unstable.ents)
    BY InvFields, LogFields DEF upper
<1>2. pc = "idle" /\ AtIdle /\ pc # "store"
    BY DEF Inv, Place, Ready
<1>3. PICK hi \in his :
          /\ fatal' = fails
          /\ pc' = IF fails THEN pc ELSE "store"
          /\ rd' = IF fails THEN NoReady ELSE
                      [entries |-> ready_entries(log),
                       offset |-> upper(log.unstable) - Len(ready_entries(log)),
                       snapshot |-> log.unstable.snap,
                       committed_entries |-> slice(log, lo, hi),
                       first |-> lo]
          /\ UNCHANGED <<log, app, delivered>>
    BY DEF Ready
<1>4. log.applied + 1 \in Int /\ first_index(log) \in Int
  <2>1. CASE log.unstable.snap = NoSnap
      BY <1>1, <2>1, SMTT(30) DEF first_index
  <2>2. CASE log.unstable.snap # NoSnap
      BY <1>1, <2>2, SMTT(30) DEF first_index
  <2> QED BY <2>1, <2>2
<1>5. lo = IF log.applied + 1 >= first_index(log) THEN log.applied + 1 ELSE first_index(log)
    BY <1>4, MaxOfTwo DEF next_offset
<1>6. /\ log.unstable.snap = NoSnap => lo = log.applied + 1
      /\ log.unstable.snap # NoSnap => lo = log.unstable.snap.index + 1
      /\ lo \in Nat
  <2>1. CASE log.unstable.snap = NoSnap
    <3>1. first_index(log) = log.storage.base.index + 1
        BY <2>1 DEF first_index
    <3>2. log.storage.base.index <= log.applied
        BY <1>1, <1>2, InvFields, SMTT(30) DEF Cursors, AtIdle
    <3> QED BY <1>1, <1>5, <2>1, <3>1, <3>2, SMTT(30)
  <2>2. CASE log.unstable.snap # NoSnap
    <3>1. first_index(log) = log.unstable.snap.index + 1
        BY <2>2 DEF first_index
    <3>2. log.applied < log.unstable.snap.index
        BY <1>2, <2>2 DEF AtIdle, Ahead
    <3> QED BY <1>1, <1>5, <2>2, <3>1, <3>2, SMTT(30)
  <2> QED BY <2>1, <2>2
<1> HIDE DEF lo
<1>7. log.unstable.snap # NoSnap => ~has_next_entries(log)
  <2>1. log.unstable.snap # NoSnap => log.committed = log.unstable.snap.index
      BY InvFields DEF Joined
  <2> QED BY <1>1, <1>6, <2>1 DEF has_next_entries, lo
<1>8. has_next_entries(log) => /\ lo <= log.committed /\ lo > log.storage.base.index
                               /\ lo = app.applied_index + 1
  <2>1. has_next_entries(log) => lo <= log.committed
      BY <1>1, <1>6 DEF has_next_entries, lo
  <2>2. log.storage.base.index <= log.applied
      BY <1>1, <1>2, InvFields, SMTT(30) DEF Cursors, AtIdle
  <2> QED BY <1>1, <1>2, <1>6, <1>7, <2>1, <2>2 DEF AtIdle
<1>9. ~fails
  <2>1. CASE ~has_next_entries(log)
      BY <2>1
  <2>2. CASE has_next_entries(log)
      BY <1>1, <1>6, <1>7, <1>8, <2>2, SliceReads, InvFields DEF Cursors
  <2> QED BY <2>1, <2>2
<1>10. /\ slice(log, lo, hi) \in Seq(Terms)
       /\ slice(log, lo, hi) # <<>> =>
             /\ has_next_entries(log)
             /\ app.applied_index + Len(slice(log, lo, hi)) <= log.committed
             /\ \A k \in 1 .. Len(slice(log, lo, hi)) :
                   slice(log, lo, hi)[k] = term(log, app.applied_index + k)
  <2>1. CASE ~has_next_entries(log)
    <3>1. hi = lo - 1
        BY <1>3, <2>1
    <3>2. hi - lo + 1 = 0
        BY <1>6, <3>1
    <3>3. slice(log, lo, hi) = <<>>
        BY <3>2 DEF slice
    <3> QED BY <3>3
  <2>2. CASE has_next_entries(log)
    <3>1. hi \in lo..log.committed
        BY <1>3, <2>2
    <3>2. hi \in Nat /\ lo <= hi /\ hi <= last_index(log) /\ hi <= log.committed
        BY <1>1, <1>6, <3>1, InvFields, SMTT(30) DEF Cursors
    <3>3. /\ slice(log, lo, hi) \in Seq(Terms) /\ Len(slice(log, lo, hi)) = hi - lo + 1
          /\ \A k \in 1 .. hi - lo + 1 : slice(log, lo, hi)[k] = term(log, lo + k - 1)
        BY <1>6, <1>7, <1>8, <2>2, <3>2, SliceReads, InvFields, SMTT(30)
    <3>4. \A k \in 1 .. hi - lo + 1 : lo + k - 1 = app.applied_index + k
        BY <1>6, <1>8, <2>2, <3>2, InvFields
    <3>5. app.applied_index + (hi - lo + 1) <= log.committed
        BY <1>1, <1>6, <1>8, <2>2, <3>2, InvFields, SMTT(30)
    <3> HIDE DEF his
    <3> QED BY <2>2, <3>3, <3>4, <3>5
  <2> QED BY <2>1, <2>2
<1>11. /\ fatal' = FALSE /\ pc' = "store" /\ log' = log /\ app' = app /\ delivered' = delivered
       /\ rd' = [entries |-> log.unstable.ents, offset |-> log.unstable.offset,
                 snapshot |-> log.unstable.snap,
                 committed_entries |-> slice(log, lo, hi), first |-> lo]
  <2>1. ready_entries(log) = log.unstable.ents
      BY DEF ready_entries
  <2>2. upper(log.unstable) - Len(log.unstable.ents) = log.unstable.offset
      BY <1>1
  <2> HIDE DEF fails, his
  <2> QED BY <1>3, <1>9, <2>1, <2>2
<1> HIDE DEF fails, his
<1>12. TypeInv'
    BY <1>1, <1>6, <1>10, <1>11, InvFields DEF TypeInv, ReadyType
<1>13. Joined(log)' /\ Cursors' /\ Given(log.storage)'
    BY <1>11, InvFields DEF Joined, Cursors, Given
<1>14. Copy' /\ Ahead' /\ log'.applied = app'.applied_index
    BY <1>2, <1>11 DEF Copy, Ahead, AtIdle
<1>15. ToApply'
    BY <1>7, <1>8, <1>10, <1>11 DEF ToApply
<1>16. Place'
    BY <1>11, <1>14, <1>15 DEF Place, AtStore
<1> QED BY <1>11, <1>12, <1>13, <1>16 DEF Inv


(* Two logs are read alike.                                                *)
SameView(l, m) ==
    /\ first_index(m) = first_index(l) /\ last_index(m) = last_index(l)
    /\ \A i \in first_index(l) - 1 .. last_index(l) : term(m, i) = term(l, i)

(* Once the storage has the unstable part, all is read from the storage.   *)
LEMMA CopiedReads ==
    ASSUME NEW l \in LogType, Joined(l), Copied(l), l.unstable.snap = NoSnap
    PROVE  /\ first_index(l) = l.storage.base.index + 1
           /\ last_index(l) = storage_last_index(l.storage)
           /\ \A i \in l.storage.base.index .. storage_last_index(l.storage) :
                 term(l, i) = storage_term(l.storage, i)
<1> DEFINE u == l.unstable
           s == l.storage
<1>1. /\ u.offset \in Nat /\ u.ents \in Seq(Terms) /\ s.base.index \in Nat /\ s \in StorageType
      /\ Len(u.ents) \in Nat /\ storage_last_index(s) \in Nat
      /\ upper(u) = u.offset + Len(u.ents)
    BY LogFields DEF upper
<1>2. u.ents # <<>> => /\ upper(u) = storage_last_index(s) + 1
                       /\ \A i \in u.offset .. upper(u) - 1 :
                             i >= s.base.index => storage_term(s, i) = u.ents[i - u.offset + 1]
    BY DEF Copied
<1>3. u.ents = <<>> => u.offset = storage_last_index(s) + 1
    BY DEF Joined
<1>4. last_index(l) = storage_last_index(s)
    BY <1>1, <1>2, Reads
<1>5. ASSUME NEW i \in s.base.index .. storage_last_index(s)
      PROVE  term(l, i) = storage_term(s, i)
  <2>1. term(l, i) = IF i < u.offset THEN storage_term(s, i) ELSE u.ents[i - u.offset + 1]
      BY <1>4, Reads
  <2>2. CASE i < u.offset
      BY <2>1, <2>2
  <2>3. CASE ~(i < u.offset)
    <3>1. u.ents # <<>> /\ i \in u.offset .. upper(u) - 1 /\ i >= s.base.index
        BY <1>1, <1>2, <1>3, <2>3
    <3> QED BY <1>2, <2>1, <2>3, <3>1
  <2> QED BY <2>2, <2>3
<1> QED BY <1>4, <1>5, Reads

(* MemoryStorage::append of entries that start within the storage.         *)
LEMMA StorageAppend ==
    ASSUME NEW s \in StorageType, NEW offset \in Nat, NEW ents \in Seq(Terms), ents # <<>>,
           s.base.index < offset, offset <= storage_last_index(s) + 1
    PROVE  LET t == storage_append(s, offset, ents)
           IN  /\ t \in StorageType /\ t.snap = s.snap /\ t.base = s.base
               /\ storage_last_index(t) = offset + Len(ents) - 1
               /\ \A i \in s.base.index .. offset - 1 : storage_term(t, i) = storage_term(s, i)
               /\ \A i \in offset .. offset + Len(ents) - 1 :
                     storage_term(t, i) = ents[i - offset + 1]
<1> DEFINE t == storage_append(s, offset, ents)
           b == s.base.index
           head == SubSeq(s.ents, 1, offset - (b + 1))
<1>1. /\ b \in Nat /\ s.ents \in Seq(Terms) /\ Len(s.ents) \in Nat
      /\ storage_last_index(s) = b + Len(s.ents)
    BY DEF StorageType, SnapshotType, storage_last_index
<1>2. Len(ents) \in Nat /\ Len(ents) > 0
    OBVIOUS
<1>3. Max({b + 1, offset}) = offset
    BY <1>1, MaxOfTwo, SMTT(30)
<1>4. SubSeq(ents, offset - offset + 1, Len(ents)) = ents
    BY SubSeqFull
<1>5. ~(offset + Len(ents) - 1 < b + 1)
    BY <1>1, <1>2
<1>6. t = [s EXCEPT !.ents = head \o ents]
    BY <1>3, <1>4, <1>5 DEF storage_append
<1>7. /\ head \in Seq(Terms) /\ Len(head) = offset - (b + 1)
      /\ \A k \in 1 .. offset - (b + 1) : head[k] = s.ents[k]
  <2>1. offset - (b + 1) \in 0 .. Len(s.ents)
      BY <1>1
  <2>2. \A k \in 1 .. offset - (b + 1) : s.ents[k] \in Terms
      BY <1>1, <2>1
  <2> QED BY <1>1, <2>1, <2>2, SubSeqProperties, SMTT(30)
<1> HIDE DEF head
<1>8. /\ head \o ents \in Seq(Terms) /\ Len(head \o ents) = offset - (b + 1) + Len(ents)
      /\ \A k \in 1 .. offset - (b + 1) : (head \o ents)[k] = s.ents[k]
      /\ \A k \in 1 .. Len(ents) : (head \o ents)[k + (offset - (b + 1))] = ents[k]
  <2> DEFINE d == offset - (b + 1)
  <2>1. d \in Nat /\ Len(head) = d
      BY <1>1, <1>7
  <2>2. /\ head \o ents \in Seq(Terms) /\ Len(head \o ents) = Len(head) + Len(ents)
        /\ \A k \in 1 .. Len(head) + Len(ents) :
              (head \o ents)[k] = IF k <= Len(head) THEN head[k] ELSE ents[k - Len(head)]
      BY <1>7, ConcatProperties
  <2> HIDE DEF d
  <2>3. \A k \in 1 .. d : (head \o ents)[k] = head[k]
      BY <1>2, <2>1, <2>2
  <2>4. ASSUME NEW k \in 1 .. Len(ents) PROVE (head \o ents)[k + d] = ents[k]
    <3>1. k + d \in 1 .. Len(head) + Len(ents) /\ ~(k + d <= Len(head)) /\ (k + d) - Len(head) = k
        BY <1>2, <2>1
    <3> QED BY <2>2, <3>1
  <2> QED BY <1>7, <2>1, <2>2, <2>3, <2>4 DEF d
<1>9. /\ t \in StorageType /\ t.snap = s.snap /\ t.base = s.base /\ t.ents = head \o ents
    BY <1>6, <1>8 DEF StorageType
<1>10. storage_last_index(t) = offset + Len(ents) - 1
    BY <1>1, <1>2, <1>8, <1>9 DEF storage_last_index
<1> HIDE DEF t
<1>11. ASSUME NEW i \in b .. offset - 1
       PROVE  storage_term(t, i) = storage_term(s, i)
  <2>1. CASE i = b
      BY <1>9, <2>1, StorageTerm
  <2>2. CASE i # b
    <3>1. i \in b + 1 .. storage_last_index(s) /\ i \in t.base.index + 1 .. storage_last_index(t)
        BY <1>1, <1>2, <1>9, <1>10, <2>2, SMTT(30)
    <3>2. storage_term(s, i) = s.ents[i - b] /\ storage_term(t, i) = t.ents[i - b]
        BY <1>9, <3>1, StorageTerm
    <3>3. i - b \in 1 .. offset - (b + 1)
        BY <1>1, <2>2
    <3> QED BY <1>8, <1>9, <3>2, <3>3
  <2> QED BY <2>1, <2>2
<1>12. ASSUME NEW i \in offset .. offset + Len(ents) - 1
       PROVE  storage_term(t, i) = ents[i - offset + 1]
  <2>1. i \in t.base.index + 1 .. storage_last_index(t)
      BY <1>1, <1>2, <1>9, <1>10
  <2>2. storage_term(t, i) = t.ents[i - b]
      BY <1>9, <2>1, StorageTerm
  <2>3. i - offset + 1 \in 1 .. Len(ents) /\ i - b = (i - offset + 1) + (offset - (b + 1))
      BY <1>1, <1>2
  <2> QED BY <1>8, <1>9, <2>2, <2>3
<1> QED BY <1>9, <1>10, <1>11, <1>12 DEF t

LEMMA ZeroSeq ==
    ASSUME NEW n \in Nat
    PROVE  [i \in 1..n |-> 0] \in Seq(Nat) /\ Len([i \in 1..n |-> 0]) = n
<1>1. [i \in 1..n |-> 0] \in [1..n -> Nat]
    OBVIOUS
<1> QED BY <1>1

(* A step of the loop that stores the Ready.                               *)
LEMMA StoreInv ==
    ASSUME Inv, Store
    PROVE  /\ Inv' /\ SameView(log, log') /\ log'.committed = log.committed
           /\ IF log.unstable.snap = NoSnap THEN delivered' = delivered
              ELSE /\ Len(delivered) < log.unstable.snap.index
                   /\ delivered' = [i \in 1 .. log.unstable.snap.index |-> 0]
<1> DEFINE u == log.unstable
           s == log.storage
<1>1. /\ s \in StorageType /\ u \in UnstableType /\ s.base.index \in Nat /\ s.snap \in Nat
      /\ u.offset \in Nat /\ u.ents \in Seq(Terms) /\ Len(u.ents) \in Nat
      /\ u.snap \in SnapshotType /\ u.snap.index \in Nat
      /\ storage_last_index(s) \in Nat /\ log.committed \in Nat /\ log.applied \in Nat
      /\ upper(u) = u.offset + Len(u.ents)
    BY InvFields, LogFields DEF upper
<1>2. pc = "store" /\ AtStore
    BY DEF Inv, Place, Store
<1>3. rd.snapshot = u.snap /\ rd.entries = u.ents /\ rd.offset = u.offset /\ rd' = rd
    BY <1>2 DEF AtStore, Copy, Store
<1>4. ASSUME NEW t \in StorageType, log' = [log EXCEPT !.storage = t]
      PROVE  /\ log' \in LogType /\ log'.storage = t /\ log'.unstable = u
             /\ log'.committed = log.committed /\ log'.applied = log.applied
    BY <1>4, InvFields DEF LogType
<1>5. CASE u.snap # NoSnap
  <2> DEFINE t == [snap |-> u.snap.index, base |-> u.snap, ents |-> <<>>]
  <2>1. /\ u.ents = <<>> /\ u.offset = u.snap.index + 1 /\ log.committed = u.snap.index
        /\ app.applied_index < u.snap.index
      BY <1>2, <1>5, InvFields DEF Joined, AtStore, Ahead
  <2>2. ~(s.snap >= u.snap.index)
      BY <1>1, <2>1, InvFields, SMTT(30) DEF Cursors
  <2>3. apply_snapshot(s, u.snap) = t
      BY <2>2 DEF apply_snapshot
  <2>4. ~(u.snap.index <= app.applied_index)
      BY <1>1, <2>1, InvFields, SMTT(30)
  <2>5. storage_append(t, u.offset, u.ents) = t /\ ~storage_gap(t, u.offset, u.ents)
      BY <2>1 DEF storage_append, storage_gap
  <2>6. t \in StorageType
      BY <1>1 DEF StorageType
  <2>7. t.snap = u.snap.index /\ t.base = u.snap /\ t.ents = <<>>
      OBVIOUS
  <2>8. storage_last_index(t) = u.snap.index
      BY <1>1 DEF storage_last_index
  <2> HIDE DEF t
  <2>9. /\ fatal' = FALSE /\ log' = [log EXCEPT !.storage = t] /\ pc' = "publish"
        /\ app' = [applied_index |-> u.snap.index, snapshot_index |-> u.snap.index]
        /\ delivered' = [i \in 1 .. u.snap.index |-> 0]
      BY <1>3, <1>5, <2>3, <2>4, <2>5 DEF Store
  <2>10. /\ log' \in LogType /\ log'.storage = t /\ log'.unstable = u
         /\ log'.committed = log.committed /\ log'.applied = log.applied
      BY <1>4, <2>6, <2>9
  <2>11. delivered' \in Seq(Nat) /\ Len(delivered') = u.snap.index
      BY <1>1, <2>9, ZeroSeq
  <2>12. TypeInv'
      BY <1>1, <1>3, <2>9, <2>10, <2>11, InvFields DEF TypeInv
  <2>13. Joined(log)'
      BY <1>5, <2>1, <2>10 DEF Joined
  <2>14. /\ first_index(log') = u.snap.index + 1 /\ last_index(log') = u.snap.index
         /\ term(log', u.snap.index) = u.snap.term
      BY <1>5, <2>10, <2>13, ReadsSnapshot DEF Joined
  <2>15. /\ first_index(log) = u.snap.index + 1 /\ last_index(log) = u.snap.index
         /\ term(log, u.snap.index) = u.snap.term
      BY <1>5, InvFields, ReadsSnapshot
  <2>16. SameView(log, log')
      BY <1>1, <2>14, <2>15 DEF SameView
  <2>17. app'.applied_index = u.snap.index /\ app'.snapshot_index = u.snap.index
      BY <2>9
  <2>18. Cursors'
    <3>1. log.applied <= u.snap.index
        BY <1>1, <2>1, InvFields, SMTT(30) DEF Cursors
    <3> QED BY <1>1, <2>1, <2>7, <2>8, <2>10, <2>11, <2>14, <2>17, <3>1 DEF Cursors
  <2>19. Given(log.storage)'
    <3>1. t.base.index + 1 .. Len(delivered') = {}
        BY <1>1, <2>7, <2>11
    <3> QED BY <2>10, <3>1 DEF Given
  <2>20. rd.committed_entries = <<>>
      BY <1>2, <1>5 DEF AtStore, ToApply
  <2>21. Copied(log') /\ Copy' /\ ToApply'
      BY <1>3, <1>5, <2>7, <2>10, <2>20 DEF Copied, Copy, ToApply
  <2>22. Place'
      BY <1>5, <2>9, <2>10, <2>17, <2>21 DEF Place, AtPublish, Copied
  <2>23. Len(delivered) < u.snap.index
      BY <2>1, InvFields DEF Cursors
  <2> QED BY <1>5, <2>9, <2>10, <2>12, <2>13, <2>16, <2>18, <2>19, <2>22, <2>23 DEF Inv
<1>6. CASE u.snap = NoSnap
  <2> DEFINE t == storage_append(s, u.offset, u.ents)
  <2>1. /\ u.offset \in 1 .. storage_last_index(s) + 1
        /\ u.ents = <<>> => u.offset = storage_last_index(s) + 1
        /\ app.applied_index < u.offset
      BY <1>2, <1>6, InvFields DEF Joined, AtStore, Ahead
  <2>2. s.base.index <= app.applied_index
      BY <1>1, InvFields, SMTT(30) DEF Cursors
  <2>3. s.base.index < u.offset
      BY <1>1, <2>1, <2>2, InvFields, SMTT(30)
  <2>4. ~storage_gap(s, u.offset, u.ents)
      BY <1>1, <2>1 DEF storage_gap
  <2>5. /\ t \in StorageType /\ t.snap = s.snap /\ t.base = s.base
        /\ storage_last_index(t) = IF u.ents = <<>> THEN storage_last_index(s) ELSE upper(u) - 1
        /\ \A i \in s.base.index .. u.offset - 1 : storage_term(t, i) = storage_term(s, i)
        /\ u.ents # <<>> => \A i \in u.offset .. upper(u) - 1 :
                               storage_term(t, i) = u.ents[i - u.offset + 1]
    <3>1. CASE u.ents = <<>>
      <4>1. t = s
          BY <3>1 DEF storage_append
      <4> QED BY <1>1, <3>1, <4>1
    <3>2. CASE u.ents # <<>>
      <4>1. u.offset <= storage_last_index(s) + 1 /\ u.offset + Len(u.ents) - 1 = upper(u) - 1
        <5> HIDE DEF u, s
        <5> QED BY <1>1, <2>1
      <4>2. /\ t \in StorageType /\ t.snap = s.snap /\ t.base = s.base
            /\ storage_last_index(t) = u.offset + Len(u.ents) - 1
            /\ \A i \in s.base.index .. u.offset - 1 : storage_term(t, i) = storage_term(s, i)
            /\ \A i \in u.offset .. u.offset + Len(u.ents) - 1 :
                  storage_term(t, i) = u.ents[i - u.offset + 1]
          BY <1>1, <2>3, <3>2, <4>1, StorageAppend
      <4> QED BY <3>2, <4>1, <4>2
    <3> QED BY <3>1, <3>2
  <2> HIDE DEF t
  <2>6. /\ fatal' = FALSE /\ log' = [log EXCEPT !.storage = t] /\ pc' = "publish"
        /\ app' = app /\ delivered' = delivered
      BY <1>3, <1>6, <2>4 DEF Store, t
  <2>7. /\ log' \in LogType /\ log'.storage = t /\ log'.unstable = u
        /\ log'.committed = log.committed /\ log'.applied = log.applied
      BY <1>4, <2>5, <2>6
  <2>8. TypeInv'
      BY <1>3, <2>6, <2>7, InvFields DEF TypeInv
  <2>9. u.ents # <<>> => Len(u.ents) > 0
      BY <1>1
  <2>10. Joined(log)'
      BY <1>1, <1>6, <2>1, <2>5, <2>7, <2>9 DEF Joined
  <2>11. /\ first_index(log') = s.base.index + 1
         /\ last_index(log') = IF u.ents = <<>> THEN storage_last_index(t) ELSE upper(u) - 1
         /\ \A i \in s.base.index .. last_index(log') :
               term(log', i) = IF i < u.offset THEN storage_term(t, i) ELSE u.ents[i - u.offset + 1]
    <3>1. Joined(log')
        BY <2>10 DEF Joined
    <3> QED BY <1>6, <2>5, <2>7, <3>1, Reads
  <2>12. /\ first_index(log) = s.base.index + 1 /\ last_index(log) \in Nat
         /\ last_index(log) = IF u.ents = <<>> THEN storage_last_index(s) ELSE upper(u) - 1
         /\ \A i \in s.base.index .. last_index(log) :
               term(log, i) = IF i < u.offset THEN storage_term(s, i) ELSE u.ents[i - u.offset + 1]
      BY <1>6, InvFields, Reads
  <2>13. last_index(log') = last_index(log)
      BY <2>5, <2>11, <2>12
  <2>14. ASSUME NEW i \in s.base.index .. last_index(log)
         PROVE  term(log', i) = term(log, i)
    <3>1. i < u.offset => i \in s.base.index .. u.offset - 1
        BY <1>1, <2>12
    <3> QED BY <2>5, <2>11, <2>12, <2>13, <3>1
  <2>15. SameView(log, log')
      BY <1>1, <2>11, <2>12, <2>13, <2>14 DEF SameView
  <2>16. app.applied_index <= storage_last_index(t)
    <3>1. app.applied_index <= storage_last_index(s)
        BY InvFields DEF Cursors
    <3> QED BY <1>1, <2>1, <2>5, <2>9, <3>1, InvFields, SMTT(30)
  <2>17. Cursors'
      BY <2>5, <2>6, <2>7, <2>13, <2>16, InvFields DEF Cursors
  <2>18. Given(log.storage)'
    <3>1. \A i \in s.base.index + 1 .. Len(delivered) : i \in s.base.index .. u.offset - 1
      <4>1. Len(delivered) = app.applied_index
          BY InvFields DEF Cursors
      <4>2. app.applied_index \in Nat
          BY InvFields
      <4> HIDE DEF u, s
      <4> QED BY <1>1, <2>1, <4>1, <4>2, SMTT(30)
    <3>2. \A i \in s.base.index + 1 .. Len(delivered) : storage_term(t, i) = storage_term(s, i)
        BY <2>5, <3>1
    <3> QED BY <2>5, <2>6, <2>7, <3>2, InvFields DEF Given
  <2>19. Copied(log')
      BY <1>1, <1>6, <2>5, <2>7 DEF Copied
  <2>20. Copy'
      BY <1>3, <2>7 DEF Copy
  <2>21. ToApply'
    <3>1. ASSUME rd.committed_entries # <<>>
          PROVE  /\ rd.first = app.applied_index + 1
                 /\ app.applied_index + Len(rd.committed_entries) <= log.committed
                 /\ \A k \in 1 .. Len(rd.committed_entries) :
                       rd.committed_entries[k] = term(log, app.applied_index + k)
        BY <1>2, <3>1 DEF AtStore, ToApply
    <3>2. ASSUME rd.committed_entries # <<>>, NEW k \in 1 .. Len(rd.committed_entries)
          PROVE  rd.committed_entries[k] = term(log', app.applied_index + k)
      <4>1. app.applied_index + k \in s.base.index .. last_index(log)
        <5>1. log.committed <= last_index(log)
            BY InvFields DEF Cursors
        <5>2. /\ Len(rd.committed_entries) \in Nat /\ app.applied_index \in Nat
              /\ last_index(log) \in Nat
            BY InvFields
        <5> HIDE DEF u, s
        <5>3. /\ s.base.index \in Nat /\ log.committed \in Nat
              /\ app.applied_index + Len(rd.committed_entries) <= log.committed
            BY <1>1, <3>1, <3>2
        <5>4. app.applied_index + k <= last_index(log)
            BY <3>2, <5>1, <5>2, <5>3
        <5> QED BY <2>2, <3>2, <5>2, <5>3, <5>4
      <4> QED BY <2>14, <3>1, <3>2, <4>1
    <3> QED BY <1>3, <1>6, <2>6, <2>7, <3>1, <3>2 DEF ToApply
  <2>22. Place'
      BY <1>2, <1>6, <2>6, <2>7, <2>19, <2>20, <2>21 DEF Place, AtPublish, Copied, AtStore
  <2> QED BY <1>6, <2>6, <2>7, <2>8, <2>10, <2>15, <2>17, <2>18, <2>22 DEF Inv
<1> QED BY <1>5, <1>6


(* What one Ready gives to the store: the next committed entries, in the   *)
(* order of the log.                                                       *)
LEMMA PublishInv ==
    ASSUME ~SelfRemoval, Inv, Publish
    PROVE  LET ce == rd.committed_entries
           IN  /\ Inv' /\ SameView(log, log')
               /\ delivered' = delivered \o ce
               /\ Len(delivered) + Len(ce) <= log.committed
               /\ log'.committed \in log.committed .. last_index(log)
               /\ ce = <<>> => log'.committed = log.committed
               /\ ce # <<>> => first_index(log) - 1 <= Len(delivered)
               /\ \A k \in 1 .. Len(ce) : ce[k] = term(log, Len(delivered) + k)
<1> DEFINE u == log.unstable
           s == log.storage
           ce == rd.committed_entries
           a == app.applied_index
<1>1. /\ log \in LogType /\ Joined(log) /\ s \in StorageType
      /\ s.base.index \in Nat /\ s.snap \in Nat /\ u.snap.index \in Nat
      /\ storage_last_index(s) \in Nat /\ log.committed \in Nat /\ log.applied \in Nat
    BY InvFields, LogFields
<1>2. pc = "publish" /\ AtPublish
    BY DEF Inv, Place, Publish
<1>3. /\ a \in Nat /\ ce \in Seq(Terms) /\ Len(ce) \in Nat /\ last_index(log) \in Nat
      /\ delivered \in Seq(Nat) /\ rd.first \in Nat
    BY InvFields
<1>4. /\ s.base.index <= s.snap /\ s.snap = app.snapshot_index /\ app.snapshot_index <= a
      /\ a = Len(delivered) /\ a <= storage_last_index(s) /\ log.applied <= a
      /\ a <= log.committed /\ log.committed <= last_index(log)
    BY InvFields DEF Cursors
<1>5. ce # <<>> => /\ u.snap = NoSnap /\ rd.first = a + 1 /\ a + Len(ce) <= log.committed
                   /\ \A k \in 1 .. Len(ce) : ce[k] = term(log, a + k)
    BY <1>2 DEF AtPublish, ToApply
<1>6. ~entries_to_apply_fails(app)
    BY <1>3, <1>5 DEF entries_to_apply_fails
<1>7. entries_to_apply(app) = ce
  <2>1. CASE ce = <<>>
      BY <2>1 DEF entries_to_apply
  <2>2. CASE ce # <<>>
    <3>1. a - rd.first + 2 = 1
        BY <1>3, <1>5, <2>2
    <3>2. SubSeq(ce, 1, Len(ce)) = ce
        BY <1>3, SubSeqFull
    <3> QED BY <2>2, <3>1, <3>2 DEF entries_to_apply
  <2> QED BY <2>1, <2>2
<1>8. PICK c \in log.committed .. (IF ce = <<>> THEN log.committed ELSE last_index(log)) :
          /\ delivered' = delivered \o SubSeq(ce, 1, Len(ce))
          /\ app' = [app EXCEPT !.applied_index = @ + Len(ce)]
          /\ log' = commit_to(log, c)
          /\ pc' = "snapshot" /\ fatal' = fatal /\ rd' = rd
    BY <1>6, <1>7 DEF Publish
<1>9. delivered' = delivered \o ce
    BY <1>3, <1>8, SubSeqFull
<1>10. /\ c \in Nat /\ log.committed <= c /\ c <= last_index(log)
       /\ ce = <<>> => c = log.committed
    BY <1>1, <1>3, <1>4, <1>8
<1>11. /\ log' \in LogType /\ log'.storage = s /\ log'.unstable = u
       /\ log'.applied = log.applied /\ log'.committed = c
  <2> DEFINE m == commit_to(log, c)
  <2>1. /\ m \in LogType /\ m.storage = s /\ m.unstable = u /\ m.applied = log.applied
        /\ m.committed = IF log.committed >= c THEN log.committed ELSE c
      BY <1>1, <1>10, CommitTo
  <2> HIDE DEF m
  <2>2. m.committed = c
      BY <1>1, <1>10, <2>1
  <2> QED BY <1>8, <2>1, <2>2 DEF m
<1>12. first_index(log') = first_index(log) /\ last_index(log') = last_index(log)
       /\ \A i : term(log', i) = term(log, i)
    BY <1>1, <1>11, SameReads
<1>13. SameView(log, log')
    BY <1>12 DEF SameView
<1>14. /\ app'.applied_index = a + Len(ce) /\ app'.snapshot_index = app.snapshot_index
       /\ app' \in [applied_index : Nat, snapshot_index : Nat]
  <2>1. app \in [applied_index : Nat, snapshot_index : Nat]
      BY InvFields
  <2>2. a + Len(ce) \in Nat
      BY <1>3
  <2> QED BY <1>8, <2>1, <2>2
<1>15. /\ delivered' \in Seq(Nat) /\ Len(delivered') = a + Len(ce)
       /\ \A i \in 1 .. a : delivered'[i] = delivered[i]
       /\ \A i \in a + 1 .. a + Len(ce) : delivered'[i] = ce[i - a]
  <2>1. ce \in Seq(Nat)
    <3>1. Terms \subseteq Nat
        BY SnapAssumption DEF Terms
    <3> QED BY <1>3, <3>1, SeqMonotonic
  <2>2. /\ delivered' \in Seq(Nat) /\ Len(delivered') = Len(delivered) + Len(ce)
        /\ \A i \in 1 .. Len(delivered) + Len(ce) : delivered'[i] =
                 IF i <= Len(delivered) THEN delivered[i] ELSE ce[i - Len(delivered)]
      BY <1>3, <1>9, <2>1, ConcatProperties
  <2> HIDE DEF a, ce, u, s
  <2>3. \A i \in 1 .. a : i \in 1 .. Len(delivered) + Len(ce) /\ i <= Len(delivered)
      BY <1>3, <1>4
  <2>4. \A i \in a + 1 .. a + Len(ce) :
            i \in 1 .. Len(delivered) + Len(ce) /\ ~(i <= Len(delivered))
      BY <1>3, <1>4
  <2> QED BY <1>4, <2>2, <2>3, <2>4
<1>16. TypeInv'
    BY <1>8, <1>11, <1>14, <1>15, InvFields DEF Inv, TypeInv
<1>17. Joined(log)'
  <2>1. u.snap # NoSnap => c = log.committed
      BY <1>5, <1>10
  <2> QED BY <1>1, <1>11, <2>1 DEF Joined
<1>18. u.snap = NoSnap =>
          /\ first_index(log) = s.base.index + 1 /\ last_index(log) = storage_last_index(s)
          /\ \A i \in s.base.index .. storage_last_index(s) : term(log, i) = storage_term(s, i)
    BY <1>1, <1>2, CopiedReads DEF AtPublish
<1>19. /\ a + Len(ce) <= log.committed /\ a + Len(ce) <= storage_last_index(s)
       /\ ce = <<>> => Len(ce) = 0
  <2>1. ce = <<>> => Len(ce) = 0
      OBVIOUS
  <2> HIDE DEF a, ce, u, s
  <2> QED BY <1>1, <1>3, <1>4, <1>5, <1>18, <2>1
<1>20. Cursors'
  <2>1. /\ log'.storage.base.index <= log'.storage.snap
        /\ log'.storage.snap = app'.snapshot_index
        /\ app'.snapshot_index <= app'.applied_index
        /\ app'.applied_index = Len(delivered')
        /\ app'.applied_index <= storage_last_index(log'.storage)
        /\ log'.applied <= app'.applied_index
        /\ app'.applied_index <= log'.committed
        /\ log'.committed <= last_index(log')
    <3> HIDE DEF a, ce, u, s
    <3> QED BY <1>1, <1>3, <1>4, <1>10, <1>11, <1>12, <1>14, <1>15, <1>19, SMTT(30)
  <2> QED BY <2>1 DEF Cursors
<1>21. Given(log.storage)'
  <2> SUFFICES ASSUME NEW i \in s.base.index + 1 .. a + Len(ce), delivered'[i] # 0
               PROVE  delivered'[i] = storage_term(s, i)
      BY <1>11, <1>15 DEF Given
  <2>1. CASE i <= a
    <3>1. i \in 1 .. a /\ i \in s.base.index + 1 .. Len(delivered)
      <4> HIDE DEF a, ce, u, s
      <4> QED BY <1>1, <1>3, <1>4, <2>1, SMTT(30)
    <3>2. delivered'[i] = delivered[i]
        BY <1>15, <3>1
    <3> QED BY <3>1, <3>2, InvFields DEF Given
  <2>2. CASE ~(i <= a)
    <3>1. /\ i \in a + 1 .. a + Len(ce) /\ i - a \in 1 .. Len(ce) /\ a + (i - a) = i
          /\ i \in s.base.index .. storage_last_index(s) /\ Len(ce) # 0
      <4> HIDE DEF a, ce, u, s
      <4>1. \A b, p, n, l, j : b \in Nat /\ p \in Nat /\ n \in Nat /\ l \in Nat
                   /\ b <= p /\ p + n <= l /\ j \in b + 1 .. p + n /\ ~(j <= p)
               => /\ j \in p + 1 .. p + n /\ j - p \in 1 .. n /\ p + (j - p) = j
                  /\ j \in b .. l /\ n # 0
          OBVIOUS
      <4>2. s.base.index <= a /\ a + Len(ce) <= storage_last_index(s)
          BY <1>1, <1>3, <1>4, <1>19
      <4>3. s.base.index \in Nat /\ a \in Nat /\ Len(ce) \in Nat /\ storage_last_index(s) \in Nat
          BY <1>1, <1>3, Zenon
      <4>4. i \in s.base.index + 1 .. a + Len(ce) /\ ~(i <= a)
          BY <2>2, Zenon
      <4> QED BY <4>1, <4>2, <4>3, <4>4, SMTT(30)
    <3>2. ce # <<>>
        BY <1>19, <3>1
    <3>3. delivered'[i] = ce[i - a] /\ ce[i - a] = term(log, i) /\ u.snap = NoSnap
      <4> HIDE DEF a, ce, u, s
      <4> QED BY <1>5, <1>15, <3>1, <3>2
    <3> QED BY <1>18, <3>1, <3>3
  <2> QED BY <2>1, <2>2
<1>22. AtAdvance'
  <2>1. Copied(log)' /\ Copy'
      BY <1>2, <1>8, <1>11 DEF Copied, Copy, AtPublish
  <2>2. a + Len(ce) = IF ce # <<>> THEN rd.first + Len(ce) - 1
                      ELSE IF rd.snapshot # NoSnap THEN rd.snapshot.index ELSE log.applied
    <3>1. /\ rd.snapshot = u.snap
          /\ u.snap = NoSnap => log.applied = a
          /\ u.snap # NoSnap => a = u.snap.index
        BY <1>2 DEF AtPublish, Copy
    <3> HIDE DEF a, ce, u, s
    <3> QED BY <1>3, <1>5, <1>19, <3>1
  <2>3. app'.applied_index = applied_cursor(log)'
      BY <1>8, <1>11, <1>14, <2>2 DEF applied_cursor
  <2> QED BY <2>1, <2>3 DEF AtAdvance
<1>23. Inv'
    BY <1>8, <1>16, <1>17, <1>20, <1>21, <1>22 DEF Inv, Place
<1>24. ce # <<>> => first_index(log) - 1 <= Len(delivered)
  <2> HIDE DEF a, ce, u, s
  <2> QED BY <1>1, <1>3, <1>4, <1>5, <1>18, InvFields, SMTT(30)
<1>25. \A k \in 1 .. Len(ce) : ce[k] = term(log, Len(delivered) + k)
    BY <1>4, <1>5, <1>19
<1>26. log'.committed \in log.committed .. last_index(log)
    BY <1>1, <1>3, <1>10, <1>11
<1> QED BY <1>4, <1>9, <1>10, <1>11, <1>13, <1>19, <1>23, <1>24, <1>25, <1>26

(* MemoryStorage::compact up to an index it holds.                         *)
LEMMA CompactStorage ==
    ASSUME NEW s \in StorageType, NEW i \in Nat,
           s.base.index < i, i <= storage_last_index(s)
    PROVE  LET t == compact(s, i)
           IN  /\ t \in StorageType /\ t.snap = s.snap
               /\ t.base = [index |-> i, term |-> storage_term(s, i)]
               /\ storage_last_index(t) = storage_last_index(s)
               /\ \A j \in i .. storage_last_index(s) : storage_term(t, j) = storage_term(s, j)
<1> DEFINE t == compact(s, i)
           b == s.base.index
           n == Len(s.ents)
           d == i - b
           rest == SubSeq(s.ents, d + 1, n)
<1>1. /\ b \in Nat /\ s.ents \in Seq(Terms) /\ n \in Nat /\ storage_last_index(s) = b + n
    BY DEF StorageType, SnapshotType, storage_last_index
<1>2. t = [s EXCEPT !.base = [index |-> i, term |-> storage_term(s, i)], !.ents = rest]
    BY DEF compact
<1>3. storage_term(s, i) \in Nat
    BY <1>1, StorageTerm
<1>4. d \in Nat /\ 1 <= d /\ d <= n /\ i = b + d
    BY <1>1
<1> HIDE DEF d, t, b, n
<1>5. /\ rest \in Seq(Terms) /\ Len(rest) = n - d
      /\ \A k \in 1 .. n - d : rest[k] = s.ents[d + k]
  <2>1. \A k \in d + 1 .. n : s.ents[k] \in Terms
      BY <1>1, <1>4 DEF n
  <2>2. /\ rest \in Seq(Terms)
        /\ Len(rest) = IF d + 1 <= n THEN n - (d + 1) + 1 ELSE 0
        /\ \A k \in 1 .. n - (d + 1) + 1 : rest[k] = s.ents[(d + 1) + k - 1]
      BY <1>1, <1>4, <2>1, SubSeqProperties
  <2> HIDE DEF rest
  <2>3. n - (d + 1) + 1 = n - d /\ \A k \in Int : (d + 1) + k - 1 = d + k
      BY <1>1, <1>4
  <2> QED BY <1>1, <1>4, <2>2, <2>3
<1> HIDE DEF rest
<1>6. /\ t \in StorageType /\ t.snap = s.snap /\ t.ents = rest
      /\ t.base = [index |-> i, term |-> storage_term(s, i)]
  <2>1. [index |-> i, term |-> storage_term(s, i)] \in SnapshotType
      BY <1>3 DEF SnapshotType
  <2> QED BY <1>2, <1>5, <2>1 DEF StorageType
<1>7. t.base.index = i /\ t.base.term = storage_term(s, i)
    BY <1>6
<1>8. storage_last_index(t) = storage_last_index(s)
  <2>1. storage_last_index(t) = i + (n - d)
      BY <1>5, <1>6, <1>7 DEF storage_last_index
  <2> QED BY <1>1, <1>4, <2>1
<1>9. ASSUME NEW j \in i .. storage_last_index(s)
      PROVE  storage_term(t, j) = storage_term(s, j)
  <2>1. CASE j = i
      BY <1>6, <1>7, <2>1, StorageTerm
  <2>2. CASE j # i
    <3>1. j \in b + 1 .. storage_last_index(s) /\ j \in i + 1 .. storage_last_index(t)
        BY <1>1, <1>4, <1>8, <2>2
    <3>2. storage_term(s, j) = s.ents[j - b]
        BY <3>1, StorageTerm DEF b
    <3>3. storage_term(t, j) = rest[j - i]
        BY <1>6, <1>7, <3>1, StorageTerm
    <3>4. j - i \in 1 .. n - d /\ d + (j - i) = j - b
        BY <1>1, <1>4, <2>2
    <3> QED BY <1>5, <3>2, <3>3, <3>4
  <2> QED BY <2>1, <2>2
<1> QED BY <1>6, <1>8, <1>9 DEF t


(* What maybe_trigger_snapshot may make of the log: entries the store has  *)
(* are compacted, the rest is read as before.                              *)
Compacted(l, m, i) ==
    /\ i \in first_index(l) .. Len(delivered)
    /\ first_index(m) = i + 1 /\ last_index(m) = last_index(l)
    /\ \A j \in i .. last_index(l) : term(m, j) = term(l, j)

LEMMA TriggerInv ==
    ASSUME Inv, TriggerSnapshot
    PROVE  /\ Inv' /\ delivered' = delivered /\ log'.committed = log.committed
           /\ SameView(log, log') \/ \E i \in Nat : Compacted(log, log', i)
<1> DEFINE u == log.unstable
           s == log.storage
           a == app.applied_index
           w == create_snapshot(s, a)
           i == a - CatchUp
           due == a - app.snapshot_index > SnapCount
           fails == due /\ (create_snapshot_fails(s, a) \/ compact_fails(w, compact_index(app)))
<1>1. /\ log \in LogType /\ Joined(log) /\ s \in StorageType /\ u \in UnstableType
      /\ s.base.index \in Nat /\ s.snap \in Nat /\ u.snap.index \in Nat
      /\ storage_last_index(s) \in Nat /\ log.committed \in Nat /\ log.applied \in Nat
    BY InvFields, LogFields
<1>2. pc = "snapshot" /\ AtAdvance
    BY DEF Inv, Place, TriggerSnapshot
<1>3. /\ a \in Nat /\ app.snapshot_index \in Nat /\ last_index(log) \in Nat
      /\ delivered \in Seq(Nat) /\ Len(delivered) \in Nat
      /\ app \in [applied_index : Nat, snapshot_index : Nat]
    BY InvFields
<1>4. /\ s.base.index <= s.snap /\ s.snap = app.snapshot_index /\ app.snapshot_index <= a
      /\ a = Len(delivered) /\ a <= storage_last_index(s) /\ log.applied <= a
      /\ a <= log.committed /\ log.committed <= last_index(log)
    BY InvFields DEF Cursors
<1>5. SnapCount \in Nat /\ CatchUp \in Nat /\ CatchUp <= SnapCount
    BY SnapAssumption
<1>6. /\ fatal' = fails
      /\ IF due /\ ~fails
         THEN /\ log' = [log EXCEPT !.storage = compact(w, compact_index(app))]
              /\ app' = [app EXCEPT !.snapshot_index = a]
         ELSE log' = log /\ app' = app
      /\ pc' = IF fails THEN pc ELSE "advance"
      /\ delivered' = delivered /\ rd' = rd
    BY DEF TriggerSnapshot
<1>7. CASE ~due
  <2>1. /\ log' = log /\ app' = app /\ fatal' = FALSE /\ pc' = "advance"
        /\ delivered' = delivered /\ rd' = rd
      BY <1>6, <1>7
  <2>2. TypeInv'
      BY <2>1 DEF Inv, TypeInv
  <2>3. Joined(log)' /\ Cursors' /\ Given(log.storage)'
      BY <2>1, InvFields DEF Joined, Cursors, Given
  <2>4. AtAdvance'
      BY <1>2, <2>1 DEF AtAdvance, applied_cursor, Copied, Copy
  <2>5. SameView(log, log')
      BY <2>1 DEF SameView
  <2> QED BY <2>1, <2>2, <2>3, <2>4, <2>5 DEF Inv, Place
<1>8. CASE due
  <2>1. u.snap = NoSnap
    <3> SUFFICES ASSUME u.snap # NoSnap PROVE FALSE
        OBVIOUS
    <3>1. s.ents = <<>>
        BY <1>2 DEF AtAdvance, Copied
    <3>2. storage_last_index(s) = s.base.index
        BY <1>1, <3>1 DEF storage_last_index
    <3> HIDE DEF a, s, u
    <3> QED BY <1>1, <1>3, <1>4, <1>5, <1>8, <3>2
  <2>2. i \in Nat /\ s.base.index < i /\ i <= a /\ a > CatchUp /\ a > s.snap
    <3> HIDE DEF a, s, u
    <3> QED BY <1>1, <1>3, <1>4, <1>5, <1>8, SMTT(30)
  <2>3. compact_index(app) = i
      BY <2>2 DEF compact_index
  <2>4. /\ w \in StorageType /\ w.snap = a /\ w.base = s.base /\ w.ents = s.ents
      BY <1>1, <1>3 DEF create_snapshot, StorageType
  <2>5. storage_last_index(w) = storage_last_index(s) /\ \A j : storage_term(w, j) = storage_term(s, j)
    <3> HIDE DEF w
    <3> QED BY <2>4 DEF storage_last_index, storage_term
  <2>6. ~create_snapshot_fails(s, a) /\ ~compact_fails(w, i)
    <3> HIDE DEF w, i
    <3> QED BY <1>1, <1>3, <1>4, <2>2, <2>4, <2>5, SMTT(30) DEF create_snapshot_fails, compact_fails
  <2> DEFINE t == compact(w, i)
  <2>7. i <= storage_last_index(w) /\ w.base.index < i
    <3> HIDE DEF w, i
    <3> QED BY <1>1, <1>3, <1>4, <2>2, <2>4, <2>5
  <2>8. /\ t \in StorageType /\ t.snap = a
        /\ t.base = [index |-> i, term |-> storage_term(w, i)]
        /\ storage_last_index(t) = storage_last_index(w)
        /\ \A j \in i .. storage_last_index(w) : storage_term(t, j) = storage_term(w, j)
    <3> HIDE DEF w, i
    <3> QED BY <2>2, <2>4, <2>7, CompactStorage
  <2>9. t.base.index = i
    <3> HIDE DEF t, w, i
    <3> QED BY <2>8
  <2>10. /\ log' = [log EXCEPT !.storage = t] /\ app' = [app EXCEPT !.snapshot_index = a]
         /\ fatal' = FALSE /\ pc' = "advance" /\ delivered' = delivered /\ rd' = rd
    <3> HIDE DEF w, i
    <3> QED BY <1>6, <1>8, <2>3, <2>6
  <2> HIDE DEF t, w
  <2>11. /\ log' \in LogType /\ log'.storage = t /\ log'.unstable = u
         /\ log'.committed = log.committed /\ log'.applied = log.applied
      BY <1>1, <2>8, <2>10 DEF LogType
  <2>12. /\ app' \in [applied_index : Nat, snapshot_index : Nat]
         /\ app'.applied_index = a /\ app'.snapshot_index = a
      BY <1>3, <2>10
  <2>13. TypeInv'
      BY <2>10, <2>11, <2>12, InvFields DEF Inv, TypeInv
  <2>14. Joined(log')
      BY <1>1, <2>1, <2>5, <2>8, <2>11 DEF Joined
  <2>15. Copied(log) /\ Copy
      BY <1>2 DEF AtAdvance
  <2>16. /\ first_index(log) = s.base.index + 1 /\ last_index(log) = storage_last_index(s)
         /\ \A j \in s.base.index .. storage_last_index(s) : term(log, j) = storage_term(s, j)
      BY <1>1, <2>1, <2>15, CopiedReads
  <2>17. \A j \in i .. storage_last_index(s) : storage_term(t, j) = storage_term(s, j)
      BY <2>5, <2>8
  <2>18. Copied(log')
    <3>1. ASSUME u.ents # <<>>
          PROVE  /\ upper(u) = storage_last_index(s) + 1
                 /\ \A j \in u.offset .. upper(u) - 1 :
                       j >= s.base.index => storage_term(s, j) = u.ents[j - u.offset + 1]
        BY <2>1, <2>15, <3>1 DEF Copied
    <3>2. ASSUME u.ents # <<>>, NEW j \in u.offset .. upper(u) - 1, j >= i
          PROVE  storage_term(t, j) = u.ents[j - u.offset + 1]
      <4>1. u.offset \in Nat
          BY <1>1 DEF UnstableType
      <4>2. j >= s.base.index /\ j \in i .. storage_last_index(s)
        <5> HIDE DEF u, s, i, a
        <5> QED BY <1>1, <2>2, <3>1, <3>2, <4>1
      <4> QED BY <2>17, <3>1, <3>2, <4>2
    <3> QED BY <2>1, <2>5, <2>8, <2>9, <2>11, <3>1, <3>2 DEF Copied
  <2>19. /\ first_index(log') = i + 1 /\ last_index(log') = storage_last_index(t)
         /\ \A j \in i .. storage_last_index(t) : term(log', j) = storage_term(t, j)
      BY <2>1, <2>9, <2>11, <2>14, <2>18, CopiedReads
  <2>20. \A j \in i .. last_index(log) : term(log', j) = term(log, j)
    <3>1. \A j \in i .. storage_last_index(s) : j \in s.base.index .. storage_last_index(s)
      <4> HIDE DEF u, s, i, a
      <4> QED BY <1>1, <2>2
    <3> QED BY <2>5, <2>8, <2>16, <2>17, <2>19, <3>1
  <2>21. Compacted(log, log', i)
    <3>1. i \in first_index(log) .. Len(delivered)
      <4> HIDE DEF u, s, i, a
      <4> QED BY <1>1, <1>3, <1>4, <2>2, <2>16
    <3> QED BY <2>5, <2>8, <2>16, <2>19, <2>20, <3>1 DEF Compacted
  <2>22. Cursors'
    <3>1. /\ log'.storage.base.index <= log'.storage.snap
          /\ log'.storage.snap = app'.snapshot_index
          /\ app'.snapshot_index <= app'.applied_index
          /\ app'.applied_index = Len(delivered')
          /\ app'.applied_index <= storage_last_index(log'.storage)
          /\ log'.applied <= app'.applied_index
          /\ app'.applied_index <= log'.committed
          /\ log'.committed <= last_index(log')
      <4> HIDE DEF u, s, i, a
      <4> QED BY <1>1, <1>3, <1>4, <2>2, <2>5, <2>8, <2>9, <2>10, <2>11, <2>12, <2>16, <2>19, SMTT(30)
    <3> QED BY <3>1 DEF Cursors
  <2>23. Given(log.storage)'
    <3>1. \A j \in i + 1 .. Len(delivered) : /\ j \in i .. storage_last_index(s)
                                             /\ j \in s.base.index + 1 .. Len(delivered)
      <4> DEFINE b == s.base.index
                 last == storage_last_index(s)
                 given == Len(delivered)
      <4>1. /\ b \in Nat /\ last \in Nat /\ given \in Nat /\ given <= last
            /\ i \in Nat /\ b < i
          BY <1>1, <1>3, <1>4, <2>2
      <4>2. \A j \in i + 1 .. given : j \in i .. last /\ j \in b + 1 .. given
        <5> HIDE DEF b, last, given, i
        <5> QED BY <4>1
      <4> QED BY <4>2
    <3>2. \A j \in s.base.index + 1 .. Len(delivered) :
              delivered[j] # 0 => delivered[j] = storage_term(s, j)
        BY InvFields DEF Given
    <3> HIDE DEF i
    <3> QED BY <2>9, <2>10, <2>11, <2>17, <3>1, <3>2 DEF Given
  <2>24. AtAdvance'
    <3>1. Copy'
        BY <2>10, <2>11, <2>15 DEF Copy
    <3>2. a = applied_cursor(log)
        BY <1>2 DEF AtAdvance
    <3>3. app'.applied_index = applied_cursor(log)'
        BY <2>10, <2>11, <2>12, <3>2 DEF applied_cursor
    <3>4. Copied(log)'
        BY <2>18 DEF Copied
    <3> QED BY <3>1, <3>3, <3>4 DEF AtAdvance
  <2>25. Joined(log)'
      BY <2>14 DEF Joined
  <2>26. Inv'
      BY <2>10, <2>13, <2>22, <2>23, <2>24, <2>25 DEF Inv, Place
  <2> QED BY <2>2, <2>10, <2>11, <2>21, <2>26
<1> QED BY <1>7, <1>8

(* The unstable part is emptied into the storage that has all of it.       *)
LEMMA AdvanceInv ==
    ASSUME Inv, Advance
    PROVE  /\ Inv' /\ delivered' = delivered /\ log'.committed = log.committed
           /\ SameView(log, log')
<1> DEFINE u == log.unstable
           s == log.storage
           a == app.applied_index
           n == Len(rd.entries)
           u1 == IF n > 0 THEN unstable_stable_to(u, rd.offset + n - 1, rd.entries[n]) ELSE u
           u2 == IF rd.snapshot # NoSnap
                 THEN unstable_stable_snap_to(u1, rd.snapshot.index) ELSE u1
           v == [offset |-> storage_last_index(s) + 1, ents |-> <<>>, snap |-> NoSnap]
<1>1. /\ log \in LogType /\ Joined(log) /\ s \in StorageType /\ u \in UnstableType
      /\ s.base \in SnapshotType /\ s.base.index \in Nat /\ s.base.term \in Nat
      /\ s.snap \in Nat /\ u.snap.index \in Nat
      /\ u.offset \in Nat /\ u.ents \in Seq(Terms) /\ Len(u.ents) \in Nat
      /\ storage_last_index(s) \in Nat /\ log.committed \in Nat /\ log.applied \in Nat
      /\ upper(u) = u.offset + Len(u.ents)
    BY InvFields, LogFields DEF upper
<1>2. pc = "advance" /\ AtAdvance
    BY DEF Inv, Place, Advance
<1>3. /\ a = applied_cursor(log) /\ Copied(log)
      /\ rd.entries = u.ents /\ rd.offset = u.offset /\ rd.snapshot = u.snap
    BY <1>2 DEF AtAdvance, Copy
<1>4. /\ log' = [log EXCEPT !.applied = applied_cursor(log), !.unstable = u2]
      /\ pc' = "idle" /\ rd' = NoReady /\ app' = app /\ delivered' = delivered /\ fatal' = fatal
    BY DEF Advance
<1>5. u2 = v
  <2>1. CASE u.snap # NoSnap
    <3>1. u.ents = <<>> /\ u.offset = u.snap.index + 1 /\ s.base = u.snap /\ s.ents = <<>>
        BY <1>1, <1>3, <2>1 DEF Joined, Copied
    <3>2. n = 0 /\ u1 = u
        BY <1>3, <3>1
    <3>3. storage_last_index(s) + 1 = u.offset
        BY <1>1, <3>1 DEF storage_last_index
    <3>4. u2 = [u EXCEPT !.snap = NoSnap]
        BY <1>3, <2>1, <3>2 DEF unstable_stable_snap_to
    <3> QED BY <1>1, <3>1, <3>3, <3>4 DEF UnstableType
  <2>2. CASE u.snap = NoSnap /\ u.ents = <<>>
    <3>1. n = 0 /\ u2 = u
        BY <1>3, <2>2
    <3>2. u.offset = storage_last_index(s) + 1
        BY <1>1, <2>2 DEF Joined
    <3> QED BY <1>1, <2>2, <3>1, <3>2 DEF UnstableType
  <2>3. CASE u.snap = NoSnap /\ u.ents # <<>>
    <3>1. n = Len(u.ents) /\ n \in Nat /\ n > 0
        BY <1>1, <1>3, <2>3
    <3>2. upper(u) = storage_last_index(s) + 1
        BY <1>3, <2>3 DEF Copied
    <3> DEFINE x == u.offset + n - 1
    <3>3. x \in u.offset .. upper(u) - 1 /\ ~(x < u.offset) /\ x - u.offset + 1 = n
          /\ x - u.offset + 2 = n + 1 /\ x + 1 = storage_last_index(s) + 1
      <4> DEFINE o == u.offset
                 last == storage_last_index(s)
      <4>1. o \in Nat /\ n \in Nat /\ n > 0 /\ upper(u) = o + n /\ upper(u) = last + 1
            /\ last \in Nat /\ x = o + n - 1
          BY <1>1, <3>1, <3>2
      <4>2. /\ x \in o .. upper(u) - 1 /\ ~(x < o) /\ x - o + 1 = n /\ x - o + 2 = n + 1
            /\ x + 1 = last + 1
        <5> HIDE DEF o, last, x, n, u
        <5> QED BY <4>1
      <4> QED BY <4>2
    <3> HIDE DEF x
    <3>4. maybe_term(u, x) = u.ents[n]
        BY <3>3 DEF maybe_term
    <3>5. u1 = unstable_stable_to(u, x, u.ents[n])
        BY <1>3, <3>1 DEF x
    <3>6. SubSeq(u.ents, n + 1, Len(u.ents)) = <<>>
        BY <3>1, SubSeqEmpty
    <3>7. x >= u.offset
        BY <1>1, <3>3
    <3>8. u1 = [u EXCEPT !.offset = storage_last_index(s) + 1, !.ents = <<>>]
        BY <3>3, <3>4, <3>5, <3>6, <3>7, <3>1 DEF unstable_stable_to
    <3>9. u2 = u1
        BY <1>3, <2>3
    <3> QED BY <1>1, <2>3, <3>8, <3>9 DEF UnstableType
  <2> QED BY <2>1, <2>2, <2>3
<1>6. v \in UnstableType /\ v.snap = NoSnap /\ v.ents = <<>> /\ v.offset = storage_last_index(s) + 1
    BY <1>1, NoSnapType DEF UnstableType
<1> HIDE DEF u2, v
<1>7. /\ a \in Nat /\ app.snapshot_index \in Nat /\ last_index(log) \in Nat
    BY InvFields
<1>8. /\ log' \in LogType /\ log'.storage = s /\ log'.unstable = v
      /\ log'.applied = a /\ log'.committed = log.committed
    BY <1>1, <1>3, <1>4, <1>5, <1>6, <1>7 DEF LogType
<1>9. Joined(log')
    BY <1>1, <1>6, <1>8 DEF Joined
<1>10. /\ first_index(log') = s.base.index + 1 /\ last_index(log') = storage_last_index(s)
       /\ \A i \in s.base.index .. storage_last_index(s) : term(log', i) = storage_term(s, i)
  <2>1. Copied(log')
      BY <1>6, <1>8 DEF Copied
  <2> QED BY <1>6, <1>8, <1>9, <2>1, CopiedReads
<1>11. SameView(log, log')
  <2>1. CASE u.snap = NoSnap
    <3>1. /\ first_index(log) = s.base.index + 1 /\ last_index(log) = storage_last_index(s)
          /\ \A i \in s.base.index .. storage_last_index(s) : term(log, i) = storage_term(s, i)
        BY <1>1, <1>3, <2>1, CopiedReads
    <3> QED BY <1>1, <1>10, <3>1 DEF SameView
  <2>2. CASE u.snap # NoSnap
    <3>1. s.base = u.snap /\ s.ents = <<>>
        BY <1>3, <2>2 DEF Copied
    <3>2. storage_last_index(s) = s.base.index
        BY <1>1, <3>1 DEF storage_last_index
    <3>3. /\ first_index(log) = s.base.index + 1 /\ last_index(log) = s.base.index
          /\ term(log, s.base.index) = s.base.term
        BY <1>1, <2>2, <3>1, ReadsSnapshot
    <3>4. term(log', s.base.index) = s.base.term
        BY <1>1, <1>10, <3>2, StorageTerm
    <3> QED BY <1>1, <1>10, <3>2, <3>3, <3>4 DEF SameView
  <2> QED BY <2>1, <2>2
<1>12. TypeInv'
  <2>1. NoReady \in ReadyType
      BY NoSnapType DEF NoReady, ReadyType
  <2> QED BY <1>4, <1>8, <2>1, InvFields DEF Inv, TypeInv
<1>13. Cursors'
  <2>1. /\ s.base.index <= s.snap /\ s.snap = app.snapshot_index /\ app.snapshot_index <= a
        /\ a = Len(delivered) /\ a <= storage_last_index(s) /\ a <= log.committed
        /\ log.committed <= last_index(log)
      BY InvFields DEF Cursors
  <2>2. last_index(log') = last_index(log)
      BY <1>11 DEF SameView
  <2> QED BY <1>4, <1>7, <1>8, <2>1, <2>2 DEF Cursors
<1>14. Given(log.storage)'
    BY <1>4, <1>8, InvFields DEF Given
<1>15. AtIdle'
  <2>1. a < storage_last_index(s) + 1
    <3>1. a <= storage_last_index(s)
        BY InvFields DEF Cursors
    <3> QED BY <1>1, <1>7, <3>1
  <2> QED BY <1>4, <1>6, <1>8, <2>1 DEF AtIdle, Ahead
<1>16. Joined(log)'
    BY <1>9 DEF Joined
<1>17. Inv'
    BY <1>4, <1>12, <1>13, <1>14, <1>15, <1>16 DEF Inv, Place
<1> QED BY <1>4, <1>8, <1>11, <1>17


-----------------------------------------------------------------------------
(* Initial states.                                                         *)

LEMMA TermOne == 1 \in Terms /\ Bootstrap \in Seq(Terms) /\ Len(Bootstrap) = 2
<1>1. 1 \in Terms
    BY SnapAssumption DEF Terms
<1> QED BY <1>1 DEF Bootstrap

LEMMA RestartedInv ==
    ASSUME NEW base \in SnapshotType, NEW ents \in Seq(Terms),
           NEW c \in base.index .. base.index + Len(ents), log = Restarted(base, ents, c)
    PROVE  /\ log \in LogType /\ Joined(log)
           /\ log.storage.snap = base.index /\ log.storage.base = base
           /\ log.unstable.snap = NoSnap /\ log.unstable.offset > base.index
           /\ Committed(log) /\ log.applied = base.index
           /\ log.committed \in Nat /\ base.index <= log.committed
           /\ log.committed <= last_index(log)
           /\ base.index <= storage_last_index(log.storage)
           /\ base.index \in Nat
<1>1. base.index \in Nat /\ Len(ents) \in Nat /\ c \in Nat /\ base.index <= c
      /\ c <= base.index + Len(ents)
    BY DEF SnapshotType
<1> DEFINE s == [snap |-> base.index, base |-> base, ents |-> ents]
           u == [offset |-> base.index + Len(ents) + 1, ents |-> <<>>, snap |-> NoSnap]
<1>2. s \in StorageType /\ u \in UnstableType
    BY <1>1, NoSnapType DEF StorageType, UnstableType
<1>3. storage_last_index(s) = base.index + Len(ents)
    BY DEF storage_last_index
<1>4. /\ s.snap = base.index /\ s.base = base
      /\ u.offset = base.index + Len(ents) + 1 /\ u.ents = <<>> /\ u.snap = NoSnap
    OBVIOUS
<1>5. log = [storage |-> s, unstable |-> u, committed |-> c, applied |-> base.index]
    BY DEF Restarted
<1> HIDE DEF s, u
<1>6. /\ log \in LogType /\ log.storage = s /\ log.unstable = u /\ log.committed = c
      /\ log.applied = base.index
    BY <1>1, <1>2, <1>5 DEF LogType
<1>7. Joined(log)
    BY <1>1, <1>3, <1>4, <1>6 DEF Joined
<1>8. last_index(log) = storage_last_index(s)
    BY <1>4, <1>6, <1>7, Reads
<1>9. Committed(log)
    BY <1>4, <1>6 DEF Committed
<1> QED BY <1>1, <1>3, <1>4, <1>6, <1>7, <1>8, <1>9

LEMMA FreshInv ==
    ASSUME log = Fresh
    PROVE  /\ log \in LogType /\ Joined(log)
           /\ log.storage.snap = 0 /\ log.storage.base = NoSnap
           /\ log.unstable.snap = NoSnap /\ log.unstable.offset > 0
           /\ log.applied = 0 /\ log.committed = 2 /\ last_index(log) = 2 /\ Committed(log)
           /\ storage_last_index(log.storage) = 0
<1> DEFINE s == [snap |-> 0, base |-> NoSnap, ents |-> <<>>]
           u == [offset |-> 1, ents |-> Bootstrap, snap |-> NoSnap]
<1>1. s \in StorageType /\ u \in UnstableType
    BY TermOne, NoSnapType DEF StorageType, UnstableType
<1>2. storage_last_index(s) = 0
    BY NoSnapType DEF storage_last_index
<1>3. /\ s.snap = 0 /\ s.base = NoSnap
      /\ u.offset = 1 /\ u.ents = Bootstrap /\ u.snap = NoSnap
    OBVIOUS
<1>4. log = [storage |-> s, unstable |-> u, committed |-> 2, applied |-> 0]
    BY TermOne DEF Fresh
<1> HIDE DEF s, u
<1>5. /\ log \in LogType /\ log.storage = s /\ log.unstable = u /\ log.committed = 2
      /\ log.applied = 0
    BY <1>1, <1>4 DEF LogType
<1>6. Bootstrap # <<>> /\ upper(u) = 3
    BY <1>3, TermOne DEF upper, Bootstrap
<1>7. Joined(log)
    BY <1>2, <1>3, <1>5, <1>6 DEF Joined
<1>8. last_index(log) = 2
    BY <1>3, <1>5, <1>6, <1>7, Reads
<1> QED BY <1>2, <1>3, <1>5, <1>7, <1>8 DEF Committed

(* A server that starts: storage and store end at the last snapshot.       *)
LEMMA InitLog ==
    ASSUME Init
    PROVE  /\ log \in LogType /\ Joined(log)
           /\ log.unstable.snap = NoSnap /\ Committed(log)
           /\ log.storage.base.index = log.storage.snap
           /\ log.unstable.offset > log.storage.snap
           /\ log.applied = log.storage.snap /\ log.storage.snap <= log.committed
           /\ log.committed <= last_index(log)
           /\ log.storage.snap <= storage_last_index(log.storage)
<1>1. CASE log = Fresh
    BY <1>1, FreshInv, NoSnapType
<1>2. CASE \E c \in 0..Len(Bootstrap) : log = Restarted(NoSnap, Bootstrap, c)
  <2>1. PICK c \in 0..Len(Bootstrap) : log = Restarted(NoSnap, Bootstrap, c)
      BY <1>2
  <2>2. c \in NoSnap.index .. NoSnap.index + Len(Bootstrap)
      BY TermOne, NoSnapType
  <2> QED BY <2>1, <2>2, TermOne, NoSnapType, RestartedInv
<1>3. ASSUME NEW base \in [index : Len(Bootstrap)+1 .. MaxIndex, term : Terms],
             NEW ents \in Batches \cup {<<>>},
             NEW c \in base.index .. base.index + Len(ents), log = Restarted(base, ents, c)
      PROVE  /\ log \in LogType /\ Joined(log)
             /\ log.unstable.snap = NoSnap /\ Committed(log)
             /\ log.storage.base.index = log.storage.snap
             /\ log.unstable.offset > log.storage.snap
             /\ log.applied = log.storage.snap /\ log.storage.snap <= log.committed
             /\ log.committed <= last_index(log)
             /\ log.storage.snap <= storage_last_index(log.storage)
  <2>1. base \in SnapshotType
      BY TermOne, SnapAssumption DEF SnapshotType, Terms
  <2>2. ents \in Seq(Terms)
    <3>1. <<>> \in Seq(Terms)
        OBVIOUS
    <3> QED BY <3>1, BatchTypes
  <2> QED BY <1>3, <2>1, <2>2, RestartedInv
<1> QED BY <1>1, <1>2, <1>3 DEF Init

LEMMA InitInv == Init => Inv
<1> SUFFICES ASSUME Init PROVE Inv
    OBVIOUS
<1> DEFINE b == log.storage.snap
<1>1. /\ app = [applied_index |-> b, snapshot_index |-> b]
      /\ delivered = [i \in 1..b |-> 0] /\ rd = NoReady /\ pc = "start" /\ fatal = FALSE
    BY DEF Init
<1>2. log \in LogType /\ b \in Nat
    BY InitLog, LogFields
<1>3. app.applied_index = b /\ app.snapshot_index = b
    BY <1>1
<1>4. delivered \in Seq(Nat) /\ Len(delivered) = b
    BY <1>1, <1>2, ZeroSeq
<1>5. NoReady \in ReadyType
    BY NoSnapType DEF NoReady, ReadyType
<1>6. TypeInv
    BY <1>1, <1>2, <1>4, <1>5 DEF TypeInv
<1>7. Cursors
    BY <1>2, <1>3, <1>4, InitLog DEF Cursors
<1>8. log.storage.base.index + 1 .. Len(delivered) = {}
    BY <1>2, <1>4, InitLog
<1>9. Given(log.storage)
    BY <1>8 DEF Given
<1>10. AtIdle
    BY <1>3, InitLog DEF AtIdle, Ahead
<1> QED BY <1>1, <1>6, <1>7, <1>9, <1>10, InitLog DEF Inv, Place

-----------------------------------------------------------------------------
(* The theorems about the concrete log.                                    *)

LEMMA InvStep ==
    ASSUME ~SelfRemoval, Inv, [Next]_vars
    PROVE  Inv'
<1>1. CASE Event
    BY <1>1, EventResult, EventInv
<1>2. CASE Ready
    BY <1>2, ReadyInv
<1>3. CASE Store
    BY <1>3, StoreInv
<1>4. CASE Publish
    BY <1>4, PublishInv
<1>5. CASE TriggerSnapshot
    BY <1>5, TriggerInv
<1>6. CASE Advance
    BY <1>6, AdvanceInv
<1>7. CASE UNCHANGED vars
    BY <1>7 DEF vars, Inv, TypeInv, Joined, Cursors, Given, Place, AtIdle, AtStore, AtPublish,
                AtAdvance, Ahead, Committed, Copied, Copy, ToApply, applied_cursor
<1> QED BY <1>1, <1>2, <1>3, <1>4, <1>5, <1>6, <1>7 DEF Next, Loop

LEMMA InvHolds ==
    ASSUME ~SelfRemoval
    PROVE  Spec => []Inv
<1>1. Init => Inv
    BY InitInv
<1>2. Inv /\ [Next]_vars => Inv'
    BY InvStep
<1> QED BY <1>1, <1>2, PTL DEF Spec

(* No LOG_FATAL of raft_log.cpp, unstable.cpp, storage.cpp and of the      *)
(* Ready loop in raft_node.cpp is ever reached.                            *)
THEOREM LogNeverFatal ==
    ASSUME ~SelfRemoval
    PROVE  Spec => []NoFatal
<1>1. Inv => NoFatal
    BY DEF Inv, TypeInv, NoFatal
<1> QED BY <1>1, InvHolds, PTL

(* What publish_entries gave to the store is in the stable storage, with   *)
(* the terms the storage has: nothing is applied before it is persisted.   *)
THEOREM AppliedIsDurable ==
    ASSUME ~SelfRemoval
    PROVE  Spec => []DurableBeforeApplied
<1>1. Inv => DurableBeforeApplied
    BY InvFields DEF DurableBeforeApplied, Cursors, Given
<1> QED BY <1>1, InvHolds, PTL

(* RaftLog::applied_ never passes committed_, and between two iterations   *)
(* of the loop it is RaftNode's applied index and the length of what the   *)
(* store was given.                                                        *)
THEOREM CursorsStayTogether ==
    ASSUME ~SelfRemoval
    PROVE  Spec => []CursorsAgree
<1>1. ASSUME Inv PROVE CursorsAgree
  <2>1. /\ app.applied_index \in Nat /\ log.applied \in Nat /\ log.committed \in Nat
        /\ log.applied <= app.applied_index /\ app.applied_index <= log.committed
        /\ app.applied_index = Len(delivered)
      BY <1>1, InvFields, LogFields DEF Cursors
  <2>2. pc = "idle" => log.applied = app.applied_index
      BY <1>1 DEF Inv, Place, AtIdle
  <2> QED BY <2>1, <2>2 DEF CursorsAgree
<1> QED BY <1>1, InvHolds, PTL

(* Every index from the snapshot to the last entry is in the storage or in *)
(* the unstable part, and compaction stays below what is still to be read. *)
THEOREM LogHasNoHole ==
    ASSUME ~SelfRemoval
    PROVE  Spec => []NoHole
<1>1. ASSUME Inv PROVE NoHole
  <2>1. /\ log.storage.base.index \in Nat /\ log.storage.snap \in Nat
        /\ app.snapshot_index \in Nat /\ app.applied_index \in Nat
        /\ log.storage.base.index <= log.storage.snap
        /\ log.storage.snap = app.snapshot_index /\ app.snapshot_index <= app.applied_index
      BY <1>1, InvFields, LogFields DEF Cursors
  <2>2. pc = "idle" => log.applied = app.applied_index
      BY <1>1 DEF Inv, Place, AtIdle
  <2>3. log.unstable.snap = NoSnap =>
            log.unstable.offset \in 1 .. storage_last_index(log.storage) + 1
      BY <1>1, InvFields DEF Joined
  <2>4. storage_last_index(log.storage) \in Nat
      BY <1>1, InvFields, LogFields
  <2> QED BY <2>1, <2>2, <2>3, <2>4 DEF NoHole
<1> QED BY <1>1, InvHolds, PTL


-----------------------------------------------------------------------------
(* The refinement of AbstractLog.                                          *)

ViewBase(l) == [index |-> first_index(l) - 1, term |-> term(l, first_index(l) - 1)]

ViewEnts(l) == [k \in 1 .. last_index(l) - first_index(l) + 1 |->
                   term(l, first_index(l) + k - 1)]

(* What the view rests on.                                                 *)
Readable(l) ==
    /\ l \in LogType /\ Joined(l)
    /\ l.storage.base.index <= l.committed /\ l.committed <= last_index(l)

LEMMA InvReadable ==
    ASSUME Inv
    PROVE  Readable(log)
<1>1. /\ log \in LogType /\ Joined(log) /\ log.storage.base.index \in Nat
      /\ log.storage.snap \in Nat /\ log.committed \in Nat
      /\ app.applied_index \in Nat /\ app.snapshot_index \in Nat
    BY InvFields, LogFields
<1>2. log.storage.base.index <= log.committed /\ log.committed <= last_index(log)
    BY <1>1, InvFields DEF Cursors
<1> QED BY <1>1, <1>2 DEF Readable

LEMMA NextReadable ==
    ASSUME Inv'
    PROVE  Readable(log')
<1>1. /\ log' \in LogType /\ Joined(log') /\ app'.applied_index \in Nat
      /\ app'.snapshot_index \in Nat
    BY DEF Inv, TypeInv
<1>2. /\ log'.storage.base.index \in Nat /\ log'.storage.snap \in Nat /\ log'.committed \in Nat
    BY <1>1, LogFields
<1>3. log'.storage.base.index <= log'.committed /\ log'.committed <= last_index(log')
    BY <1>1, <1>2 DEF Inv, Cursors
<1> QED BY <1>1, <1>3 DEF Readable

(* The indexes that are read, in terms of what the log holds.              *)
LEMMA ViewRange ==
    ASSUME NEW l, Readable(l)
    PROVE  /\ first_index(l) - 1 \in Nat /\ first_index(l) \in Nat
           /\ last_index(l) \in Nat /\ l.committed \in Nat
           /\ first_index(l) - 1 <= l.committed /\ l.committed <= last_index(l)
           /\ term(l, first_index(l) - 1) \in Nat
           /\ \A i \in first_index(l) .. last_index(l) : term(l, i) \in Terms
<1>1. /\ l \in LogType /\ Joined(l) /\ l.storage.base.index \in Nat
      /\ l.unstable.snap.index \in Nat /\ l.unstable.snap.term \in Nat
      /\ l.committed \in Nat
      /\ l.storage.base.index <= l.committed /\ l.committed <= last_index(l)
    BY LogFields DEF Readable
<1>2. CASE l.unstable.snap = NoSnap
  <2>1. /\ first_index(l) = l.storage.base.index + 1 /\ last_index(l) \in Nat
        /\ \A i \in l.storage.base.index .. last_index(l) :
              term(l, i) \in Nat /\ (i > l.storage.base.index => term(l, i) \in Terms)
      BY <1>1, <1>2, Reads
  <2> QED BY <1>1, <2>1
<1>3. CASE l.unstable.snap # NoSnap
  <2>1. /\ first_index(l) = l.unstable.snap.index + 1
        /\ last_index(l) = l.unstable.snap.index
        /\ term(l, l.unstable.snap.index) = l.unstable.snap.term
        /\ l.committed = l.unstable.snap.index
      BY <1>1, <1>3, ReadsSnapshot DEF Joined
  <2> QED BY <1>1, <2>1
<1> QED BY <1>2, <1>3

LEMMA ViewType ==
    ASSUME NEW l, Readable(l)
    PROVE  /\ ViewBase(l).index = first_index(l) - 1
           /\ ViewBase(l) \in SnapshotType
           /\ ViewEnts(l) \in Seq(Terms)
           /\ Len(ViewEnts(l)) = last_index(l) - first_index(l) + 1
           /\ ViewBase(l).index + Len(ViewEnts(l)) = last_index(l)
           /\ \A k \in 1 .. last_index(l) - first_index(l) + 1 :
                 ViewEnts(l)[k] = term(l, first_index(l) + k - 1)
<1> DEFINE f == first_index(l)
           n == last_index(l) - f + 1
<1>1. f \in Nat /\ f - 1 \in Nat /\ n \in Nat /\ f - 1 + n = last_index(l)
    BY ViewRange
<1>2. ViewBase(l).index = f - 1 /\ ViewBase(l) \in SnapshotType
    BY <1>1, ViewRange DEF ViewBase, SnapshotType
<1>3. \A k \in 1 .. n : term(l, f + k - 1) \in Terms
    BY ViewRange
<1>4. ViewEnts(l) = [k \in 1 .. n |-> term(l, f + k - 1)]
    BY DEF ViewEnts
<1> HIDE DEF n
<1>5. ViewEnts(l) \in [1 .. n -> Terms]
    BY <1>3, <1>4
<1>6. ViewEnts(l) \in Seq(Terms) /\ Len(ViewEnts(l)) = n
    BY <1>1, <1>5
<1>7. \A k \in 1 .. n : ViewEnts(l)[k] = term(l, f + k - 1)
    BY <1>4
<1> QED BY <1>1, <1>2, <1>6, <1>7 DEF n

LEMMA SameViewEqual ==
    ASSUME NEW l, NEW m, Readable(l), SameView(l, m)
    PROVE  ViewBase(m) = ViewBase(l) /\ ViewEnts(m) = ViewEnts(l)
<1> DEFINE f == first_index(l)
           n == last_index(l) - f + 1
<1>1. /\ first_index(m) = f /\ last_index(m) = last_index(l)
      /\ \A i \in f - 1 .. last_index(l) : term(m, i) = term(l, i)
    BY DEF SameView
<1>2. f \in Nat /\ f - 1 \in Nat /\ last_index(l) \in Nat /\ f - 1 <= last_index(l)
    BY ViewRange
<1>3. f - 1 \in f - 1 .. last_index(l)
    BY <1>2
<1>4. \A k \in 1 .. n : f + k - 1 \in f - 1 .. last_index(l)
    BY <1>2
<1>5. ViewBase(m) = ViewBase(l)
    BY <1>1, <1>3 DEF ViewBase
<1>6. \A k \in 1 .. n : term(m, f + k - 1) = term(l, f + k - 1)
    BY <1>1, <1>4
<1>7. ViewEnts(m) = ViewEnts(l)
    BY <1>1, <1>6 DEF ViewEnts
<1> QED BY <1>5, <1>7

(* The variables of AbstractLog are the view of the log.                   *)
LEMMA AbstractForms ==
    /\ Abstract!vars = <<ViewBase(log), ViewEnts(log), log.committed, delivered>>
    /\ Abstract!vars' = <<ViewBase(log'), ViewEnts(log'), log'.committed, delivered'>>
<1>1. Abstract!vars = <<ViewBase(log), ViewEnts(log), log.committed, delivered>>
    BY DEF Abstract!vars, ViewBase, ViewEnts
<1>2. Abstract!vars' = <<ViewBase(log'), ViewEnts(log'), log'.committed, delivered'>>
    BY DEF Abstract!vars, ViewBase, ViewEnts
<1> QED BY <1>1, <1>2

LEMMA SameViewStep ==
    ASSUME Inv, SameView(log, log'), log'.committed = log.committed, delivered' = delivered
    PROVE  UNCHANGED Abstract!vars
    BY InvReadable, SameViewEqual, AbstractForms

LEMMA CommitStep ==
    ASSUME Inv, SameView(log, log'), delivered' = delivered,
           log'.committed \in log.committed + 1 .. last_index(log)
    PROVE  Abstract!Next
<1>1. ViewBase(log') = ViewBase(log) /\ ViewEnts(log') = ViewEnts(log)
    BY InvReadable, SameViewEqual
<1>2. log'.committed \in log.committed + 1 .. ViewBase(log).index + Len(ViewEnts(log))
    BY InvReadable, ViewType
<1>3. Abstract!Commit
    BY <1>1, <1>2 DEF Abstract!Commit, Abstract!last, ViewBase, ViewEnts
<1> QED BY <1>3 DEF Abstract!Next

LEMMA WriteStep ==
    ASSUME Inv, Inv', NEW after \in Nat, Settled(log), Written(log, log', after),
           delivered' = delivered
    PROVE  Abstract!Next
<1> DEFINE f == first_index(log)
           z == last_index(log')
           n == z - after
           E == ViewEnts(log)
           F == ViewEnts(log')
           B == ViewBase(log)
<1>1. Readable(log) /\ Readable(log')
    BY InvReadable, NextReadable
<1>2. /\ f - 1 \in Nat /\ f \in Nat /\ last_index(log) \in Nat /\ z \in Nat
      /\ log.committed \in Nat /\ log'.committed \in Nat /\ f - 1 <= log.committed
    BY <1>1, ViewRange
<1>3. /\ after \in log.committed .. last_index(log) /\ z > after
      /\ log'.committed \in log.committed .. z
      /\ \A i \in f - 1 .. after : term(log', i) = term(log, i)
      /\ first_index(log') = f
  <2>1. log.unstable.snap = NoSnap /\ log \in LogType /\ Joined(log)
      BY DEF Settled, Committed
  <2>2. log'.unstable.snap = NoSnap /\ log' \in LogType /\ Joined(log')
        /\ log'.storage = log.storage
      BY DEF Written
  <2>3. f = log.storage.base.index + 1 /\ first_index(log') = f
      BY <2>1, <2>2, Reads
  <2>4. log.storage.base.index \in Nat
      BY <2>1, LogFields
  <2>5. f - 1 = log.storage.base.index
      BY <2>3, <2>4
  <2> QED BY <2>3, <2>5 DEF Written
<1>4. /\ B.index = f - 1 /\ B.index + Len(E) = last_index(log) /\ B.index + Len(F) = z
      /\ Len(F) = z - f + 1 /\ Len(E) = last_index(log) - f + 1
      /\ \A k \in 1 .. last_index(log) - f + 1 : E[k] = term(log, f + k - 1)
      /\ \A k \in 1 .. z - f + 1 : F[k] = term(log', f + k - 1)
  <2>1. /\ B.index = f - 1 /\ B.index + Len(E) = last_index(log)
        /\ Len(E) = last_index(log) - f + 1
        /\ \A k \in 1 .. last_index(log) - f + 1 : E[k] = term(log, f + k - 1)
      BY <1>1, ViewType
  <2>2. /\ ViewBase(log').index = f - 1 /\ ViewBase(log').index + Len(F) = z
        /\ Len(F) = z - f + 1
        /\ \A k \in 1 .. z - f + 1 : F[k] = term(log', f + k - 1)
      BY <1>1, <1>3, ViewType
  <2> QED BY <2>1, <2>2
<1>5. ViewBase(log') = B
  <2>1. f - 1 \in f - 1 .. after
      BY <1>2, <1>3
  <2> QED BY <1>3, <2>1 DEF ViewBase
<1> HIDE DEF f, z, E, F, B
<1>6. n \in 1 .. Len(F) /\ after + n = B.index + Len(F)
    BY <1>2, <1>3, <1>4
<1>7. \A k \in 1 .. after - B.index : F[k] = E[k]
  <2> SUFFICES ASSUME NEW k \in 1 .. after - B.index PROVE F[k] = E[k]
      OBVIOUS
  <2>1. /\ k \in 1 .. last_index(log) - f + 1 /\ k \in 1 .. z - f + 1
        /\ f + k - 1 \in f - 1 .. after
      BY <1>2, <1>3, <1>4
  <2> QED BY <1>3, <1>4, <2>1
<1>8. after \in log.committed .. B.index + Len(E) /\ log'.committed \in log.committed .. after + n
    BY <1>2, <1>3, <1>4
<1> HIDE DEF n
<1>9. \E x \in log.committed .. B.index + Len(E), y \in 1 .. Len(F) :
          /\ x + y = B.index + Len(F)
          /\ \A k \in 1 .. x - B.index : F[k] = E[k]
          /\ log'.committed \in log.committed .. x + y
          /\ ViewBase(log') = B /\ delivered' = delivered
    BY <1>5, <1>6, <1>7, <1>8
<1>10. Abstract!Write
    BY <1>9 DEF Abstract!Write, Abstract!last, ViewBase, ViewEnts, B, E, F
<1> QED BY <1>10 DEF Abstract!Next

LEMMA RestoreStep ==
    ASSUME Inv, Inv', Restored(log, log'), delivered' = delivered
    PROVE  Abstract!Next
<1>1. /\ log' \in LogType /\ Joined(log') /\ log'.unstable.snap # NoSnap
      /\ log'.unstable.snap.index > log.committed /\ log'.unstable.snap.index \in Nat
    BY LogFields DEF Restored
<1>2. /\ first_index(log') = log'.unstable.snap.index + 1
      /\ last_index(log') = log'.unstable.snap.index
      /\ log'.committed = log'.unstable.snap.index
    BY <1>1, ReadsSnapshot DEF Joined
<1>3. ViewBase(log').index = log'.unstable.snap.index
    BY <1>1, <1>2 DEF ViewBase
<1>4. ViewEnts(log') = <<>>
  <2>1. last_index(log') - first_index(log') + 1 = 0
      BY <1>1, <1>2
  <2> QED BY <2>1 DEF ViewEnts
<1>5. Abstract!Restore
    BY <1>1, <1>2, <1>3, <1>4 DEF Abstract!Restore, ViewBase, ViewEnts
<1> QED BY <1>5 DEF Abstract!Next

LEMMA EventAbstract ==
    ASSUME Inv, EventStep
    PROVE  [Abstract!Next]_(Abstract!vars)
<1>1. Inv' /\ delivered' = delivered /\ Settled(log)
    BY EventInv DEF EventStep
<1>2. CASE Raised(log, log')
  <2>1. log \in LogType /\ log' \in LogType /\ log'.storage = log.storage
        /\ log'.unstable = log.unstable /\ log'.committed \in log.committed .. last_index(log)
      BY <1>2, InvFields DEF Raised
  <2>2. SameView(log, log')
      BY <2>1, SameReads DEF SameView
  <2>3. CASE log'.committed = log.committed
      BY <1>1, <2>2, <2>3, SameViewStep
  <2>4. CASE log'.committed # log.committed
    <3>1. log'.committed \in log.committed + 1 .. last_index(log)
        BY <2>1, <2>4, InvFields, LogFields, SMTT(30)
    <3> QED BY <1>1, <2>2, <3>1, CommitStep
  <2> QED BY <2>3, <2>4
<1>3. ASSUME NEW after \in Nat, Written(log, log', after)
      PROVE  Abstract!Next
    BY <1>1, <1>3, WriteStep
<1>4. CASE Restored(log, log')
    BY <1>1, <1>4, RestoreStep
<1> QED BY <1>2, <1>3, <1>4 DEF EventStep, Changed


LEMMA StoreAbstract ==
    ASSUME Inv, Store
    PROVE  [Abstract!Next]_(Abstract!vars)
<1>1. /\ SameView(log, log') /\ log'.committed = log.committed
      /\ log.unstable.snap = NoSnap => delivered' = delivered
      /\ log.unstable.snap # NoSnap =>
            /\ Len(delivered) < log.unstable.snap.index
            /\ delivered' = [i \in 1 .. log.unstable.snap.index |-> 0]
    BY StoreInv
<1>2. CASE log.unstable.snap = NoSnap
    BY <1>1, <1>2, SameViewStep
<1>3. CASE log.unstable.snap # NoSnap
  <2>1. ViewBase(log') = ViewBase(log) /\ ViewEnts(log') = ViewEnts(log)
      BY <1>1, InvReadable, SameViewEqual
  <2>2. ViewBase(log).index = log.unstable.snap.index
    <3>1. ViewBase(log).index = first_index(log) - 1
        BY InvReadable, ViewType
    <3>2. first_index(log) = log.unstable.snap.index + 1 /\ log.unstable.snap.index \in Nat
        BY <1>3, InvFields, LogFields, ReadsSnapshot
    <3> QED BY <3>1, <3>2
  <2>3. /\ Len(delivered) < ViewBase(log).index
        /\ delivered' = [i \in 1 .. ViewBase(log).index |-> 0]
      BY <1>1, <1>3, <2>2
  <2>4. Abstract!DeliverSnapshot
      BY <1>1, <2>1, <2>3 DEF Abstract!DeliverSnapshot, ViewBase, ViewEnts
  <2> QED BY <2>4 DEF Abstract!Next
<1> QED BY <1>2, <1>3

LEMMA PublishAbstract ==
    ASSUME ~SelfRemoval, Inv, Publish
    PROVE  [Abstract!Next]_(Abstract!vars)
<1> DEFINE ce == rd.committed_entries
           f == first_index(log)
           d == Len(delivered)
           E == ViewEnts(log)
           B == ViewBase(log)
<1>1. /\ SameView(log, log') /\ delivered' = delivered \o ce
      /\ d + Len(ce) <= log.committed
      /\ log'.committed \in log.committed .. last_index(log)
      /\ ce = <<>> => log'.committed = log.committed
      /\ ce # <<>> => f - 1 <= d
      /\ \A k \in 1 .. Len(ce) : ce[k] = term(log, d + k)
    BY PublishInv
<1>2. delivered \in Seq(Nat) /\ d \in Nat /\ ce \in Seq(Terms) /\ Len(ce) \in Nat
    BY InvFields
<1>3. CASE ce = <<>>
  <2>1. delivered' = delivered
      BY <1>1, <1>2, <1>3, ConcatEmptySeq
  <2> QED BY <1>1, <1>3, <2>1, SameViewStep
<1>4. CASE ce # <<>>
  <2>1. ViewBase(log') = B /\ ViewEnts(log') = E
      BY <1>1, InvReadable, SameViewEqual
  <2>2. /\ f \in Nat /\ f - 1 \in Nat /\ last_index(log) \in Nat /\ log.committed \in Nat
        /\ log.committed <= last_index(log)
      BY InvReadable, ViewRange
  <2>3. /\ B.index = f - 1 /\ B.index + Len(E) = last_index(log) /\ E \in Seq(Terms)
        /\ Len(E) = last_index(log) - f + 1
        /\ \A k \in 1 .. last_index(log) - f + 1 : E[k] = term(log, f + k - 1)
      BY InvReadable, ViewType
  <2> DEFINE n == d + Len(ce)
             from == d + 1 - B.index
             to == n - B.index
  <2> HIDE DEF f, d, E, B, ce
  <2>4. /\ Len(ce) > 0 /\ n \in d + 1 .. log.committed /\ d >= B.index
        /\ from \in Nat /\ to \in Nat /\ 1 <= from /\ to <= Len(E) /\ to - from + 1 = Len(ce)
        /\ from <= to
      BY <1>1, <1>2, <1>4, <2>2, <2>3, SMTT(30)
  <2>5. ce = SubSeq(E, from, to)
    <3> HIDE DEF n, from, to
    <3>1. \A k \in from .. to : E[k] \in Terms
        BY <2>3, <2>4
    <3>2. /\ SubSeq(E, from, to) \in Seq(Terms) /\ Len(SubSeq(E, from, to)) = Len(ce)
          /\ \A k \in 1 .. to - from + 1 : SubSeq(E, from, to)[k] = E[from + k - 1]
        BY <2>4, <3>1, SubSeqProperties
    <3>3. ASSUME NEW k \in 1 .. Len(ce)
          PROVE  SubSeq(E, from, to)[k] = ce[k]
      <4>1. from + k - 1 \in 1 .. last_index(log) - f + 1 /\ f + (from + k - 1) - 1 = d + k
        <5>1. /\ last_index(log) - f + 1 = Len(E) /\ from + k - 1 \in 1 .. Len(E)
            BY <1>2, <2>3, <2>4
        <5>2. f + (from + k - 1) - 1 = d + k
            BY <1>2, <2>2, <2>3 DEF from
        <5> QED BY <5>1, <5>2
      <4>2. E[from + k - 1] = term(log, d + k)
          BY <2>3, <4>1
      <4>3. SubSeq(E, from, to)[k] = E[from + k - 1]
          BY <2>4, <3>2
      <4> QED BY <1>1, <4>2, <4>3
    <3> QED BY <1>2, <3>2, <3>3, SeqEqual
  <2> HIDE DEF n
  <2>6. \E x \in d + 1 .. log.committed :
            delivered' = delivered \o SubSeq(E, d + 1 - B.index, x - B.index)
      BY <1>1, <2>4, <2>5
  <2>7. log'.committed \in log.committed .. B.index + Len(E)
      BY <1>1, <2>3
  <2>8. Abstract!Deliver
      BY <2>1, <2>4, <2>6, <2>7
         DEF Abstract!Deliver, Abstract!last, ViewBase, ViewEnts, d, E, B
  <2> QED BY <2>8 DEF Abstract!Next
<1> QED BY <1>3, <1>4

LEMMA TriggerAbstract ==
    ASSUME Inv, TriggerSnapshot
    PROVE  [Abstract!Next]_(Abstract!vars)
<1>1. /\ Inv' /\ delivered' = delivered /\ log'.committed = log.committed
      /\ SameView(log, log') \/ \E i \in Nat : Compacted(log, log', i)
    BY TriggerInv
<1>2. CASE SameView(log, log')
    BY <1>1, <1>2, SameViewStep
<1>3. ASSUME NEW i \in Nat, Compacted(log, log', i)
      PROVE  Abstract!Next
  <2> DEFINE f == first_index(log)
             z == last_index(log)
             E == ViewEnts(log)
             F == ViewEnts(log')
             B == ViewBase(log)
             d == Len(delivered)
             c == i - B.index
  <2>1. /\ f \in Nat /\ f - 1 \in Nat /\ z \in Nat /\ d \in Nat /\ d <= z
    <3>1. /\ f \in Nat /\ f - 1 \in Nat /\ z \in Nat /\ log.committed \in Nat /\ log.committed <= z
        BY InvReadable, ViewRange
    <3>2. d \in Nat /\ d = app.applied_index /\ app.applied_index <= log.committed
        BY InvFields DEF Cursors
    <3> QED BY <3>1, <3>2
  <2>2. /\ i \in f .. d /\ first_index(log') = i + 1 /\ last_index(log') = z
        /\ \A j \in i .. z : term(log', j) = term(log, j)
      BY <1>3 DEF Compacted
  <2>3. /\ B.index = f - 1 /\ E \in Seq(Terms) /\ Len(E) = z - f + 1
        /\ \A k \in 1 .. z - f + 1 : E[k] = term(log, f + k - 1)
      BY InvReadable, ViewType
  <2>4. /\ F \in Seq(Terms) /\ Len(F) = z - (i + 1) + 1
        /\ \A k \in 1 .. z - (i + 1) + 1 : F[k] = term(log', (i + 1) + k - 1)
      BY <1>1, <2>2, NextReadable, ViewType
  <2>5. ViewBase(log') = [index |-> i, term |-> E[c]]
    <3>1. (i + 1) - 1 = i /\ i \in i .. z
        BY <2>1, <2>2
    <3>2. ViewBase(log') = [index |-> i, term |-> term(log', i)]
        BY <2>2, <3>1 DEF ViewBase
    <3>3. term(log', i) = term(log, i)
        BY <2>2, <3>1
    <3>4. c \in 1 .. z - f + 1 /\ f + c - 1 = i
      <4> HIDE DEF f, z, B, d
      <4> QED BY <2>1, <2>2, <2>3
    <3>5. E[c] = term(log, i)
      <4> HIDE DEF E, c, f, z
      <4> QED BY <2>3, <3>4
    <3> QED BY <3>2, <3>3, <3>5
  <2>6. F = SubSeq(E, c + 1, Len(E))
    <3> HIDE DEF f, z, E, F, B, d
    <3>1. /\ c \in Nat /\ c >= 1 /\ c <= Len(E) /\ Len(E) \in Nat /\ Len(F) = Len(E) - c
          /\ i = f + c - 1 /\ Len(E) = z - f + 1
        BY <2>1, <2>2, <2>3, <2>4
    <3> HIDE DEF c
    <3>2. \A k \in c + 1 .. Len(E) : E[k] \in Terms
        BY <2>3, <3>1
    <3>3. /\ SubSeq(E, c + 1, Len(E)) \in Seq(Terms)
          /\ Len(SubSeq(E, c + 1, Len(E))) = IF c + 1 <= Len(E) THEN Len(E) - (c + 1) + 1 ELSE 0
          /\ \A k \in 1 .. Len(E) - (c + 1) + 1 : SubSeq(E, c + 1, Len(E))[k] = E[(c + 1) + k - 1]
        BY <3>1, <3>2, SubSeqProperties
    <3>4. Len(SubSeq(E, c + 1, Len(E))) = Len(F)
        BY <3>1, <3>3
    <3>5. ASSUME NEW k \in 1 .. Len(F)
          PROVE  SubSeq(E, c + 1, Len(E))[k] = F[k]
      <4>1. /\ k \in 1 .. Len(E) - (c + 1) + 1 /\ (c + 1) + k - 1 \in 1 .. z - f + 1
            /\ k \in 1 .. z - (i + 1) + 1
            /\ f + ((c + 1) + k - 1) - 1 = (i + 1) + k - 1 /\ (i + 1) + k - 1 \in i .. z
          BY <2>1, <3>1
      <4>2. E[(c + 1) + k - 1] = term(log, (i + 1) + k - 1)
          BY <2>3, <4>1
      <4>3. F[k] = term(log', (i + 1) + k - 1)
          BY <2>4, <4>1
      <4>4. SubSeq(E, c + 1, Len(E))[k] = E[(c + 1) + k - 1]
          BY <3>3, <4>1
      <4> QED BY <2>2, <4>1, <4>2, <4>3, <4>4
    <3> QED BY <2>4, <3>3, <3>4, <3>5, SeqEqual
  <2>7. \E n \in B.index + 1 .. d : /\ ViewBase(log') = [index |-> n, term |-> E[n - B.index]]
                                    /\ F = SubSeq(E, n - B.index + 1, Len(E))
    <3>1. i \in B.index + 1 .. d
      <4> HIDE DEF f, B, d
      <4> QED BY <2>1, <2>2, <2>3
    <3> QED BY <2>5, <2>6, <3>1
  <2>8. Abstract!Compact
      BY <1>1, <2>7 DEF Abstract!Compact, ViewBase, ViewEnts
  <2> QED BY <2>8 DEF Abstract!Next
<1> QED BY <1>1, <1>2, <1>3

LEMMA AbstractStep ==
    ASSUME ~SelfRemoval, Inv, [Next]_vars
    PROVE  [Abstract!Next]_(Abstract!vars)
<1>1. CASE Event
    BY <1>1, EventResult, EventAbstract
<1>2. ASSUME log' = log, delivered' = delivered
      PROVE  UNCHANGED Abstract!vars
    BY <1>2, AbstractForms
<1>3. CASE Ready
    BY <1>2, <1>3, ReadyInv
<1>4. CASE Store
    BY <1>4, StoreAbstract
<1>5. CASE Publish
    BY <1>5, PublishAbstract
<1>6. CASE TriggerSnapshot
    BY <1>6, TriggerAbstract
<1>7. CASE Advance
    BY <1>7, AdvanceInv, SameViewStep
<1>8. CASE UNCHANGED vars
    BY <1>2, <1>8 DEF vars
<1> QED BY <1>1, <1>3, <1>4, <1>5, <1>6, <1>7, <1>8 DEF Next, Loop

LEMMA AbstractInit == Init => Abstract!Init
<1> SUFFICES ASSUME Init PROVE Abstract!Init
    OBVIOUS
<1>1. Readable(log)
    BY InitInv, InvReadable
<1>2. /\ ViewBase(log).index = first_index(log) - 1 /\ ViewBase(log) \in SnapshotType
      /\ ViewEnts(log) \in Seq(Terms)
      /\ ViewBase(log).index + Len(ViewEnts(log)) = last_index(log)
    BY <1>1, ViewType
<1>3. ViewEnts(log) \in Seq(Nat \ {0})
  <2>1. Terms \subseteq Nat \ {0}
      BY SnapAssumption DEF Terms
  <2> QED BY <1>2, <2>1, SeqMonotonic
<1>4. log.committed \in first_index(log) - 1 .. last_index(log)
    BY <1>1, ViewRange
<1>5. first_index(log) - 1 = log.storage.snap
  <2>1. first_index(log) = log.storage.base.index + 1
      BY InitLog, Reads
  <2>2. log.storage.base.index \in Nat
      BY InitLog, LogFields
  <2> QED BY <2>1, <2>2, InitLog
<1>6. delivered = [i \in 1 .. ViewBase(log).index |-> 0]
    BY <1>2, <1>5 DEF Init
<1>7. log.committed \in ViewBase(log).index .. ViewBase(log).index + Len(ViewEnts(log))
    BY <1>2, <1>4
<1>8. ViewBase(log) \in [index : Nat, term : Nat]
    BY <1>2 DEF SnapshotType
<1> QED BY <1>3, <1>6, <1>7, <1>8 DEF Abstract!Init, Abstract!last, ViewBase, ViewEnts

(* What RaftLog, Unstable and MemoryStorage hold between them is one log,  *)
(* of which only the uncommitted suffix is replaced, only what the store   *)
(* has is compacted, and each entry reaches the store once and in order:   *)
(* every step of the detailed specification is a step of AbstractLog.      *)
THEOREM LogIsOneLog ==
    ASSUME ~SelfRemoval
    PROVE  Spec => OneLog
<1>1. Init => Abstract!Init
    BY AbstractInit
<1>2. Inv /\ [Next]_vars => [Abstract!Next]_(Abstract!vars)
    BY AbstractStep
<1> QED BY <1>1, <1>2, InvHolds, PTL DEF Spec, OneLog, Abstract!Spec

=============================================================================
