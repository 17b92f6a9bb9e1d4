----------------------------- MODULE WalProofs -----------------------------
(***************************************************************************)
(* Theorems about module Wal for every bound: what a server that restarts  *)
(* reads from its disk, provided that a sync leaves nothing in memory and  *)
(* that the very first start is not interrupted.                           *)
(***************************************************************************)
EXTENDS Wal, SetInduction, SequenceTheorems, TLAPS

RecordType == [type : {"entry", "state", "snap"}, index : Nat, term : Nat]
SnapType   == [index : Nat, term : Nat]
HardStates == [term : Nat, commit : Nat]
AccType    == [hs : HardStates, log : Seq(Nat), fatal : BOOLEAN]
MemType    ==
    [base : Nat, log : Seq(Nat), term : Nat, commit : Nat, applied : Nat,
     snapshot_index : Nat, prev : HardStates, state : HardStates,
     peers : BOOLEAN, store : SUBSET Nat, matched : Nat]

(* The log and the HardState that the records hold for a reader that       *)
(* starts after a snapshot at index b.                                     *)
ReadLog(b, records) == replay([index |-> b, term |-> 0], records).log
ReadState(b, records) == replay([index |-> b, term |-> 0], records).hs

(* Two logs agree up to index n.                                           *)
Fixed(x, y, n) == n <= Len(x) /\ n <= Len(y) /\ \A i \in 1..n : x[i] = y[i]

(* What follows a snapshot at i has no hole, and a reader that starts      *)
(* after a later one, at j, loses nothing.  It may bring back entries:     *)
(* those that a record at or below j had cut off.                          *)
Nested(x, y, i, j) ==
    /\ Len(x) >= i /\ Len(y) >= j /\ Len(y) >= Len(x)
    /\ \A k \in i+1 .. Len(x) : x[k] # 0
    /\ \A k \in j+1 .. Len(x) : y[k] = x[k]

Sound(records, b) ==
    \A i, j \in Nat : b <= i /\ i <= j =>
        /\ ReadState(i, records) = ReadState(j, records)
        /\ Nested(ReadLog(i, records), ReadLog(j, records), i, j)

Recorded(records, snap) == \E k \in 1..Len(records) : records[k] = SnapRecord(snap)

(* Below, q and f are the records on disk, b those in data_buffer, fs the  *)
(* snapshot files, m the process and s what it last sent.                  *)

(* The records of snapshots: each snapshot file has one, none is ahead of  *)
(* the commit index on disk, and two of the same index have one term.      *)
SnapsOK(q, fs, m) ==
    /\ Recorded(q, NoSnap)
    /\ \A snap \in fs : Recorded(q, snap)
    /\ \A k \in 1..Len(q) : q[k].type = "snap" =>
          /\ q[k].index <= ReadState(m.base, q).commit
          /\ q[k].index > m.base => q[k].term = m.log[q[k].index]
    /\ \A k, l \in 1..Len(q) :
          /\ q[k].type = "snap" /\ q[k].index = m.base
          /\ q[l].type = "snap" /\ q[l].index = m.base
          => q[k].term = q[l].term

(* The log differs from the one last sent first after position a.          *)
NewAfter(m, s, a) ==
    /\ a < Len(m.log) /\ Fixed(s.log, m.log, a)
    /\ a < Len(s.log) => s.log[a + 1] # m.log[a + 1]

(* A log between the one last sent and the one in memory.                  *)
Between(m, s, log) ==
    \/ log = s.log
    \/ \E a \in Nat : /\ NewAfter(m, s, a) /\ m.applied <= a /\ a < Len(log)
                      /\ Fixed(s.log, log, a) /\ Fixed(m.log, log, Len(log))

(* What a crash must leave behind.                                         *)
CrashOK(q, fs, m, s) ==
    LET log == ReadLog(m.base, q)
        hs  == ReadState(m.base, q)
    IN  /\ q \in Seq(RecordType) /\ Sound(q, m.base) /\ SnapsOK(q, fs, m)
        /\ Between(m, s, log)
        /\ hs.term >= s.term /\ hs.commit <= m.commit
        /\ Fixed(log, m.log, hs.commit) /\ Fixed(log, m.log, m.applied)

MemOK(m, s) ==
    /\ m \in MemType /\ s \in [term : Nat, log : Seq(Nat)]
    /\ m.base <= m.snapshot_index /\ m.snapshot_index <= m.applied
    /\ m.applied <= m.commit /\ m.commit <= Len(m.log)

SnapFiles(fs, m) ==
    /\ fs \in SUBSET SnapType
    /\ \A snap \in fs : snap.index <= m.snapshot_index
    /\ \/ fs = {} /\ m.snapshot_index = 0
       \/ \E snap \in fs : snap.index = m.snapshot_index

HardState(m) == [term |-> m.term, commit |-> m.commit]

(* The HardState last appended, written or not.                            *)
Latest(f, b, m) ==
    IF b = <<>> THEN ReadState(m.base, f)
    ELSE [term |-> b[Len(b)].term, commit |-> b[Len(b)].index]

(* The disk holds a log, and the term and vote; data_buffer holds nothing  *)
(* but commit indexes.                                                     *)
Durable(f, b, fs, m, term, log) ==
    /\ Sound(f, m.base) /\ SnapsOK(f, fs, m)
    /\ ReadLog(m.base, f) = log /\ ReadState(m.base, f).term = term
    /\ Latest(f, b, m).term = term
    /\ ReadState(m.base, f).commit <= Latest(f, b, m).commit
    /\ \A k \in 1..Len(b) :
          /\ b[k].type = "state" /\ b[k].term = term
          /\ ReadState(m.base, f).commit <= b[k].index
          /\ b[k].index <= Latest(f, b, m).commit

AtSave(f, b, fs, m, s) ==
    LET last == Latest(f, b, m)
    IN  /\ Durable(f, b, fs, m, s.term, s.log)
        /\ s.term <= m.term /\ m.state.term <= s.term
        /\ m.applied <= last.commit /\ last.commit <= m.commit
        /\ Fixed(s.log, m.log, last.commit)
        /\ m.log = s.log \/ \E a \in Nat : last.commit <= a /\ NewAfter(m, s, a)
        /\ \A k \in m.base+1 .. Len(m.log) : m.log[k] # 0
        /\ HardState(m) \in {m.prev, EmptyState} => last = HardState(m)

AtApply(f, b, fs, m, s) ==
    /\ Durable(f, b, fs, m, m.term, m.log) /\ Latest(f, b, m) = HardState(m)
    /\ s.term <= m.term /\ m.state.term <= m.term
    /\ Between(m, s, m.log)

AtRest(f, b, fs, m, s) ==
    /\ Durable(f, b, fs, m, m.term, m.log) /\ Latest(f, b, m) = HardState(m)
    /\ s.term = m.term /\ s.log = m.log
    /\ m.state.term <= m.term
    /\ m.prev \in {HardState(m), EmptyState}

AtSnapfile(f, m) ==
    /\ m.applied > m.snapshot_index
    /\ Recorded(f, [index |-> m.applied, term |-> m.log[m.applied]])

Fresh ==
    /\ buffer = <<>> /\ snaps = {}
    /\ mem = NewProcess(NoSnap, <<>>, EmptyState) /\ sent = [term |-> 0, log |-> <<>>]
    /\ pc = "start" => file = <<SnapRecord(NoSnap)>> /\ dirs = "wal"

WalInv ==
    /\ file \in Seq(RecordType) /\ buffer \in Seq(RecordType) /\ stdio = <<>>
    /\ MemOK(mem, sent) /\ SnapFiles(snaps, mem)
    /\ pc \in {"new", "create", "start", "save", "apply", "trigger", "snapfile", "idle", "down"}
    /\ pc \in {"new", "create", "start"} => Fresh
    /\ pc \notin {"new", "create", "start"} => dirs = "wal"
    /\ pc = "save" => AtSave(file, buffer, snaps, mem, sent)
    /\ pc = "apply" => AtApply(file, buffer, snaps, mem, sent)
    /\ pc \in {"trigger", "snapfile", "idle"} => AtRest(file, buffer, snaps, mem, sent)
    /\ pc = "snapfile" => AtSnapfile(file, mem)
    /\ pc = "down" => buffer = <<>> /\ CrashOK(file, snaps, mem, sent)

-----------------------------------------------------------------------------
(* replay, a recursive function over the records.                          *)

Blank(start) == [hs |-> EmptyState, log |-> [i \in 1..start.index |-> 0], fatal |-> FALSE]

Rounds(f, start, q, i) ==
    f = [k \in 0..i |-> IF k = 0 THEN Blank(start) ELSE handle_record(start, f[k-1], q[k])]

LEMMA RoundsExist ==
    ASSUME NEW start, NEW q, NEW i \in Nat
    PROVE  \E f : Rounds(f, start, q, i)
<1> DEFINE S == {j \in Nat : \E f : Rounds(f, start, q, j)}
<1>1. 0 \in S
  <2> DEFINE f == [k \in 0..0 |-> Blank(start)]
  <2>1. f = [k \in 0..0 |-> IF k = 0 THEN Blank(start) ELSE handle_record(start, f[k-1], q[k])]
      OBVIOUS
  <2> HIDE DEF f
  <2> QED BY <2>1 DEF Rounds
<1>2. ASSUME NEW j \in Nat, j \in S
      PROVE  j + 1 \in S
  <2>1. PICK g : Rounds(g, start, q, j)
      BY <1>2
  <2> DEFINE f == [k \in 0..(j + 1) |->
                     IF k = 0 THEN Blank(start) ELSE handle_record(start, g[k-1], q[k])]
  <2>2. ASSUME NEW k \in 0..j
        PROVE  f[k] = g[k]
    <3>1. g = [l \in 0..j |-> IF l = 0 THEN Blank(start)
                              ELSE handle_record(start, g[l-1], q[l])]
        BY <2>1, Zenon DEF Rounds
    <3>2. g[k] = IF k = 0 THEN Blank(start) ELSE handle_record(start, g[k-1], q[k])
        BY <3>1, Zenon
    <3>3. k \in 0..(j + 1)
        OBVIOUS
    <3>4. f[k] = IF k = 0 THEN Blank(start) ELSE handle_record(start, g[k-1], q[k])
        BY <3>3, Zenon
    <3> QED BY <3>2, <3>4, Zenon
  <2>3. ASSUME NEW k \in 0..(j + 1), k # 0
        PROVE  f[k-1] = g[k-1]
    <3>1. k - 1 \in 0..j
        BY <2>3
    <3> QED BY <2>2, <3>1, Zenon
  <2>4. f = [k \in 0..(j + 1) |-> IF k = 0 THEN Blank(start)
                                  ELSE handle_record(start, f[k-1], q[k])]
    <3>1. ASSUME NEW k \in 0..(j + 1)
          PROVE  (IF k = 0 THEN Blank(start) ELSE handle_record(start, g[k-1], q[k]))
                   = (IF k = 0 THEN Blank(start) ELSE handle_record(start, f[k-1], q[k]))
        BY <2>3, Zenon
    <3> QED BY <3>1, Zenon
  <2> HIDE DEF f
  <2>5. \E h : Rounds(h, start, q, j + 1)
      BY <2>4 DEF Rounds
  <2> QED BY <2>5
<1>3. \A j \in Nat : j \in S
  <2> HIDE DEF S
  <2> QED BY <1>1, <1>2, NatSetInduction
<1> QED BY <1>3

(* f[n] is what the first n records say.                                   *)
Chain(f, start, q) ==
    /\ f[0] = Blank(start)
    /\ \A j \in Nat : j < Len(q) => f[j + 1] = handle_record(start, f[j], q[j + 1])

LEMMA ReplayChain ==
    ASSUME NEW start, NEW q, Len(q) \in Nat
    PROVE  \E f : Chain(f, start, q) /\ replay(start, q) = f[Len(q)]
<1> DEFINE N == Len(q)
           f == CHOOSE g : Rounds(g, start, q, N)
<1>1. Rounds(f, start, q, N)
    BY RoundsExist, Zenon
<1>2. replay(start, q) = f[Len(q)]
    BY Zenon DEF replay, Rounds, Blank
<1> HIDE DEF f
<1>3. f = [k \in 0..N |-> IF k = 0 THEN Blank(start) ELSE handle_record(start, f[k-1], q[k])]
    BY <1>1, Zenon DEF Rounds
<1>4. \A k \in 0..N : f[k] = IF k = 0 THEN Blank(start) ELSE handle_record(start, f[k-1], q[k])
    BY <1>3, Zenon
<1>5. f[0] = Blank(start)
  <2>1. 0 \in 0..N
      OBVIOUS
  <2> QED BY <1>4, <2>1, Zenon
<1>6. ASSUME NEW j \in Nat, j < Len(q)
      PROVE  f[j + 1] = handle_record(start, f[j], q[j + 1])
  <2>1. j + 1 \in 0..N /\ j + 1 # 0 /\ (j + 1) - 1 = j
      BY <1>6
  <2>2. f[j + 1] = handle_record(start, f[(j + 1) - 1], q[j + 1])
      BY <1>4, <2>1, Zenon
  <2> QED BY <2>1, <2>2, Zenon
<1> QED BY <1>2, <1>5, <1>6 DEF Chain

LEMMA ReplayOf ==
    ASSUME NEW start, NEW q, Len(q) \in Nat, NEW f, Chain(f, start, q)
    PROVE  replay(start, q) = f[Len(q)]
<1>1. PICK g : Chain(g, start, q) /\ replay(start, q) = g[Len(q)]
    BY ReplayChain
<1> DEFINE S == {j \in Nat : j <= Len(q) => f[j] = g[j]}
<1>2. 0 \in S
    BY <1>1 DEF Chain
<1>3. ASSUME NEW j \in Nat, j \in S
      PROVE  j + 1 \in S
  <2>1. CASE j + 1 <= Len(q)
    <3>1. f[j] = g[j] /\ j < Len(q)
        BY <1>3, <2>1
    <3>2. f[j + 1] = handle_record(start, f[j], q[j + 1])
          /\ g[j + 1] = handle_record(start, g[j], q[j + 1])
        BY <1>1, <3>1, Zenon DEF Chain
    <3> QED BY <3>1, <3>2
  <2>2. CASE ~(j + 1 <= Len(q))
      BY <2>2
  <2> QED BY <2>1, <2>2
<1>4. \A j \in Nat : j \in S
  <2> HIDE DEF S
  <2> QED BY <1>2, <1>3, NatSetInduction
<1> QED BY <1>1, <1>4

LEMMA ReplayEmpty ==
    ASSUME NEW start
    PROVE  replay(start, <<>>) = Blank(start)
<1>1. PICK f : Chain(f, start, <<>>) /\ replay(start, <<>>) = f[Len(<<>>)]
    BY ReplayChain
<1> QED BY <1>1 DEF Chain

LEMMA ReplayAppend ==
    ASSUME NEW start, NEW q \in Seq(RecordType), NEW r \in RecordType
    PROVE  replay(start, Append(q, r)) = handle_record(start, replay(start, q), r)
<1> DEFINE p == Append(q, r)
<1>1. p \in Seq(RecordType) /\ Len(p) = Len(q) + 1 /\ p[Len(q) + 1] = r
      /\ Len(q) \in Nat /\ Len(p) \in Nat
    OBVIOUS
<1>2. \A j \in Nat : j < Len(q) => p[j + 1] = q[j + 1]
    OBVIOUS
<1> HIDE DEF p
<1>3. PICK f : Chain(f, start, p) /\ replay(start, p) = f[Len(p)]
    BY <1>1, ReplayChain
<1>4. Chain(f, start, q)
  <2>1. ASSUME NEW j \in Nat, j < Len(q)
        PROVE  f[j + 1] = handle_record(start, f[j], q[j + 1])
    <3>1. j < Len(p) /\ p[j + 1] = q[j + 1]
        BY <1>1, <1>2, <2>1
    <3> QED BY <1>3, <3>1, Zenon DEF Chain
  <2> QED BY <1>3, <2>1 DEF Chain
<1>5. replay(start, q) = f[Len(q)]
    BY <1>1, <1>4, ReplayOf
<1>6. Len(q) < Len(p)
    BY <1>1
<1>7. f[Len(q) + 1] = handle_record(start, f[Len(q)], p[Len(q) + 1])
    BY <1>1, <1>3, <1>6, Zenon DEF Chain
<1> QED BY <1>1, <1>3, <1>5, <1>7, Zenon DEF p

LEMMA RecordInduction ==
    ASSUME NEW P, <<>> \in P,
           \A q \in Seq(RecordType), r \in RecordType : q \in P => Append(q, r) \in P
    PROVE  \A q \in Seq(RecordType) : q \in P
<1> DEFINE S == {n \in Nat : \A q \in Seq(RecordType) : Len(q) = n => q \in P}
<1>1. 0 \in S
  <2>1. \A q \in Seq(RecordType) : Len(q) = 0 => q = <<>>
      OBVIOUS
  <2> QED BY <2>1
<1>2. ASSUME NEW n \in Nat, n \in S
      PROVE  n + 1 \in S
  <2>1. ASSUME NEW q \in Seq(RecordType), Len(q) = n + 1
        PROVE  q \in P
    <3>1. \E f \in Seq(RecordType), r \in RecordType : q = Append(f, r) /\ Len(f) = n
      <4> DEFINE f == SubSeq(q, 1, n)
                 r == q[n + 1]
      <4>1. f \in Seq(RecordType) /\ Len(f) = n /\ r \in RecordType
          BY <2>1
      <4>2. q = Append(f, r)
          BY <2>1
      <4> HIDE DEF f, r
      <4> QED BY <4>1, <4>2
    <3>2. PICK f \in Seq(RecordType), r \in RecordType : q = Append(f, r) /\ Len(f) = n
        BY <3>1
    <3>3. f \in P
        BY <1>2, <3>2
    <3> QED BY <3>2, <3>3, Zenon
  <2> QED BY <2>1
<1>3. \A n \in Nat : n \in S
  <2> HIDE DEF S
  <2> QED BY <1>1, <1>2, NatSetInduction
<1>4. ASSUME NEW q \in Seq(RecordType)
      PROVE  q \in P
  <2>1. Len(q) \in Nat
      OBVIOUS
  <2> QED BY <1>3, <2>1
<1> QED BY <1>4

LEMMA ResizeLog ==
    ASSUME NEW log \in Seq(Nat), NEW n \in Nat
    PROVE  /\ Resize(log, n) \in Seq(Nat) /\ Len(Resize(log, n)) = n
           /\ \A i \in 1..n : Resize(log, n)[i] = IF i <= Len(log) THEN log[i] ELSE 0
<1>1. Resize(log, n) \in [1..n -> Nat]
  <2>1. \A i \in 1..n : (IF i <= Len(log) THEN log[i] ELSE 0) \in Nat
      OBVIOUS
  <2> QED BY <2>1 DEF Resize
<1>2. \A i \in 1..n : Resize(log, n)[i] = IF i <= Len(log) THEN log[i] ELSE 0
    BY DEF Resize
<1> HIDE DEF Resize
<1>3. \A s : s \in [1..n -> Nat] => s \in Seq(Nat) /\ Len(s) = n
    OBVIOUS
<1> QED BY <1>1, <1>2, <1>3

(* One record.                                                             *)
LEMMA Handled ==
    ASSUME NEW start \in SnapType, NEW acc \in AccType, NEW r \in RecordType
    PROVE  LET a == handle_record(start, acc, r)
           IN  /\ a \in AccType
               /\ r.type = "entry" /\ r.index > start.index =>
                     /\ a.log = Append(Resize(acc.log, r.index - 1), r.term)
                     /\ a.hs = acc.hs /\ a.fatal = acc.fatal
               /\ ~(r.type = "entry" /\ r.index > start.index) => a.log = acc.log
               /\ r.type = "state" => a.hs = [term |-> r.term, commit |-> r.index]
               /\ r.type # "state" => a.hs = acc.hs
               /\ a.fatal => \/ acc.fatal
                             \/ r.type = "snap" /\ r.index = start.index /\ r.term # start.term
<1> DEFINE a == handle_record(start, acc, r)
<1>0. /\ acc = [hs |-> acc.hs, log |-> acc.log, fatal |-> acc.fatal]
      /\ acc.log \in Seq(Nat) /\ acc.hs \in HardStates /\ acc.fatal \in BOOLEAN
      /\ r.index \in Nat /\ r.term \in Nat /\ start.index \in Nat
      /\ r.type \in {"entry", "state", "snap"}
    BY DEF AccType, RecordType, SnapType
<1>1. CASE r.type = "entry" /\ r.index > start.index
  <2>1. a = [acc EXCEPT !.log = Append(Resize(acc.log, r.index - 1), r.term)]
      BY <1>1 DEF handle_record
  <2>2. r.index - 1 \in Nat
      BY <1>0, <1>1
  <2>3. Append(Resize(acc.log, r.index - 1), r.term) \in Seq(Nat)
      BY <1>0, <2>2, ResizeLog
  <2> HIDE DEF a
  <2>4. a.log = Append(Resize(acc.log, r.index - 1), r.term) /\ a.hs = acc.hs /\ a.fatal = acc.fatal
      BY <2>1, <1>0 DEF AccType
  <2>5. a \in AccType
      BY <1>0, <2>1, <2>3 DEF AccType
  <2> QED BY <1>1, <2>4, <2>5 DEF a
<1>2. CASE r.type = "state"
  <2>1. a = [acc EXCEPT !.hs = [term |-> r.term, commit |-> r.index]]
      BY <1>2 DEF handle_record
  <2> HIDE DEF a
  <2>4. a.log = acc.log /\ a.hs = [term |-> r.term, commit |-> r.index] /\ a.fatal = acc.fatal
      BY <2>1 DEF AccType
  <2>5. a \in AccType
      BY <1>0, <2>1 DEF AccType, HardStates
  <2> QED BY <1>2, <2>4, <2>5 DEF a
<1>3. CASE r.type = "snap" /\ r.index = start.index /\ r.term # start.term
  <2>1. a = [acc EXCEPT !.fatal = TRUE]
      BY <1>3 DEF handle_record
  <2> HIDE DEF a
  <2>4. a.log = acc.log /\ a.hs = acc.hs /\ a \in AccType
      BY <2>1 DEF AccType
  <2> QED BY <1>3, <2>4 DEF a
<1>4. CASE /\ ~(r.type = "entry" /\ r.index > start.index) /\ r.type # "state"
           /\ ~(r.type = "snap" /\ r.index = start.index /\ r.term # start.term)
  <2>1. a = acc
      BY <1>4 DEF handle_record
  <2> HIDE DEF a
  <2> QED BY <1>4, <2>1 DEF a
<1> QED BY <1>1, <1>2, <1>3, <1>4

LEMMA BlankType ==
    ASSUME NEW start \in SnapType
    PROVE  /\ Blank(start) \in AccType /\ Blank(start).hs = EmptyState
           /\ Len(Blank(start).log) = start.index /\ Blank(start).fatal = FALSE
           /\ Blank(start).log = [i \in 1..start.index |-> 0]
<1>1. start.index \in Nat
    BY DEF SnapType
<1>2. [i \in 1..start.index |-> 0] \in [1..start.index -> Nat]
    OBVIOUS
<1>3. \A n \in Nat : \A s \in [1..n -> Nat] : s \in Seq(Nat) /\ Len(s) = n
    OBVIOUS
<1>4. [i \in 1..start.index |-> 0] \in Seq(Nat) /\ Len([i \in 1..start.index |-> 0]) = start.index
    BY <1>1, <1>2, <1>3, Zenon
<1>5. EmptyState \in HardStates
    BY DEF EmptyState, HardStates
<1> QED BY <1>4, <1>5 DEF Blank, AccType

LEMMA ReplayType ==
    ASSUME NEW start \in SnapType
    PROVE  \A q \in Seq(RecordType) : replay(start, q) \in AccType
<1> DEFINE P == {q \in Seq(RecordType) : replay(start, q) \in AccType}
<1>1. <<>> \in P
  <2>1. <<>> \in Seq(RecordType)
      OBVIOUS
  <2>2. replay(start, <<>>) \in AccType
      BY ReplayEmpty, BlankType
  <2> QED BY <2>1, <2>2
<1>2. ASSUME NEW q \in Seq(RecordType), NEW r \in RecordType, q \in P
      PROVE  Append(q, r) \in P
  <2>1. Append(q, r) \in Seq(RecordType)
      OBVIOUS
  <2>2. replay(start, q) \in AccType
      BY <1>2
  <2>3. handle_record(start, replay(start, q), r) \in AccType
    <3> DEFINE acc == replay(start, q)
    <3> HIDE DEF acc
    <3>1. acc \in AccType
        BY <2>2 DEF acc
    <3>2. handle_record(start, acc, r) \in AccType
        BY <3>1, Handled
    <3> QED BY <3>2 DEF acc
  <2>4. replay(start, Append(q, r)) \in AccType
      BY <2>3, ReplayAppend
  <2> QED BY <2>1, <2>4
<1>3. \A q \in Seq(RecordType) : q \in P
  <2> HIDE DEF P
  <2> QED BY <1>1, <1>2, RecordInduction
<1> QED BY <1>3

LEMMA ReadType ==
    ASSUME NEW b \in Nat, NEW q \in Seq(RecordType)
    PROVE  /\ ReadLog(b, q) \in Seq(Nat) /\ Len(ReadLog(b, q)) \in Nat
           /\ ReadState(b, q) \in HardStates
           /\ ReadState(b, q).term \in Nat /\ ReadState(b, q).commit \in Nat
<1> DEFINE start == [index |-> b, term |-> 0]
<1>1. start \in SnapType
    BY DEF SnapType
<1> HIDE DEF start
<1>2. replay(start, q) \in AccType
    BY <1>1, ReplayType
<1>3. replay(start, q).log \in Seq(Nat) /\ replay(start, q).hs \in HardStates
    BY <1>2 DEF AccType
<1>4. ReadLog(b, q) \in Seq(Nat) /\ ReadState(b, q) \in HardStates
    BY <1>3 DEF ReadLog, ReadState, start
<1>5. ReadState(b, q).term \in Nat /\ ReadState(b, q).commit \in Nat
    BY <1>4 DEF HardStates
<1> QED BY <1>4, <1>5

LEMMA ReadEmpty ==
    ASSUME NEW b \in Nat
    PROVE  /\ ReadLog(b, <<>>) \in Seq(Nat) /\ Len(ReadLog(b, <<>>)) = b
           /\ ReadState(b, <<>>) = EmptyState
<1> DEFINE start == [index |-> b, term |-> 0]
<1>1. start \in SnapType /\ start.index = b
    BY DEF SnapType
<1>2. ReadLog(b, <<>>) = Blank(start).log /\ ReadState(b, <<>>) = Blank(start).hs
    BY ReplayEmpty DEF ReadLog, ReadState
<1> HIDE DEF start
<1>3. Blank(start).log \in Seq(Nat)
    BY <1>1, BlankType DEF AccType
<1> QED BY <1>1, <1>2, <1>3, BlankType

LEMMA ReadAppend ==
    ASSUME NEW b \in Nat, NEW q \in Seq(RecordType), NEW r \in RecordType
    PROVE  LET p == Append(q, r)
           IN  /\ r.type = "entry" /\ r.index > b =>
                     ReadLog(b, p) = Append(Resize(ReadLog(b, q), r.index - 1), r.term)
               /\ ~(r.type = "entry" /\ r.index > b) => ReadLog(b, p) = ReadLog(b, q)
               /\ r.type = "state" => ReadState(b, p) = [term |-> r.term, commit |-> r.index]
               /\ r.type # "state" => ReadState(b, p) = ReadState(b, q)
<1> DEFINE start == [index |-> b, term |-> 0]
           acc   == replay(start, q)
           a     == replay(start, Append(q, r))
<1>1. start \in SnapType /\ start.index = b
    BY DEF SnapType
<1>2. /\ ReadLog(b, q) = acc.log /\ ReadState(b, q) = acc.hs
      /\ ReadLog(b, Append(q, r)) = a.log /\ ReadState(b, Append(q, r)) = a.hs
    BY DEF ReadLog, ReadState
<1> HIDE DEF start
<1>3. acc \in AccType
    BY <1>1, ReplayType
<1>4. a = handle_record(start, acc, r)
    BY ReplayAppend
<1> HIDE DEF acc, a
<1>5. /\ r.type = "entry" /\ r.index > start.index =>
            a.log = Append(Resize(acc.log, r.index - 1), r.term)
      /\ ~(r.type = "entry" /\ r.index > start.index) => a.log = acc.log
      /\ r.type = "state" => a.hs = [term |-> r.term, commit |-> r.index]
      /\ r.type # "state" => a.hs = acc.hs
    BY <1>1, <1>3, <1>4, Handled
<1> QED BY <1>1, <1>2, <1>5, Zenon

(* The term of the snapshot plays no part in the log and in the HardState, *)
(* and only a record of that snapshot with another term is fatal.          *)
LEMMA ReplayReads ==
    ASSUME NEW start \in SnapType
    PROVE  \A q \in Seq(RecordType) :
              /\ replay(start, q).log = ReadLog(start.index, q)
              /\ replay(start, q).hs = ReadState(start.index, q)
              /\ replay(start, q).fatal => \E k \in 1..Len(q) :
                    q[k].type = "snap" /\ q[k].index = start.index /\ q[k].term # start.term
<1> DEFINE b == start.index
           Clash(q) == \E k \in 1..Len(q) :
                         q[k].type = "snap" /\ q[k].index = b /\ q[k].term # start.term
           P == {q \in Seq(RecordType) :
                   /\ replay(start, q).log = ReadLog(b, q)
                   /\ replay(start, q).hs = ReadState(b, q)
                   /\ replay(start, q).fatal => Clash(q)}
<1>0. b \in Nat
    BY DEF SnapType
<1>1. <<>> \in P
  <2>1. <<>> \in Seq(RecordType)
      OBVIOUS
  <2>2. ReadLog(b, <<>>) = Blank([index |-> b, term |-> 0]).log
        /\ ReadState(b, <<>>) = Blank([index |-> b, term |-> 0]).hs
      BY ReplayEmpty DEF ReadLog, ReadState
  <2>3. /\ Blank([index |-> b, term |-> 0]).log = Blank(start).log
        /\ Blank([index |-> b, term |-> 0]).hs = Blank(start).hs
      BY DEF Blank
  <2>4. replay(start, <<>>) = Blank(start) /\ Blank(start).fatal = FALSE
      BY ReplayEmpty, BlankType
  <2> HIDE DEF b
  <2> QED BY <2>1, <2>2, <2>3, <2>4
<1>2. ASSUME NEW q \in Seq(RecordType), NEW r \in RecordType, q \in P
      PROVE  Append(q, r) \in P
  <2> DEFINE p   == Append(q, r)
             acc == replay(start, q)
             a   == replay(start, p)
  <2>1. acc \in AccType /\ a = handle_record(start, acc, r)
      BY ReplayType, ReplayAppend
  <2>2. acc.log = ReadLog(b, q) /\ acc.hs = ReadState(b, q) /\ (acc.fatal => Clash(q))
      BY <1>2
  <2>3. /\ r.type = "entry" /\ r.index > b =>
              ReadLog(b, p) = Append(Resize(ReadLog(b, q), r.index - 1), r.term)
        /\ ~(r.type = "entry" /\ r.index > b) => ReadLog(b, p) = ReadLog(b, q)
        /\ r.type = "state" => ReadState(b, p) = [term |-> r.term, commit |-> r.index]
        /\ r.type # "state" => ReadState(b, p) = ReadState(b, q)
      BY <1>0, ReadAppend
  <2>4. p \in Seq(RecordType) /\ Len(p) = Len(q) + 1 /\ p[Len(p)] = r
        /\ Len(p) \in 1..Len(p) /\ \A k \in 1..Len(q) : k \in 1..Len(p) /\ p[k] = q[k]
      OBVIOUS
  <2> HIDE DEF p, acc, a
  <2>5. /\ r.type = "entry" /\ r.index > b =>
              a.log = Append(Resize(acc.log, r.index - 1), r.term)
        /\ ~(r.type = "entry" /\ r.index > b) => a.log = acc.log
        /\ r.type = "state" => a.hs = [term |-> r.term, commit |-> r.index]
        /\ r.type # "state" => a.hs = acc.hs
        /\ a.fatal => acc.fatal \/ (r.type = "snap" /\ r.index = b /\ r.term # start.term)
      BY <2>1, Handled
  <2>6. a.log = ReadLog(b, p) /\ a.hs = ReadState(b, p)
      BY <2>2, <2>3, <2>5, Zenon
  <2>7. a.fatal => Clash(p)
      BY <2>2, <2>4, <2>5, Zenon
  <2> HIDE DEF b, Clash
  <2>8. p \in P
      BY <2>4, <2>6, <2>7, Zenon DEF a
  <2> QED BY <2>8 DEF p
<1>3. \A q \in Seq(RecordType) : q \in P
  <2> HIDE DEF P
  <2> QED BY <1>1, <1>2, RecordInduction
<1> QED BY <1>3

(* An entry cuts the log at its own position.                              *)
LEMMA CutLog ==
    ASSUME NEW log \in Seq(Nat), NEW m \in Nat, NEW v \in Nat, m <= Len(log)
    PROVE  /\ Append(Resize(log, m), v) \in Seq(Nat) /\ Len(Append(Resize(log, m), v)) = m + 1
           /\ Append(Resize(log, m), v)[m + 1] = v
           /\ \A k \in 1..m : Append(Resize(log, m), v)[k] = log[k]
<1> DEFINE z == Resize(log, m)
<1>1. /\ z \in Seq(Nat) /\ Len(z) = m
      /\ \A i \in 1..m : z[i] = IF i <= Len(log) THEN log[i] ELSE 0
    BY ResizeLog
<1> HIDE DEF z
<1>2. \A s \in Seq(Nat), u \in Nat :
         /\ Append(s, u) \in Seq(Nat) /\ Len(Append(s, u)) = Len(s) + 1
         /\ Append(s, u)[Len(s) + 1] = u
         /\ \A k \in 1..Len(s) : Append(s, u)[k] = s[k]
    OBVIOUS
<1>3. /\ Append(z, v) \in Seq(Nat) /\ Len(Append(z, v)) = m + 1
      /\ Append(z, v)[m + 1] = v
      /\ \A k \in 1..m : Append(z, v)[k] = z[k]
    BY <1>1, <1>2
<1>4. \A k \in 1..m : k <= Len(log)
    OBVIOUS
<1> QED BY <1>1, <1>3, <1>4 DEF z

LEMMA NestedCut ==
    ASSUME NEW i \in Nat, NEW j \in Nat, i <= j, NEW x \in Seq(Nat), NEW y \in Seq(Nat),
           Nested(x, y, i, j), NEW n \in Nat, n > i, n <= Len(x) + 1,
           NEW t \in Nat, t # 0
    PROVE  Nested(Append(Resize(x, n - 1), t),
                  IF n > j THEN Append(Resize(y, n - 1), t) ELSE y, i, j)
<1> DEFINE m  == n - 1
           x1 == Append(Resize(x, m), t)
           y1 == Append(Resize(y, m), t)
<1>1. /\ Len(x) \in Nat /\ Len(y) \in Nat /\ n = m + 1 /\ m \in Nat
      /\ m <= Len(x) /\ m <= Len(y) /\ Len(y) >= j
    BY DEF Nested
<1> HIDE DEF m
<1>2a. x1 \in Seq(Nat) /\ Len(x1) = m + 1 /\ x1[m + 1] = t /\ \A k \in 1..m : x1[k] = x[k]
    BY <1>1, CutLog, SMTT(30)
<1>3a. y1 \in Seq(Nat) /\ Len(y1) = m + 1 /\ y1[m + 1] = t /\ \A k \in 1..m : y1[k] = y[k]
    BY <1>1, CutLog, SMTT(30)
<1> HIDE DEF x1, y1
<1>2. x1 \in Seq(Nat) /\ Len(x1) = n /\ x1[n] = t /\ \A k \in 1..m : x1[k] = x[k]
    BY <1>1, <1>2a
<1>3. y1 \in Seq(Nat) /\ Len(y1) = n /\ y1[n] = t /\ \A k \in 1..m : y1[k] = y[k]
    BY <1>1, <1>3a
<1>4. \A k \in i+1 .. Len(x1) : x1[k] # 0
  <2> TAKE k \in i+1 .. Len(x1)
  <2>1. CASE k = n
      BY <1>2, <2>1
  <2>2. CASE k # n
    <3>1. k \in 1..m /\ k \in i+1 .. Len(x)
        BY <1>1, <1>2, <2>2
    <3> QED BY <1>2, <3>1 DEF Nested
  <2> QED BY <2>1, <2>2
<1>5. CASE n > j
  <2>1. \A k \in j+1 .. Len(x1) : y1[k] = x1[k]
    <3> TAKE k \in j+1 .. Len(x1)
    <3>1. CASE k = n
        BY <1>2, <1>3, <3>1
    <3>2. CASE k # n
      <4>1. k \in 1..m /\ k \in j+1 .. Len(x)
          BY <1>1, <1>2, <3>2
      <4> QED BY <1>2, <1>3, <4>1 DEF Nested
    <3> QED BY <3>1, <3>2
  <2>2. Len(x1) >= i /\ Len(y1) >= j /\ Len(y1) >= Len(x1)
      BY <1>2, <1>3, <1>5
  <2> QED BY <1>4, <1>5, <2>1, <2>2 DEF Nested, x1, y1, m
<1>6. CASE ~(n > j)
  <2>1. Len(x1) >= i /\ Len(y) >= Len(x1) /\ \A k \in j+1 .. Len(x1) : y[k] = x1[k]
      BY <1>1, <1>2, <1>6
  <2> QED BY <1>1, <1>4, <1>6, <2>1 DEF Nested, x1, m
<1> QED BY <1>5, <1>6

LEMMA SoundFacts ==
    ASSUME NEW b \in Nat, NEW q \in Seq(RecordType), Sound(q, b), NEW i \in Nat, b <= i
    PROVE  /\ ReadState(b, q) = ReadState(i, q)
           /\ Nested(ReadLog(b, q), ReadLog(i, q), b, i)
           /\ Len(ReadLog(i, q)) >= Len(ReadLog(b, q)) /\ Len(ReadLog(i, q)) >= i
BY DEF Sound, Nested

LEMMA SoundOther ==
    ASSUME NEW b \in Nat, NEW q \in Seq(RecordType), Sound(q, b),
           NEW r \in RecordType, r.type # "entry"
    PROVE  Sound(Append(q, r), b)
<1> SUFFICES ASSUME NEW i \in Nat, NEW j \in Nat, b <= i, i <= j
             PROVE  LET p == Append(q, r)
                    IN  /\ ReadState(i, p) = ReadState(j, p)
                        /\ Nested(ReadLog(i, p), ReadLog(j, p), i, j)
    BY DEF Sound
<1>1. /\ ReadState(i, q) = ReadState(j, q) /\ Nested(ReadLog(i, q), ReadLog(j, q), i, j)
    BY DEF Sound
<1>2. \A k \in Nat :
         /\ ReadLog(k, Append(q, r)) = ReadLog(k, q)
         /\ r.type = "state" => ReadState(k, Append(q, r)) = [term |-> r.term, commit |-> r.index]
         /\ r.type # "state" => ReadState(k, Append(q, r)) = ReadState(k, q)
    BY ReadAppend
<1> QED BY <1>1, <1>2, Zenon

LEMMA SoundEntry ==
    ASSUME NEW b \in Nat, NEW q \in Seq(RecordType), Sound(q, b),
           NEW r \in RecordType, r.type = "entry", r.index > b,
           r.index <= Len(ReadLog(b, q)) + 1, r.term # 0
    PROVE  Sound(Append(q, r), b)
<1> DEFINE n == r.index
           p == Append(q, r)
<1> SUFFICES ASSUME NEW i \in Nat, NEW j \in Nat, b <= i, i <= j
             PROVE  /\ ReadState(i, p) = ReadState(j, p)
                    /\ Nested(ReadLog(i, p), ReadLog(j, p), i, j)
    BY DEF Sound
<1>1. /\ ReadState(i, q) = ReadState(j, q) /\ Nested(ReadLog(i, q), ReadLog(j, q), i, j)
    BY DEF Sound
<1>2. n \in Nat /\ r.term \in Nat
    BY DEF RecordType
<1>3. \A k \in Nat : /\ ReadLog(k, p) = IF n > k THEN Append(Resize(ReadLog(k, q), n - 1), r.term)
                                        ELSE ReadLog(k, q)
                     /\ ReadState(k, p) = ReadState(k, q)
    BY ReadAppend
<1>4. /\ ReadLog(b, q) \in Seq(Nat) /\ ReadLog(i, q) \in Seq(Nat) /\ ReadLog(j, q) \in Seq(Nat)
      /\ Len(ReadLog(b, q)) \in Nat /\ Len(ReadLog(i, q)) \in Nat
    BY ReadType
<1>5. Len(ReadLog(b, q)) <= Len(ReadLog(i, q))
    BY <1>4, SoundFacts
<1> HIDE DEF p, n
<1>6. CASE n > i
  <2>1. n <= Len(ReadLog(i, q)) + 1
      BY <1>2, <1>4, <1>5 DEF n
  <2>2. Nested(Append(Resize(ReadLog(i, q), n - 1), r.term),
               IF n > j THEN Append(Resize(ReadLog(j, q), n - 1), r.term) ELSE ReadLog(j, q), i, j)
      BY <1>1, <1>2, <1>4, <1>6, <2>1, NestedCut
  <2> QED BY <1>1, <1>3, <1>6, <2>2, Zenon
<1>7. CASE ~(n > i)
  <2>1. ~(n > j)
      BY <1>2, <1>7
  <2> QED BY <1>1, <1>3, <1>7, <2>1, Zenon
<1> QED BY <1>6, <1>7

-----------------------------------------------------------------------------
(* Several records, and the part of them that a crash lets through.        *)

LEMMA Prefix ==
    ASSUME NEW q \in Seq(RecordType), NEW B \in Seq(RecordType), NEW n \in Nat, n < Len(B)
    PROVE  /\ q \o SubSeq(B, 1, n) \in Seq(RecordType) /\ B[n + 1] \in RecordType
           /\ q \o SubSeq(B, 1, n + 1) = Append(q \o SubSeq(B, 1, n), B[n + 1])
<1>1. \A s \in Seq(RecordType), r \in RecordType : q \o Append(s, r) = Append(q \o s, r)
    OBVIOUS
<1>2. /\ SubSeq(B, 1, n) \in Seq(RecordType) /\ B[n + 1] \in RecordType
      /\ SubSeq(B, 1, n + 1) = Append(SubSeq(B, 1, n), B[n + 1])
    OBVIOUS
<1>3. q \o SubSeq(B, 1, n) \in Seq(RecordType)
    BY <1>2
<1> QED BY <1>1, <1>2, <1>3, Zenon

LEMMA PrefixNone ==
    ASSUME NEW q \in Seq(RecordType), NEW B \in Seq(RecordType)
    PROVE  q \o SubSeq(B, 1, 0) = q
<1>1. SubSeq(B, 1, 0) = <<>>
    OBVIOUS
<1>2. q \o <<>> = q
    OBVIOUS
<1> QED BY <1>1, <1>2, Zenon

LEMMA PrefixAll ==
    ASSUME NEW q \in Seq(RecordType), NEW B \in Seq(RecordType)
    PROVE  SubSeq(B, 1, Len(B)) = B /\ q \o SubSeq(B, 1, Len(B)) = q \o B
<1>1. SubSeq(B, 1, Len(B)) = B
    OBVIOUS
<1> QED BY <1>1, Zenon

LEMMA AppendStates ==
    ASSUME NEW b \in Nat, NEW q \in Seq(RecordType), Sound(q, b),
           NEW B \in Seq(RecordType), \A k \in 1..Len(B) : B[k].type = "state"
    PROVE  \A n \in Nat : n <= Len(B) =>
              LET p == q \o SubSeq(B, 1, n)
              IN  /\ p \in Seq(RecordType) /\ Sound(p, b) /\ ReadLog(b, p) = ReadLog(b, q)
                  /\ n = 0 => ReadState(b, p) = ReadState(b, q)
                  /\ n # 0 => ReadState(b, p) = [term |-> B[n].term, commit |-> B[n].index]
<1> DEFINE p(n) == q \o SubSeq(B, 1, n)
           G(n) == /\ p(n) \in Seq(RecordType) /\ Sound(p(n), b) /\ ReadLog(b, p(n)) = ReadLog(b, q)
                   /\ n = 0 => ReadState(b, p(n)) = ReadState(b, q)
                   /\ n # 0 => ReadState(b, p(n)) = [term |-> B[n].term, commit |-> B[n].index]
           S == {n \in Nat : n <= Len(B) => G(n)}
<1>1. 0 \in S
  <2>1. p(0) = q
      BY PrefixNone
  <2> HIDE DEF p
  <2>2. G(0)
      BY <2>1
  <2> HIDE DEF G
  <2> QED BY <2>2
<1>2. ASSUME NEW n \in Nat, n \in S
      PROVE  n + 1 \in S
  <2>1. CASE n + 1 <= Len(B)
    <3>1. G(n) /\ n < Len(B) /\ n + 1 # 0 /\ n + 1 \in 1..Len(B)
      <4>1. n <= Len(B) /\ n < Len(B) /\ n + 1 # 0 /\ n + 1 \in 1..Len(B)
          BY <2>1
      <4> HIDE DEF G
      <4> QED BY <1>2, <4>1
    <3>2. p(n + 1) = Append(p(n), B[n + 1]) /\ B[n + 1] \in RecordType
        BY <3>1, Prefix
    <3>3. B[n + 1].type = "state"
        BY <3>1
    <3> HIDE DEF p
    <3> DEFINE o == p(n)
               o1 == p(n + 1)
               r == B[n + 1]
    <3>3a. o \in Seq(RecordType) /\ Sound(o, b) /\ r \in RecordType /\ r.type = "state"
           /\ o1 = Append(o, r) /\ ReadLog(b, o) = ReadLog(b, q)
        BY <3>1, <3>2, <3>3, Zenon
    <3> HIDE DEF o, o1, r
    <3>4. Sound(o1, b) /\ o1 \in Seq(RecordType)
        BY <3>3a, SoundOther
    <3>5. /\ ReadLog(b, o1) = ReadLog(b, q)
          /\ ReadState(b, o1) = [term |-> r.term, commit |-> r.index]
        BY <3>3a, ReadAppend
    <3>7. G(n + 1)
        BY <3>1, <3>4, <3>5, Zenon DEF r, o1
    <3> HIDE DEF G
    <3> QED BY <3>7
  <2>2. CASE ~(n + 1 <= Len(B))
    <3> HIDE DEF G
    <3> QED BY <2>2
  <2> QED BY <2>1, <2>2
<1>3. \A n \in Nat : n \in S
  <2> HIDE DEF S
  <2> QED BY <1>1, <1>2, NatSetInduction
<1>4. \A n \in Nat : n <= Len(B) => G(n)
  <2> HIDE DEF G
  <2> QED BY <1>3
<1> QED BY <1>4, Zenon

LEMMA EntryRead ==
    ASSUME NEW b \in Nat, NEW q \in Seq(RecordType), NEW r \in RecordType, r.type = "entry",
           NEW m \in Nat, r.index = m + 1, m >= b, m <= Len(ReadLog(b, q))
    PROVE  LET log == ReadLog(b, Append(q, r))
           IN  /\ Len(log) = m + 1 /\ log[m + 1] = r.term
               /\ \A k \in 1..m : log[k] = ReadLog(b, q)[k]
               /\ ReadState(b, Append(q, r)) = ReadState(b, q)
<1>1. r.index > b /\ r.index - 1 = m /\ r.term \in Nat
    BY DEF RecordType
<1>2. ReadLog(b, q) \in Seq(Nat)
    BY ReadType
<1>3. /\ ReadLog(b, Append(q, r)) = Append(Resize(ReadLog(b, q), m), r.term)
      /\ ReadState(b, Append(q, r)) = ReadState(b, q)
  <2>1. /\ ReadLog(b, Append(q, r)) = Append(Resize(ReadLog(b, q), r.index - 1), r.term)
        /\ ReadState(b, Append(q, r)) = ReadState(b, q)
      BY <1>1, ReadAppend
  <2> QED BY <1>1, <2>1, Zenon
<1> DEFINE x == ReadLog(b, q)
<1> HIDE DEF x
<1>4. x \in Seq(Nat) /\ m <= Len(x)
    BY <1>2 DEF x
<1>5. /\ Len(Append(Resize(x, m), r.term)) = m + 1
      /\ Append(Resize(x, m), r.term)[m + 1] = r.term
      /\ \A k \in 1..m : Append(Resize(x, m), r.term)[k] = x[k]
    BY <1>1, <1>4, CutLog, SMTT(30)
<1> QED BY <1>3, <1>5, Zenon DEF x

(* The first entries of M after position a, as records.                    *)
EntriesOf(E, M, a) ==
    /\ a + Len(E) <= Len(M)
    /\ \A k \in 1..Len(E) : /\ E[k].type = "entry" /\ E[k].index = a + k
                             /\ E[k].term = M[a + k] /\ M[a + k] # 0

(* p holds what q does, with n of these entries in their place.            *)
Overwritten(b, q, p, M, a, n) ==
    /\ p \in Seq(RecordType) /\ Sound(p, b)
    /\ ReadState(b, p) = ReadState(b, q)
    /\ n = 0 => ReadLog(b, p) = ReadLog(b, q)
    /\ n # 0 => Len(ReadLog(b, p)) = a + n
    /\ \A k \in 1..a : ReadLog(b, p)[k] = ReadLog(b, q)[k]
    /\ \A k \in 1..n : ReadLog(b, p)[a + k] = M[a + k]

LEMMA AppendEntries ==
    ASSUME NEW b \in Nat, NEW q \in Seq(RecordType), Sound(q, b),
           NEW M \in Seq(Nat), NEW a \in Nat, a >= b, a <= Len(ReadLog(b, q)),
           NEW E \in Seq(RecordType), EntriesOf(E, M, a)
    PROVE  \A n \in Nat : n <= Len(E) => Overwritten(b, q, q \o SubSeq(E, 1, n), M, a, n)
<1>0. /\ a + Len(E) <= Len(M)
      /\ \A k \in 1..Len(E) : /\ E[k].type = "entry" /\ E[k].index = a + k
                               /\ E[k].term = M[a + k] /\ M[a + k] # 0
    BY Zenon DEF EntriesOf
<1> DEFINE p(n) == q \o SubSeq(E, 1, n)
           L(o) == ReadLog(b, o)
           G(o, n) == /\ o \in Seq(RecordType) /\ Sound(o, b)
                      /\ ReadState(b, o) = ReadState(b, q)
                      /\ n = 0 => ReadLog(b, o) = ReadLog(b, q)
                      /\ n # 0 => Len(ReadLog(b, o)) = a + n
                      /\ \A k \in 1..a : ReadLog(b, o)[k] = ReadLog(b, q)[k]
                      /\ \A k \in 1..n : ReadLog(b, o)[a + k] = M[a + k]
           S == {n \in Nat : n <= Len(E) => G(p(n), n)}
<1>1. 0 \in S
  <2>1. p(0) = q
      BY PrefixNone
  <2>2. G(q, 0)
      OBVIOUS
  <2> HIDE DEF G, p
  <2> QED BY <2>1, <2>2
<1>2. ASSUME NEW n \in Nat, n \in S
      PROVE  n + 1 \in S
  <2>1. CASE n + 1 <= Len(E)
    <3>1. n <= Len(E) /\ n < Len(E) /\ n + 1 # 0 /\ n + 1 \in 1..Len(E) /\ a + n \in Nat
          /\ (a + n) + 1 = a + (n + 1) /\ a + n >= b
        BY <2>1
    <3> DEFINE o == p(n)
               o1 == p(n + 1)
               r == E[n + 1]
    <3>2. o1 = Append(o, r) /\ r \in RecordType
        BY <3>1, Prefix
    <3>3. G(o, n)
      <4> HIDE DEF G, p
      <4> QED BY <1>2, <3>1
    <3>4. r.type = "entry" /\ r.index = a + (n + 1) /\ r.term = M[a + (n + 1)] /\ r.term # 0
        BY <1>0, <3>1
    <3> HIDE DEF o, o1, r, p
    <3>5. o \in Seq(RecordType) /\ Sound(o, b) /\ ReadState(b, o) = ReadState(b, q)
        BY <3>3
    <3> DEFINE x == ReadLog(b, o)
               x1 == ReadLog(b, o1)
               x0 == ReadLog(b, q)
               m == a + n
    <3>6. m <= Len(x) /\ m \in Nat
      <4>1. CASE n = 0
          BY <3>3, <4>1
      <4>2. CASE n # 0
          BY <3>1, <3>3, <4>2
      <4> QED BY <4>1, <4>2
    <3>7. r.index = m + 1 /\ m >= b /\ r.index > b /\ r.index <= Len(x) + 1
      <4>1. Len(x) \in Nat
          BY <3>5, ReadType
      <4>2. \A c, d, e, l \in Nat : c >= e /\ c + d <= l =>
               /\ c + (d + 1) = (c + d) + 1 /\ c + d >= e
               /\ c + (d + 1) > e /\ c + (d + 1) <= l + 1
          OBVIOUS
      <4> HIDE DEF x
      <4>3. /\ a + (n + 1) = m + 1 /\ m >= b
            /\ a + (n + 1) > b /\ a + (n + 1) <= Len(x) + 1
          BY <3>6, <4>1, <4>2, Zenon
      <4>4. r.index = a + (n + 1)
          BY <3>4
      <4> HIDE DEF m
      <4> QED BY <4>3, <4>4
    <3>8. Sound(o1, b)
        BY <3>2, <3>4, <3>5, <3>7, SoundEntry
    <3>9. /\ Len(x1) = m + 1 /\ x1[m + 1] = r.term /\ \A k \in 1..m : x1[k] = x[k]
          /\ ReadState(b, o1) = ReadState(b, o)
      <4>1. m <= Len(ReadLog(b, o))
          BY <3>6
      <4> HIDE DEF m
      <4>2. /\ Len(ReadLog(b, Append(o, r))) = m + 1 /\ ReadLog(b, Append(o, r))[m + 1] = r.term
            /\ \A k \in 1..m : ReadLog(b, Append(o, r))[k] = ReadLog(b, o)[k]
            /\ ReadState(b, Append(o, r)) = ReadState(b, o)
          BY <3>2, <3>4, <3>5, <3>6, <3>7, <4>1, EntryRead
      <4> QED BY <3>2, <4>2, Zenon
    <3>10. /\ \A k \in 1..a : x[k] = x0[k]
           /\ \A k \in 1..n : x[a + k] = M[a + k]
        BY <3>3
    <3> HIDE DEF x, x1, x0
    <3>11. \A k \in 1..a : x1[k] = x0[k]
      <4>1. \A k \in 1..a : k \in 1..m
          BY <3>1
      <4> QED BY <3>9, <3>10, <4>1, Zenon
    <3>12. \A k \in 1..(n + 1) : x1[a + k] = M[a + k]
      <4> TAKE k \in 1..(n + 1)
      <4>1. CASE k = n + 1
        <5>1. x1[a + (n + 1)] = M[a + (n + 1)]
            BY <3>1, <3>4, <3>9, Zenon
        <5> QED BY <4>1, <5>1, Zenon
      <4>2. CASE k # n + 1
        <5>1. k \in 1..n /\ a + k \in 1..m
          <6>1. \A c, d \in Nat : \A e \in 1..(d + 1) :
                   e # d + 1 => e \in 1..d /\ c + e \in 1..(c + d)
              OBVIOUS
          <6> QED BY <4>2, <6>1, Zenon
        <5> QED BY <3>9, <3>10, <5>1, Zenon
      <4> QED BY <4>1, <4>2
    <3>13. Len(x1) = a + (n + 1)
        BY <3>1, <3>9
    <3>14. o1 \in Seq(RecordType)
        BY <3>2, <3>5
    <3>15. G(o1, n + 1)
        BY <3>1, <3>5, <3>8, <3>9, <3>11, <3>12, <3>13, <3>14, Zenon DEF x1, x0
    <3> HIDE DEF G
    <3> QED BY <3>15 DEF o1
  <2>2. CASE ~(n + 1 <= Len(E))
    <3> HIDE DEF G
    <3> QED BY <2>2
  <2> QED BY <2>1, <2>2
<1>3. \A n \in Nat : n \in S
  <2> HIDE DEF S
  <2> QED BY <1>1, <1>2, NatSetInduction
<1>4. \A n \in Nat : n <= Len(E) => G(p(n), n)
  <2> HIDE DEF G, p
  <2> QED BY <1>3
<1> QED BY <1>4, Zenon DEF Overwritten

-----------------------------------------------------------------------------
(* What a crash leaves behind.                                             *)

LEMMA MemFacts ==
    ASSUME NEW m, NEW s, MemOK(m, s)
    PROVE  /\ m.base \in Nat /\ m.log \in Seq(Nat) /\ Len(m.log) \in Nat /\ m.term \in Nat
           /\ m.commit \in Nat /\ m.applied \in Nat /\ m.snapshot_index \in Nat
           /\ m.prev \in HardStates /\ m.state \in HardStates /\ m.state.term \in Nat
           /\ s.term \in Nat /\ s.log \in Seq(Nat) /\ Len(s.log) \in Nat
           /\ m.base <= m.snapshot_index /\ m.snapshot_index <= m.applied /\ m.base <= m.applied
           /\ m.applied <= m.commit /\ m.commit <= Len(m.log)
<1>1. /\ m.base \in Nat /\ m.log \in Seq(Nat) /\ m.term \in Nat
      /\ m.commit \in Nat /\ m.applied \in Nat /\ m.snapshot_index \in Nat
      /\ m.prev \in HardStates /\ m.state \in HardStates
      /\ s.term \in Nat /\ s.log \in Seq(Nat)
    BY DEF MemOK, MemType
<1>2. m.state.term \in Nat
    BY <1>1 DEF HardStates
<1>3. Len(m.log) \in Nat /\ Len(s.log) \in Nat
    BY <1>1
<1>4. /\ m.base <= m.snapshot_index /\ m.snapshot_index <= m.applied
      /\ m.applied <= m.commit /\ m.commit <= Len(m.log)
    BY DEF MemOK
<1>5. m.base <= m.applied
    BY <1>1, <1>4
<1> QED BY <1>1, <1>2, <1>3, <1>4, <1>5

LEMMA FixedLess ==
    ASSUME NEW x \in Seq(Nat), NEW y \in Seq(Nat), NEW n \in Nat, Fixed(x, y, n),
           NEW k \in Nat, k <= n
    PROVE  Fixed(x, y, k) /\ Fixed(y, x, k)
<1>1. k <= Len(x) /\ k <= Len(y) /\ \A i \in 1..k : i \in 1..n
    BY DEF Fixed
<1> QED BY <1>1 DEF Fixed

LEMMA FixedSelf ==
    ASSUME NEW x \in Seq(Nat), NEW n \in Nat, n <= Len(x)
    PROVE  Fixed(x, x, n)
BY DEF Fixed

(* A log is another one when it agrees with all of it.                     *)
LEMMA FixedAll ==
    ASSUME NEW x \in Seq(Nat), NEW y \in Seq(Nat), Fixed(x, y, Len(x)), Len(x) = Len(y)
    PROVE  x = y
<1>1. \A i \in 1..Len(x) : x[i] = y[i]
    BY DEF Fixed
<1> QED BY <1>1

LEMMA LatestType ==
    ASSUME NEW f \in Seq(RecordType), NEW b \in Seq(RecordType), NEW m, m.base \in Nat
    PROVE  /\ Latest(f, b, m) \in HardStates
           /\ Latest(f, b, m).term \in Nat /\ Latest(f, b, m).commit \in Nat
<1>1. CASE b = <<>>
    BY <1>1, ReadType DEF Latest
<1>2. CASE b # <<>>
  <2>1. b[Len(b)] \in RecordType
      BY <1>2
  <2>2. b[Len(b)].term \in Nat /\ b[Len(b)].index \in Nat
      BY <2>1 DEF RecordType
  <2>3. Latest(f, b, m) = [term |-> b[Len(b)].term, commit |-> b[Len(b)].index]
      BY <1>2 DEF Latest
  <2> QED BY <2>2, <2>3 DEF HardStates
<1> QED BY <1>1, <1>2

(* Records of other kinds do not disturb those of the snapshots.           *)
LEMMA SnapsMore ==
    ASSUME NEW q \in Seq(RecordType), NEW fs, NEW m, m.base \in Nat, SnapsOK(q, fs, m),
           NEW p \in Seq(RecordType), Len(q) <= Len(p),
           \A k \in 1..Len(q) : p[k] = q[k],
           \A k \in 1..Len(p) : k > Len(q) => p[k].type # "snap",
           ReadState(m.base, q).commit <= ReadState(m.base, p).commit
    PROVE  SnapsOK(p, fs, m)
<1>1. Len(q) \in Nat /\ Len(p) \in Nat
    OBVIOUS
<1>2. \A k \in 1..Len(q) : k \in 1..Len(p)
    BY <1>1
<1>3. \A k \in 1..Len(p) : p[k].type = "snap" => k \in 1..Len(q) /\ p[k] = q[k]
    BY <1>1
<1>4. ASSUME NEW snap, Recorded(q, snap)
      PROVE  Recorded(p, snap)
    BY <1>2, <1>4, Zenon DEF Recorded
<1>5. ASSUME NEW k \in 1..Len(p), p[k].type = "snap"
      PROVE  /\ p[k].index <= ReadState(m.base, p).commit
             /\ p[k].index > m.base => p[k].term = m.log[p[k].index]
  <2>1. k \in 1..Len(q) /\ p[k] = q[k]
      BY <1>3, <1>5
  <2>2. /\ q[k].index <= ReadState(m.base, q).commit
        /\ q[k].index > m.base => q[k].term = m.log[q[k].index]
      BY <1>5, <2>1, Zenon DEF SnapsOK
  <2>3. q[k].index \in Nat
    <3>1. q[k] \in RecordType
        BY <2>1
    <3> QED BY <3>1 DEF RecordType
  <2>4. ReadState(m.base, q).commit \in Nat /\ ReadState(m.base, p).commit \in Nat
      BY ReadType
  <2>5. q[k].index <= ReadState(m.base, p).commit
      BY <2>2, <2>3, <2>4
  <2> QED BY <2>1, <2>2, <2>5
<1>6. ASSUME NEW k \in 1..Len(p), NEW l \in 1..Len(p),
             p[k].type = "snap", p[k].index = m.base, p[l].type = "snap", p[l].index = m.base
      PROVE  p[k].term = p[l].term
  <2>1. k \in 1..Len(q) /\ p[k] = q[k] /\ l \in 1..Len(q) /\ p[l] = q[l]
      BY <1>3, <1>6
  <2> QED BY <1>6, <2>1, Zenon DEF SnapsOK
<1>7. Recorded(p, NoSnap) /\ \A snap \in fs : Recorded(p, snap)
    BY <1>4, Zenon DEF SnapsOK
<1> QED BY <1>5, <1>6, <1>7, Zenon DEF SnapsOK

LEMMA CrashOnDisk ==
    ASSUME NEW f \in Seq(RecordType), NEW b \in Seq(RecordType), NEW fs, NEW m, NEW s,
           MemOK(m, s), NEW t, NEW log, Durable(f, b, fs, m, t, log),
           Between(m, s, log), t \in Nat, t >= s.term, log \in Seq(Nat),
           Latest(f, b, m).commit <= m.commit,
           Fixed(log, m.log, Latest(f, b, m).commit), Fixed(log, m.log, m.applied)
    PROVE  CrashOK(f, fs, m, s)
<1> DEFINE hs == ReadState(m.base, f)
<1>1. /\ hs.commit \in Nat /\ Latest(f, b, m).commit \in Nat /\ m.commit \in Nat
      /\ m.log \in Seq(Nat)
    BY MemFacts, LatestType, ReadType
<1>2. /\ Sound(f, m.base) /\ SnapsOK(f, fs, m) /\ ReadLog(m.base, f) = log
      /\ hs.term = t /\ hs.commit <= Latest(f, b, m).commit
    BY Zenon DEF Durable
<1>3. Fixed(log, m.log, hs.commit) /\ hs.commit <= m.commit
    BY <1>1, <1>2, FixedLess
<1> HIDE DEF hs
<1>4. hs.term >= s.term
    BY <1>2
<1> QED BY <1>2, <1>3, <1>4, Zenon DEF CrashOK, hs

LEMMA CrashIdle ==
    ASSUME NEW f \in Seq(RecordType), NEW b \in Seq(RecordType), NEW fs, NEW m, NEW s,
           MemOK(m, s), AtRest(f, b, fs, m, s)
    PROVE  CrashOK(f, fs, m, s)
<1>1. /\ m.log \in Seq(Nat) /\ Len(m.log) \in Nat /\ m.term \in Nat /\ m.commit \in Nat
      /\ m.applied \in Nat /\ m.applied <= m.commit /\ m.commit <= Len(m.log)
    BY MemFacts
<1>2. Fixed(m.log, m.log, m.commit) /\ Fixed(m.log, m.log, m.applied)
    BY <1>1, FixedSelf
<1>3. /\ Durable(f, b, fs, m, m.term, m.log) /\ Latest(f, b, m) = HardState(m)
      /\ s.term = m.term /\ s.log = m.log
    BY Zenon DEF AtRest
<1>4. Latest(f, b, m).commit = m.commit
    BY <1>3 DEF HardState
<1>5. Between(m, s, m.log) /\ m.term >= s.term
    BY <1>1, <1>3 DEF Between
<1> QED BY <1>1, <1>2, <1>3, <1>4, <1>5, CrashOnDisk

LEMMA CrashApply ==
    ASSUME NEW f \in Seq(RecordType), NEW b \in Seq(RecordType), NEW fs, NEW m, NEW s,
           MemOK(m, s), AtApply(f, b, fs, m, s)
    PROVE  CrashOK(f, fs, m, s)
<1>1. /\ m.log \in Seq(Nat) /\ Len(m.log) \in Nat /\ m.term \in Nat /\ m.commit \in Nat
      /\ m.applied \in Nat /\ m.applied <= m.commit /\ m.commit <= Len(m.log) /\ s.term \in Nat
    BY MemFacts
<1>2. Fixed(m.log, m.log, m.commit) /\ Fixed(m.log, m.log, m.applied)
    BY <1>1, FixedSelf
<1>3. /\ Durable(f, b, fs, m, m.term, m.log) /\ Latest(f, b, m) = HardState(m)
      /\ s.term <= m.term /\ Between(m, s, m.log)
    BY Zenon DEF AtApply
<1>4. Latest(f, b, m).commit = m.commit /\ m.term >= s.term
    BY <1>1, <1>3 DEF HardState
<1> QED BY <1>1, <1>2, <1>3, <1>4, CrashOnDisk

-----------------------------------------------------------------------------
(* WAL::save, whole or cut short.                                          *)

LEMMA UnsavedNone ==
    ASSUME MemOK(mem, sent), mem.log = sent.log
    PROVE  Unsaved = <<>>
<1>1. mem.log \in Seq(Nat) /\ Len(mem.log) \in Nat
    BY MemFacts
<1> DEFINE new == {i \in 1..Len(mem.log) :
                     \E j \in 1..i : j > Len(sent.log) \/ mem.log[j] # sent.log[j]}
<1>2. new = {}
    BY <1>1
<1> HIDE DEF new
<1> QED BY <1>2 DEF Unsaved, new

LEMMA UnsavedFrom ==
    ASSUME MemOK(mem, sent), NEW a \in Nat, NewAfter(mem, sent, a)
    PROVE  /\ Unsaved \in Seq(RecordType) /\ Len(Unsaved) = Len(mem.log) - a
           /\ Len(Unsaved) \in Nat \ {0} /\ a + Len(Unsaved) = Len(mem.log)
           /\ \A k \in 1..Len(Unsaved) :
                 /\ Unsaved[k].type = "entry" /\ Unsaved[k].index = a + k
                 /\ Unsaved[k].term = mem.log[a + k]
<1>1. mem.log \in Seq(Nat) /\ Len(mem.log) \in Nat /\ sent.log \in Seq(Nat) /\ Len(sent.log) \in Nat
    BY MemFacts
<1> DEFINE N == Len(mem.log)
           new == {i \in 1..Len(mem.log) :
                     \E j \in 1..i : j > Len(sent.log) \/ mem.log[j] # sent.log[j]}
           c == a + 1
<1>2. /\ a < N /\ a <= Len(sent.log) /\ \A i \in 1..a : sent.log[i] = mem.log[i]
      /\ a < Len(sent.log) => sent.log[a + 1] # mem.log[a + 1]
    BY DEF NewAfter, Fixed
<1>3. c \in new
  <2>1. c \in 1..N /\ c \in 1..c /\ (c > Len(sent.log) \/ mem.log[c] # sent.log[c])
      BY <1>1, <1>2
  <2> QED BY <2>1
<1>4. \A i \in new : c <= i
  <2> SUFFICES ASSUME NEW i \in 1..N, ~(c <= i), NEW j \in 1..i,
                      j > Len(sent.log) \/ mem.log[j] # sent.log[j]
               PROVE  FALSE
      OBVIOUS
  <2>1. j \in 1..a /\ ~(j > Len(sent.log))
      BY <1>1, <1>2, SMTT(30)
  <2> QED BY <1>2, <2>1
<1>5. Min(new) = c
  <2>1. new \subseteq Nat
      OBVIOUS
  <2> HIDE DEF new, c
  <2>2. \A y \in new : (\A z \in new : y <= z) => y = c
      BY <1>3, <1>4, <2>1
  <2> QED BY <1>3, <1>4, <2>2, Zenon DEF Min
<1>6. Unsaved = [k \in 1 .. N - c + 1 |-> EntryRecord(c + k - 1, mem.log[c + k - 1])]
  <2>1. new # {}
      BY <1>3
  <2> HIDE DEF new, c, N
  <2> QED BY <1>5, <2>1, Zenon DEF Unsaved, new, N
<1>7. N - c + 1 = N - a /\ N - a \in Nat \ {0} /\ a + (N - a) = N
    BY <1>1, <1>2
<1>8. \A k \in 1..(N - a) : /\ c + k - 1 = a + k /\ a + k \in 1..N /\ mem.log[a + k] \in Nat
                            /\ a + k \in Nat
    BY <1>1, <1>2
<1> HIDE DEF N, c
<1>9. Unsaved = [k \in 1..(N - a) |-> EntryRecord(a + k, mem.log[a + k])]
  <2>1. Unsaved = [k \in 1..(N - a) |-> EntryRecord(c + k - 1, mem.log[c + k - 1])]
      BY <1>6, <1>7, Zenon
  <2>2. \A k \in 1..(N - a) :
           EntryRecord(c + k - 1, mem.log[c + k - 1]) = EntryRecord(a + k, mem.log[a + k])
      BY <1>8, Zenon
  <2> QED BY <2>1, <2>2, Zenon
<1>10. \A k \in 1..(N - a) : EntryRecord(a + k, mem.log[a + k]) \in RecordType
    BY <1>8 DEF EntryRecord, RecordType
<1>11. Unsaved \in [1..(N - a) -> RecordType]
    BY <1>9, <1>10, Zenon
<1>12. \A l \in Nat : \A q \in [1..l -> RecordType] : q \in Seq(RecordType) /\ Len(q) = l
    OBVIOUS
<1>13. Unsaved \in Seq(RecordType) /\ Len(Unsaved) = N - a
    BY <1>7, <1>11, <1>12
<1>14. \A k \in 1..(N - a) : Unsaved[k] = EntryRecord(a + k, mem.log[a + k])
    BY <1>9, Zenon
<1>15. ASSUME NEW k \in 1..Len(Unsaved)
       PROVE  /\ Unsaved[k].type = "entry" /\ Unsaved[k].index = a + k
              /\ Unsaved[k].term = mem.log[a + k]
  <2>1. Unsaved[k] = EntryRecord(a + k, mem.log[a + k])
      BY <1>13, <1>14
  <2> QED BY <2>1 DEF EntryRecord
<1> QED BY <1>7, <1>13, <1>15 DEF N

LEMMA ConcatAssoc ==
    ASSUME NEW q \in Seq(RecordType), NEW x \in Seq(RecordType), NEW y \in Seq(RecordType)
    PROVE  q \o (x \o y) = (q \o x) \o y
OBVIOUS

LEMMA ConcatCut ==
    ASSUME NEW x \in Seq(RecordType), NEW y \in Seq(RecordType), NEW q \in Seq(RecordType)
    PROVE  /\ \A n \in Nat : n <= Len(x) => SubSeq(x \o y, 1, n) = SubSeq(x, 1, n)
           /\ \A n \in Nat : n <= Len(y) => SubSeq(x \o y, 1, Len(x) + n) = x \o SubSeq(y, 1, n)
           /\ q \o (x \o y) = (q \o x) \o y
           /\ x \o y \in Seq(RecordType) /\ Len(x \o y) = Len(x) + Len(y)
<1>1. ASSUME NEW n \in Nat, n <= Len(x)
      PROVE  SubSeq(x \o y, 1, n) = SubSeq(x, 1, n)
    BY <1>1
<1>2. ASSUME NEW n \in Nat, n <= Len(y)
      PROVE  SubSeq(x \o y, 1, Len(x) + n) = x \o SubSeq(y, 1, n)
    BY <1>2
<1>3. q \o (x \o y) = (q \o x) \o y
    OBVIOUS
<1> QED BY <1>1, <1>2, <1>3

(* Appended to q, B keeps what q holds.                                    *)
LEMMA PrefixKeeps ==
    ASSUME NEW q \in Seq(RecordType), NEW B \in Seq(RecordType), NEW n \in Nat, n <= Len(B)
    PROVE  LET p == q \o SubSeq(B, 1, n)
           IN  /\ p \in Seq(RecordType) /\ Len(q) <= Len(p) /\ Len(p) = Len(q) + n
               /\ \A k \in 1..Len(q) : p[k] = q[k]
               /\ \A k \in 1..Len(p) : k > Len(q) =>
                     k - Len(q) \in 1..Len(B) /\ p[k] = B[k - Len(q)]
OBVIOUS

(* The records p hold this log, and this term and vote.                    *)
OnDisk(p, fs, m, term, log) ==
    /\ p \in Seq(RecordType) /\ Sound(p, m.base) /\ SnapsOK(p, fs, m)
    /\ ReadLog(m.base, p) = log /\ ReadState(m.base, p).term = term

(* What is in data_buffer reaches the disk, as far as the crash allows.    *)
LEMMA Flushed ==
    ASSUME NEW f \in Seq(RecordType), NEW b \in Seq(RecordType), NEW fs, NEW m, m.base \in Nat,
           NEW t, NEW log, Durable(f, b, fs, m, t, log)
    PROVE  \A n \in Nat : n <= Len(b) =>
              LET p == f \o SubSeq(b, 1, n)
              IN  /\ OnDisk(p, fs, m, t, log)
                  /\ ReadState(m.base, p).commit <= Latest(f, b, m).commit
                  /\ n = Len(b) => ReadState(m.base, p) = Latest(f, b, m)
<1> TAKE n \in Nat
<1> HAVE n <= Len(b)
<1> DEFINE p == f \o SubSeq(b, 1, n)
           last == Latest(f, b, m)
           hs == ReadState(m.base, f)
           hp == ReadState(m.base, p)
<1>1. /\ Sound(f, m.base) /\ SnapsOK(f, fs, m) /\ ReadLog(m.base, f) = log /\ hs.term = t
      /\ hs.commit <= last.commit
      /\ \A k \in 1..Len(b) : /\ b[k].type = "state" /\ b[k].term = t
                              /\ hs.commit <= b[k].index /\ b[k].index <= last.commit
    BY Zenon DEF Durable
<1>2. /\ p \in Seq(RecordType) /\ Sound(p, m.base) /\ ReadLog(m.base, p) = ReadLog(m.base, f)
      /\ n = 0 => hp = hs
      /\ n # 0 => hp = [term |-> b[n].term, commit |-> b[n].index]
  <2>1. \A k \in 1..Len(b) : b[k].type = "state"
      BY <1>1
  <2> QED BY <1>1, <2>1, AppendStates
<1>3. /\ Len(f) <= Len(p) /\ \A k \in 1..Len(f) : p[k] = f[k]
      /\ \A k \in 1..Len(p) : k > Len(f) => k - Len(f) \in 1..Len(b) /\ p[k] = b[k - Len(f)]
    BY PrefixKeeps
<1> HIDE DEF p, last, hs, hp
<1>4. hp.term = t /\ hp.commit <= last.commit /\ hs.commit <= hp.commit
  <2>1. CASE n = 0
    <3>1. hs.commit \in Nat
        BY ReadType DEF hs
    <3> QED BY <1>1, <1>2, <2>1, <3>1
  <2>2. CASE n # 0
    <3>1. n \in 1..Len(b)
        BY <2>2
    <3>2. b[n].term = t /\ hs.commit <= b[n].index /\ b[n].index <= last.commit
        BY <1>1, <3>1
    <3> QED BY <1>2, <2>2, <3>2
  <2> QED BY <2>1, <2>2
<1>5. n = Len(b) => hp = last
  <2>1. CASE b = <<>>
    <3>1. Len(b) = 0
        BY <2>1
    <3> QED BY <1>2, <2>1, <3>1 DEF last, Latest, hs
  <2>2. CASE b # <<>>
    <3>1. Len(b) # 0
        BY <2>2
    <3> QED BY <1>2, <2>2, <3>1 DEF last, Latest
  <2> QED BY <2>1, <2>2
<1>6. SnapsOK(p, fs, m)
  <2>1. \A k \in 1..Len(p) : k > Len(f) => p[k].type # "snap"
    <3> TAKE k \in 1..Len(p)
    <3> HAVE k > Len(f)
    <3>1. k - Len(f) \in 1..Len(b) /\ p[k] = b[k - Len(f)]
        BY <1>3
    <3> DEFINE l == k - Len(f)
    <3> HIDE DEF l
    <3>2. l \in 1..Len(b) /\ p[k] = b[l]
        BY <3>1 DEF l
    <3>3. p[k].type = "state"
        BY <1>1, <3>2, Zenon
    <3> QED BY <3>3
  <2>2. ReadState(m.base, f).commit <= ReadState(m.base, p).commit
      BY <1>4 DEF hs, hp
  <2> QED BY <1>1, <1>2, <1>3, <2>1, <2>2, SnapsMore
<1>7. OnDisk(p, fs, m, t, log)
    BY <1>1, <1>2, <1>4, <1>6, Zenon DEF OnDisk, hp
<1> QED BY <1>4, <1>5, <1>7 DEF p, last, hp

LEMMA AtSaveFacts ==
    ASSUME NEW f \in Seq(RecordType), NEW b \in Seq(RecordType), NEW fs, NEW m, NEW s,
           MemOK(m, s), AtSave(f, b, fs, m, s)
    PROVE  LET last == Latest(f, b, m)
           IN  /\ Durable(f, b, fs, m, s.term, s.log)
               /\ s.term <= m.term /\ m.state.term <= s.term
               /\ last.commit \in Nat /\ last.term = s.term
               /\ m.applied <= last.commit /\ last.commit <= m.commit
               /\ Fixed(s.log, m.log, last.commit) /\ Fixed(s.log, m.log, m.applied)
<1>1. /\ Durable(f, b, fs, m, s.term, s.log)
      /\ s.term <= m.term /\ m.state.term <= s.term
      /\ m.applied <= Latest(f, b, m).commit /\ Latest(f, b, m).commit <= m.commit
      /\ Fixed(s.log, m.log, Latest(f, b, m).commit)
    BY Zenon DEF AtSave
<1>2. Latest(f, b, m).commit \in Nat
    BY MemFacts, LatestType
<1>3. Latest(f, b, m).term = s.term
    BY <1>1, Zenon DEF Durable
<1>4. Fixed(s.log, m.log, m.applied)
  <2>1. m.applied \in Nat /\ s.log \in Seq(Nat) /\ m.log \in Seq(Nat)
      BY MemFacts
  <2> QED BY <1>1, <1>2, <2>1, FixedLess
<1> QED BY <1>1, <1>2, <1>3, <1>4

LEMMA CrashFlush ==
    ASSUME NEW f \in Seq(RecordType), NEW b \in Seq(RecordType), NEW fs, NEW m, NEW s,
           MemOK(m, s), AtSave(f, b, fs, m, s), NEW n \in Nat, n <= Len(b)
    PROVE  CrashOK(f \o SubSeq(b, 1, n), fs, m, s)
<1> DEFINE p == f \o SubSeq(b, 1, n)
           last == Latest(f, b, m)
           hp == ReadState(m.base, p)
<1>1. /\ m.base \in Nat /\ m.log \in Seq(Nat) /\ m.commit \in Nat /\ s.term \in Nat
      /\ s.log \in Seq(Nat)
    BY MemFacts
<1>2. /\ Durable(f, b, fs, m, s.term, s.log) /\ last.commit \in Nat /\ last.commit <= m.commit
      /\ Fixed(s.log, m.log, last.commit) /\ Fixed(s.log, m.log, m.applied)
    BY AtSaveFacts
<1>3. /\ p \in Seq(RecordType) /\ Sound(p, m.base) /\ SnapsOK(p, fs, m)
      /\ ReadLog(m.base, p) = s.log /\ hp.term = s.term /\ hp.commit <= last.commit
  <2>1. OnDisk(p, fs, m, s.term, s.log) /\ hp.commit <= last.commit
      BY <1>1, <1>2, Flushed
  <2> QED BY <2>1, Zenon DEF OnDisk
<1> HIDE DEF p, last
<1>4. hp.commit \in Nat
    BY <1>1, <1>3, ReadType
<1> HIDE DEF hp
<1>5. Fixed(s.log, m.log, hp.commit) /\ hp.commit <= m.commit /\ hp.term >= s.term
  <2>1. Fixed(s.log, m.log, hp.commit)
      BY <1>1, <1>2, <1>3, <1>4, FixedLess, Zenon
  <2>2. hp.commit <= last.commit /\ last.commit \in Nat /\ last.commit <= m.commit /\ hp.term = s.term
      BY <1>2, <1>3
  <2> QED BY <1>1, <1>4, <2>1, <2>2
<1>6. Between(m, s, s.log)
    BY DEF Between
<1>7. CrashOK(p, fs, m, s)
    BY <1>2, <1>3, <1>5, <1>6, Zenon DEF CrashOK, hp
<1> QED BY <1>7 DEF p

(* Then come the entries.                                                  *)
LEMMA CrashEntries ==
    ASSUME NEW f \in Seq(RecordType), NEW b \in Seq(RecordType), NEW fs, NEW m, NEW s,
           MemOK(m, s), AtSave(f, b, fs, m, s),
           NEW a \in Nat, Latest(f, b, m).commit <= a, NewAfter(m, s, a),
           NEW E \in Seq(RecordType), EntriesOf(E, m.log, a), a + Len(E) = Len(m.log),
           NEW g \in Seq(RecordType), OnDisk(g, fs, m, s.term, s.log),
           ReadState(m.base, g) = Latest(f, b, m)
    PROVE  \A n \in Nat : n <= Len(E) =>
              LET p == g \o SubSeq(E, 1, n)
              IN  /\ CrashOK(p, fs, m, s) /\ ReadState(m.base, p) = Latest(f, b, m)
                  /\ n = Len(E) => OnDisk(p, fs, m, s.term, m.log)
<1> TAKE n \in Nat
<1> HAVE n <= Len(E)
<1> DEFINE p == g \o SubSeq(E, 1, n)
           last == Latest(f, b, m)
           x == ReadLog(m.base, p)
<1>1. /\ m.base \in Nat /\ m.log \in Seq(Nat) /\ Len(m.log) \in Nat /\ m.commit \in Nat
      /\ s.term \in Nat /\ s.log \in Seq(Nat) /\ Len(s.log) \in Nat
      /\ m.applied \in Nat /\ m.base <= m.applied
    BY MemFacts
<1>2. /\ last.commit \in Nat /\ last.commit <= m.commit /\ last.term = s.term
      /\ m.applied <= last.commit
    BY AtSaveFacts
<1>3. Sound(g, m.base) /\ SnapsOK(g, fs, m) /\ ReadLog(m.base, g) = s.log
    BY Zenon DEF OnDisk
<1>4. /\ a <= Len(s.log) /\ a < Len(m.log) /\ \A k \in 1..a : s.log[k] = m.log[k]
    BY DEF NewAfter, Fixed
<1>5. m.base <= a /\ m.applied <= a /\ last.commit <= a
    BY <1>1, <1>2
<1>6. \A k \in 1..Len(E) : /\ E[k].type = "entry" /\ E[k].index = a + k
                           /\ E[k].term = m.log[a + k] /\ m.log[a + k] # 0
    BY Zenon DEF EntriesOf
<1>7. /\ p \in Seq(RecordType) /\ Sound(p, m.base)
      /\ ReadState(m.base, p) = ReadState(m.base, g)
      /\ n = 0 => x = ReadLog(m.base, g)
      /\ n # 0 => Len(x) = a + n
      /\ \A k \in 1..a : x[k] = ReadLog(m.base, g)[k]
      /\ \A k \in 1..n : x[a + k] = m.log[a + k]
  <2>1. a <= Len(ReadLog(m.base, g)) /\ a >= m.base /\ a + Len(E) <= Len(m.log)
      BY <1>1, <1>3, <1>4, <1>5
  <2> DEFINE M == m.log
             base == m.base
  <2>2. /\ M \in Seq(Nat) /\ base \in Nat /\ Sound(g, base) /\ a >= base
        /\ a <= Len(ReadLog(base, g)) /\ EntriesOf(E, M, a)
      BY <1>1, <1>3, <2>1, Zenon
  <2> HIDE DEF M, base
  <2>3. Overwritten(base, g, p, M, a, n)
      BY <2>2, AppendEntries
  <2> QED BY <2>3, Zenon DEF M, base, Overwritten
<1>8. /\ Len(g) <= Len(p) /\ \A k \in 1..Len(g) : p[k] = g[k]
      /\ \A k \in 1..Len(p) : k > Len(g) => k - Len(g) \in 1..Len(E) /\ p[k] = E[k - Len(g)]
    BY PrefixKeeps
<1> HIDE DEF p, last
<1>9. x \in Seq(Nat) /\ Len(x) \in Nat
    BY <1>1, <1>7, ReadType
<1> HIDE DEF x
<1>10. SnapsOK(p, fs, m)
  <2>1. \A k \in 1..Len(p) : k > Len(g) => p[k].type # "snap"
    <3> TAKE k \in 1..Len(p)
    <3> HAVE k > Len(g)
    <3> DEFINE l == k - Len(g)
    <3>1. l \in 1..Len(E) /\ p[k] = E[l]
        BY <1>8
    <3> HIDE DEF l
    <3>2. p[k].type = "entry"
        BY <1>6, <3>1, Zenon
    <3> QED BY <3>2
  <2>2. ReadState(m.base, g).commit <= ReadState(m.base, p).commit
    <3>1. ReadState(m.base, g).commit \in Nat
        BY <1>1, ReadType
    <3> QED BY <1>7, <3>1
  <2> QED BY <1>1, <1>3, <1>7, <1>8, <2>1, <2>2, SnapsMore
<1>11. ReadState(m.base, p) = last
    BY <1>7, Zenon DEF last
<1>12. \A k \in 1..a : x[k] = s.log[k] /\ x[k] = m.log[k]
    BY <1>3, <1>4, <1>7
<1>13. Len(x) >= a /\ (n # 0 => Len(x) = a + n /\ a + n <= Len(m.log))
  <2>1. CASE n = 0
      BY <1>1, <1>3, <1>4, <1>7, <2>1
  <2>2. CASE n # 0
    <3>1. \A c, d, e \in Nat : d <= e => c + d >= c /\ c + d <= c + e
        OBVIOUS
    <3>2. Len(E) \in Nat /\ Len(x) = a + n
        BY <1>7, <2>2
    <3>3. a + n >= a /\ a + n <= a + Len(E)
        BY <3>1, <3>2, Zenon
    <3> QED BY <2>2, <3>2, <3>3, Zenon
  <2> QED BY <2>1, <2>2
<1>14. Fixed(x, m.log, a)
    BY <1>1, <1>4, <1>9, <1>12, <1>13 DEF Fixed
<1>15. Fixed(x, m.log, last.commit) /\ Fixed(x, m.log, m.applied)
    BY <1>1, <1>2, <1>5, <1>9, <1>14, FixedLess
<1>16. n # 0 => Fixed(m.log, x, Len(x))
  <2> HAVE n # 0
  <2>1. \A k \in 1..Len(x) : m.log[k] = x[k]
    <3> TAKE k \in 1..Len(x)
    <3>1. CASE k \in 1..a
        BY <1>12, <3>1
    <3>2. CASE k \notin 1..a
      <4> DEFINE l == k - a
      <4>1. l \in 1..n /\ a + l = k
          BY <1>9, <1>13, <3>2
      <4> HIDE DEF l
      <4> QED BY <1>7, <4>1, Zenon
    <3> QED BY <3>1, <3>2
  <2> QED BY <1>9, <1>13, <2>1 DEF Fixed
<1>17. Between(m, s, x)
  <2>1. CASE n = 0
      BY <1>3, <1>7, <2>1 DEF Between
  <2>2. CASE n # 0
    <3>1. a < Len(x)
        BY <1>13, <2>2
    <3>2. Fixed(s.log, x, a)
        BY <1>1, <1>4, <1>9, <1>12, <1>13 DEF Fixed
    <3> QED BY <1>5, <1>16, <2>2, <3>1, <3>2, Zenon DEF Between
  <2> QED BY <2>1, <2>2
<1>18. n = Len(E) => x = m.log
  <2> HAVE n = Len(E)
  <2>1. n # 0
      BY <1>1, <1>4
  <2>2. Len(x) = Len(m.log) /\ Fixed(m.log, x, Len(m.log))
      BY <1>13, <1>16, <2>1
  <2> QED BY <1>1, <1>9, <2>2, FixedAll
<1>19. last.term >= s.term
    BY <1>1, <1>2
<1>20. CrashOK(p, fs, m, s)
    BY <1>2, <1>7, <1>10, <1>11, <1>15, <1>17, <1>19, Zenon DEF CrashOK, x
<1>21. n = Len(E) => OnDisk(p, fs, m, s.term, m.log)
    BY <1>2, <1>7, <1>10, <1>11, <1>18, Zenon DEF OnDisk, x
<1> QED BY <1>11, <1>20, <1>21 DEF p, last

(* The HardState comes last.                                               *)
LEMMA SaveTail ==
    ASSUME NEW q \in Seq(RecordType), NEW fs, NEW m, NEW s, MemOK(m, s), NEW t,
           OnDisk(q, fs, m, t, m.log), ReadState(m.base, q).commit <= m.commit
    PROVE  LET p == Append(q, StateRecord(HardState(m)))
           IN  OnDisk(p, fs, m, m.term, m.log) /\ ReadState(m.base, p) = HardState(m)
<1> DEFINE r == StateRecord(HardState(m))
           p == Append(q, r)
<1>1. m.base \in Nat /\ m.term \in Nat /\ m.commit \in Nat
    BY MemFacts
<1>2. r \in RecordType /\ r.type = "state" /\ r.term = m.term /\ r.index = m.commit
    BY <1>1 DEF StateRecord, HardState, RecordType
<1>3. Sound(q, m.base) /\ SnapsOK(q, fs, m) /\ ReadLog(m.base, q) = m.log
    BY Zenon DEF OnDisk
<1> HIDE DEF r
<1>4. p \in Seq(RecordType) /\ Len(p) = Len(q) + 1 /\ p[Len(q) + 1] = r
      /\ \A k \in 1..Len(q) : p[k] = q[k]
    BY <1>2
<1>5. Sound(p, m.base)
    BY <1>1, <1>2, <1>3, SoundOther
<1>6. ReadLog(m.base, p) = m.log /\ ReadState(m.base, p) = [term |-> r.term, commit |-> r.index]
  <2>1. /\ ReadLog(m.base, p) = ReadLog(m.base, q)
        /\ ReadState(m.base, p) = [term |-> r.term, commit |-> r.index]
      BY <1>1, <1>2, ReadAppend
  <2> QED BY <1>3, <2>1, Zenon
<1> HIDE DEF p
<1>7. ReadState(m.base, p) = HardState(m) /\ ReadState(m.base, p).commit = m.commit
      /\ ReadState(m.base, p).term = m.term
    BY <1>2, <1>6 DEF HardState
<1>8. SnapsOK(p, fs, m)
  <2>1. Len(q) <= Len(p) /\ \A k \in 1..Len(p) : k > Len(q) => p[k].type # "snap"
    <3>1. Len(q) \in Nat
        OBVIOUS
    <3>2. \A k \in 1..Len(p) : k > Len(q) => k = Len(q) + 1
        BY <1>4, <3>1
    <3>3. p[Len(q) + 1].type # "snap"
        BY <1>2, <1>4
    <3> QED BY <1>4, <3>1, <3>2, <3>3
  <2>2. ReadState(m.base, q).commit <= ReadState(m.base, p).commit
      BY <1>7
  <2> QED BY <1>1, <1>3, <1>4, <2>1, <2>2, SnapsMore
<1>9. OnDisk(p, fs, m, m.term, m.log)
    BY <1>4, <1>5, <1>6, <1>7, <1>8, Zenon DEF OnDisk
<1> QED BY <1>7, <1>9 DEF p, r

LEMMA SaveDone ==
    ASSUME NEW q \in Seq(RecordType), NEW fs, NEW m, NEW s, MemOK(m, s),
           OnDisk(q, fs, m, m.term, m.log), ReadState(m.base, q) = HardState(m)
    PROVE  Durable(q, <<>>, fs, m, m.term, m.log) /\ Latest(q, <<>>, m) = HardState(m)
<1>1. m.base \in Nat /\ m.term \in Nat /\ m.commit \in Nat
    BY MemFacts
<1>2. Latest(q, <<>>, m) = ReadState(m.base, q)
    BY DEF Latest
<1>3. ReadState(m.base, q).commit = m.commit /\ ReadState(m.base, q).term = m.term
    BY DEF HardState
<1>4. \A k \in 1..Len(<<>>) : FALSE
    OBVIOUS
<1>5. ReadState(m.base, q).commit <= ReadState(m.base, q).commit
    BY <1>1, <1>3
<1>6. Sound(q, m.base) /\ SnapsOK(q, fs, m) /\ ReadLog(m.base, q) = m.log
    BY Zenon DEF OnDisk
<1> QED BY <1>2, <1>3, <1>4, <1>5, <1>6, Zenon DEF Durable

Trailer == IF hard_state = mem.prev \/ hard_state = EmptyState THEN <<>>
        ELSE <<StateRecord(hard_state)>>

LEMMA BatchParts ==
    ASSUME file \in Seq(RecordType), buffer \in Seq(RecordType),
           MemOK(mem, sent), AtSave(file, buffer, snaps, mem, sent)
    PROVE  /\ Unsaved \in Seq(RecordType) /\ Trailer \in Seq(RecordType) /\ Batch = Unsaved \o Trailer
           /\ Batch \in Seq(RecordType) /\ hard_state = HardState(mem)
           /\ Trailer = <<>> => Latest(file, buffer, mem) = HardState(mem)
           /\ Trailer # <<>> => Trailer = <<StateRecord(HardState(mem))>> /\ hard_state # mem.prev
           /\ mem.log = sent.log => Unsaved = <<>>
           /\ mem.log # sent.log =>
                 \E a \in Nat : /\ Latest(file, buffer, mem).commit <= a /\ NewAfter(mem, sent, a)
                                /\ Len(Unsaved) # 0 /\ a + Len(Unsaved) = Len(mem.log)
                                /\ EntriesOf(Unsaved, mem.log, a)
<1>1. mem.term \in Nat /\ mem.commit \in Nat
    BY MemFacts
<1>2. hard_state = HardState(mem)
    BY DEF hard_state, HardState
<1>3. StateRecord(hard_state) \in RecordType
    BY <1>1, <1>2 DEF HardState, StateRecord, RecordType
<1>4. Trailer \in Seq(RecordType)
    BY <1>3 DEF Trailer
<1>5. Trailer # <<>> => Trailer = <<StateRecord(HardState(mem))>> /\ hard_state # mem.prev
    BY <1>2 DEF Trailer
<1>6. Trailer = <<>> => Latest(file, buffer, mem) = HardState(mem)
  <2> HAVE Trailer = <<>>
  <2>1. hard_state \in {mem.prev, EmptyState}
    <3>1. <<StateRecord(hard_state)>> # <<>>
        OBVIOUS
    <3> QED BY <3>1 DEF Trailer
  <2> QED BY <1>2, <2>1, Zenon DEF AtSave
<1>7. CASE mem.log = sent.log
  <2>1. Unsaved = <<>>
      BY <1>7, UnsavedNone
  <2>2. Unsaved \in Seq(RecordType) /\ Batch \in Seq(RecordType)
      BY <1>4, <2>1 DEF Batch, Trailer
  <2> QED BY <1>2, <1>4, <1>5, <1>6, <1>7, <2>1, <2>2 DEF Batch, Trailer
<1>8. CASE mem.log # sent.log
  <2>1. PICK a \in Nat : Latest(file, buffer, mem).commit <= a /\ NewAfter(mem, sent, a)
      BY <1>8, Zenon DEF AtSave
  <2>2. /\ Unsaved \in Seq(RecordType) /\ Len(Unsaved) \in Nat \ {0}
        /\ a + Len(Unsaved) = Len(mem.log)
        /\ \A k \in 1..Len(Unsaved) :
              /\ Unsaved[k].type = "entry" /\ Unsaved[k].index = a + k
              /\ Unsaved[k].term = mem.log[a + k]
      BY <2>1, UnsavedFrom
  <2>3. Batch = Unsaved \o Trailer
      BY DEF Batch, Trailer
  <2>4. Batch \in Seq(RecordType)
      BY <1>4, <2>2, <2>3
  <2>5. Len(Unsaved) # 0
      BY <2>2
  <2>6. EntriesOf(Unsaved, mem.log, a)
    <3>1. \A k \in mem.base+1 .. Len(mem.log) : mem.log[k] # 0
        BY Zenon DEF AtSave
    <3>2. \A c, d, e \in Nat : c <= d => \A k \in 1..e : d + k \in c+1 .. d+e
        OBVIOUS
    <3>3. Len(Unsaved) \in Nat /\ mem.base \in Nat /\ mem.base <= a
      <4>1. /\ mem.base \in Nat /\ mem.base <= mem.applied /\ mem.applied \in Nat
            /\ Latest(file, buffer, mem).commit \in Nat
            /\ mem.applied <= Latest(file, buffer, mem).commit
          BY MemFacts, AtSaveFacts
      <4> QED BY <2>1, <2>2, <4>1
    <3>4. \A k \in 1..Len(Unsaved) : a + k \in mem.base+1 .. a + Len(Unsaved)
        BY <3>2, <3>3, Zenon
    <3>5. \A k \in 1..Len(Unsaved) : mem.log[a + k] # 0
        BY <2>2, <3>1, <3>4, Zenon
    <3>6. a + Len(Unsaved) <= Len(mem.log)
        BY <2>2, <3>3
    <3> QED BY <2>2, <3>5, <3>6, Zenon DEF EntriesOf
  <2> QED BY <1>2, <1>4, <1>5, <1>6, <1>8, <2>1, <2>2, <2>3, <2>4, <2>5, <2>6, Zenon
<1> QED BY <1>7, <1>8

(* The disk holds the Ready when all of it is written, and a crash before  *)
(* that leaves a log between the old one and the new one.                  *)
LEMMA SaveSynced ==
    ASSUME file \in Seq(RecordType), buffer \in Seq(RecordType),
           MemOK(mem, sent), AtSave(file, buffer, snaps, mem, sent)
    PROVE  LET B == buffer \o Batch
           IN  /\ \A n \in 0..Len(B) : CrashOK(file \o SubSeq(B, 1, n), snaps, mem, sent)
               /\ OnDisk(file \o B, snaps, mem, mem.term, mem.log)
               /\ ReadState(mem.base, file \o B) = HardState(mem)
               /\ Between(mem, sent, mem.log)
<1> DEFINE U == Unsaved
           T == Trailer
           B == buffer \o Batch
           last == Latest(file, buffer, mem)
           g == file \o buffer
           h == g \o U
           q == h \o T
           Crashed(p) == CrashOK(p, snaps, mem, sent)
<1>1. /\ mem.base \in Nat /\ mem.log \in Seq(Nat) /\ Len(mem.log) \in Nat /\ mem.commit \in Nat
      /\ sent.term \in Nat /\ sent.log \in Seq(Nat) /\ mem.applied \in Nat /\ mem.term \in Nat
      /\ mem.applied <= mem.commit /\ mem.commit <= Len(mem.log)
    BY MemFacts
<1>2. /\ Durable(file, buffer, snaps, mem, sent.term, sent.log)
      /\ last.commit \in Nat /\ last.commit <= mem.commit /\ last.term = sent.term
      /\ mem.applied <= last.commit /\ sent.term <= mem.term
    BY AtSaveFacts
<1>3. /\ U \in Seq(RecordType) /\ T \in Seq(RecordType) /\ Batch = U \o T
      /\ Batch \in Seq(RecordType)
      /\ T = <<>> => last = HardState(mem)
      /\ T # <<>> => T = <<StateRecord(HardState(mem))>>
      /\ mem.log = sent.log => U = <<>>
      /\ mem.log # sent.log =>
            \E a \in Nat : /\ last.commit <= a /\ NewAfter(mem, sent, a)
                           /\ Len(U) # 0 /\ a + Len(U) = Len(mem.log)
                           /\ EntriesOf(U, mem.log, a)
    BY BatchParts, Zenon
<1> HIDE DEF U, T, last
<1>4. OnDisk(g, snaps, mem, sent.term, sent.log) /\ ReadState(mem.base, g) = last
      /\ g \in Seq(RecordType)
  <2>1. Len(buffer) \in Nat /\ Len(buffer) <= Len(buffer) /\ g \in Seq(RecordType)
      OBVIOUS
  <2>2. g = file \o SubSeq(buffer, 1, Len(buffer))
      BY PrefixAll
  <2>3. OnDisk(file \o SubSeq(buffer, 1, Len(buffer)), snaps, mem, sent.term, sent.log)
      BY <1>1, <1>2, <2>1, Flushed
  <2>4. ReadState(mem.base, file \o SubSeq(buffer, 1, Len(buffer))) = Latest(file, buffer, mem)
    <3> DEFINE d == Latest(file, buffer, mem)
               l == Len(buffer)
               p == file \o SubSeq(buffer, 1, l)
    <3>1. \A n \in Nat : n <= Len(buffer) =>
             (n = Len(buffer) => ReadState(mem.base, file \o SubSeq(buffer, 1, n))
                                   = Latest(file, buffer, mem))
        BY <1>1, <1>2, Flushed, ZenonT(60)
    <3> QED BY <2>1, <3>1, Zenon
  <2> QED BY <2>1, <2>2, <2>3, <2>4, Zenon DEF last
<1>5. Crashed(g)
  <2>1. Len(buffer) \in Nat /\ Len(buffer) <= Len(buffer)
      OBVIOUS
  <2>2. g = file \o SubSeq(buffer, 1, Len(buffer))
      BY PrefixAll
  <2>3. CrashOK(file \o SubSeq(buffer, 1, Len(buffer)), snaps, mem, sent)
      BY <2>1, CrashFlush
  <2> QED BY <2>2, <2>3, Zenon
<1> HIDE DEF g
<1>6. /\ \A n \in 0..Len(U) : Crashed(g \o SubSeq(U, 1, n))
      /\ OnDisk(h, snaps, mem, sent.term, mem.log) /\ ReadState(mem.base, h) = last
      /\ h \in Seq(RecordType) /\ Between(mem, sent, mem.log)
  <2>1. CASE mem.log = sent.log
    <3>1. U = <<>> /\ h = g /\ Len(U) = 0
        BY <1>3, <1>4, <2>1
    <3>2. \A n \in 0..Len(U) : g \o SubSeq(U, 1, n) = g
      <4>1. \A n \in 0..Len(U) : n = 0
          BY <3>1
      <4>2. g \o SubSeq(U, 1, 0) = g
          BY <1>3, <1>4, PrefixNone
      <4> QED BY <4>1, <4>2, Zenon
    <3>3. Between(mem, sent, mem.log)
        BY <2>1, Zenon DEF Between
    <3> HIDE DEF h, Crashed
    <3>4. \A n \in 0..Len(U) : Crashed(g \o SubSeq(U, 1, n))
        BY <1>5, <3>2, Zenon
    <3> QED BY <1>4, <2>1, <3>1, <3>3, <3>4, Zenon
  <2>2. CASE mem.log # sent.log
    <3>1. PICK a \in Nat :
             /\ last.commit <= a /\ NewAfter(mem, sent, a)
             /\ Len(U) # 0 /\ a + Len(U) = Len(mem.log) /\ EntriesOf(U, mem.log, a)
        BY <1>3, <2>2, Zenon
    <3>2. \A n \in Nat : n <= Len(U) =>
             LET p == g \o SubSeq(U, 1, n)
             IN  /\ CrashOK(p, snaps, mem, sent)
                 /\ ReadState(mem.base, p) = Latest(file, buffer, mem)
                 /\ n = Len(U) => OnDisk(p, snaps, mem, sent.term, mem.log)
        BY <1>3, <1>4, <3>1, CrashEntries DEF last
    <3>3. \A n \in 0..Len(U) : n \in Nat /\ n <= Len(U)
        BY <1>3
    <3>4. Len(U) \in Nat /\ Len(U) <= Len(U)
        BY <1>3
    <3>5. h = g \o SubSeq(U, 1, Len(U))
        BY <1>3, <1>4, PrefixAll
    <3>6. CrashOK(h, snaps, mem, sent) /\ ReadState(mem.base, h) = Latest(file, buffer, mem)
          /\ OnDisk(h, snaps, mem, sent.term, mem.log)
        BY <3>2, <3>4, <3>5, Zenon
    <3> HIDE DEF h
    <3>7. h \in Seq(RecordType) /\ ReadLog(mem.base, h) = mem.log
        BY <3>6, Zenon DEF OnDisk
    <3>8. Between(mem, sent, mem.log)
        BY <3>6, <3>7, Zenon DEF CrashOK
    <3> QED BY <3>2, <3>3, <3>6, <3>7, <3>8, Zenon DEF last
  <2> QED BY <2>1, <2>2
<1> HIDE DEF h
<1>7. OnDisk(q, snaps, mem, mem.term, mem.log) /\ ReadState(mem.base, q) = HardState(mem)
      /\ q \in Seq(RecordType)
  <2>1. CASE T = <<>>
    <3>1. q = h /\ last = HardState(mem)
        BY <1>3, <1>6, <2>1
    <3>2. last.term = mem.term
        BY <3>1 DEF HardState
    <3> HIDE DEF q
    <3> QED BY <1>2, <1>6, <3>1, <3>2
  <2>2. CASE T # <<>>
    <3> DEFINE r == StateRecord(HardState(mem))
    <3>1. T = <<r>>
        BY <1>3, <2>2
    <3>2. q = Append(h, r)
      <4> HIDE DEF r
      <4> QED BY <1>6, <3>1
    <3>3. ReadState(mem.base, h).commit <= mem.commit
        BY <1>2, <1>6
    <3>4. OnDisk(Append(h, r), snaps, mem, mem.term, mem.log)
          /\ ReadState(mem.base, Append(h, r)) = HardState(mem)
        BY <1>6, <3>3, SaveTail
    <3> HIDE DEF q, r
    <3> QED BY <3>2, <3>4, Zenon DEF OnDisk
  <2> QED BY <2>1, <2>2
<1>8. Crashed(q)
  <2>1. Durable(q, <<>>, snaps, mem, mem.term, mem.log) /\ Latest(q, <<>>, mem) = HardState(mem)
      BY <1>7, SaveDone
  <2>2. <<>> \in Seq(RecordType) /\ Latest(q, <<>>, mem).commit = mem.commit
      BY <2>1 DEF HardState
  <2>3. Fixed(mem.log, mem.log, mem.commit) /\ Fixed(mem.log, mem.log, mem.applied)
      BY <1>1, FixedSelf
  <2>4. mem.term >= sent.term /\ Latest(q, <<>>, mem).commit <= mem.commit
      BY <1>1, <1>2, <2>2
  <2> HIDE DEF q
  <2> QED BY <1>1, <1>6, <1>7, <2>1, <2>2, <2>3, <2>4, CrashOnDisk
<1>9. file \o B = q
  <2>1. U \in Seq(RecordType) /\ T \in Seq(RecordType) /\ g \in Seq(RecordType)
      BY <1>3, <1>4
  <2>2. file \o (buffer \o Batch) = (file \o buffer) \o Batch
      BY <1>3, ConcatAssoc, Zenon
  <2>3. g \o (U \o T) = (g \o U) \o T
      BY <2>1, ConcatAssoc, Zenon
  <2> QED BY <1>3, <2>2, <2>3, Zenon DEF g, h
<1> HIDE DEF Crashed
<1>10. \A n \in 0..Len(B) : Crashed(file \o SubSeq(B, 1, n))
  <2> TAKE n \in 0..Len(B)
  <2>1. Len(B) = Len(buffer) + (Len(U) + Len(T)) /\ Len(U) \in Nat /\ Len(T) \in Nat /\ n \in Nat
        /\ Len(buffer) \in Nat
      BY <1>3
  <2>2. CASE n <= Len(buffer)
    <3>1. SubSeq(B, 1, n) = SubSeq(buffer, 1, n)
        BY <1>3, <2>1, <2>2, ConcatCut
    <3>2. CrashOK(file \o SubSeq(buffer, 1, n), snaps, mem, sent)
        BY <2>1, <2>2, CrashFlush
    <3> QED BY <3>1, <3>2, Zenon DEF Crashed
  <2>3. CASE n > Len(buffer) /\ n <= Len(buffer) + Len(U)
    <3> DEFINE k == n - Len(buffer)
    <3>1. k \in Nat /\ k <= Len(U) /\ k \in 0..Len(U) /\ n = Len(buffer) + k /\ k <= Len(Batch)
        BY <1>3, <2>1, <2>3
    <3> HIDE DEF k
    <3>2. SubSeq(B, 1, n) = buffer \o SubSeq(Batch, 1, k)
      <4>1. \A l \in Nat : l <= Len(Batch) =>
               SubSeq(buffer \o Batch, 1, Len(buffer) + l) = buffer \o SubSeq(Batch, 1, l)
          BY <1>3, ConcatCut
      <4> QED BY <3>1, <4>1, Zenon
    <3>3. SubSeq(Batch, 1, k) = SubSeq(U, 1, k) /\ SubSeq(U, 1, k) \in Seq(RecordType)
      <4>1. SubSeq(U \o T, 1, k) = SubSeq(U, 1, k)
          BY <1>3, <3>1, ConcatCut
      <4>2. SubSeq(U, 1, k) \in Seq(RecordType)
          BY <1>3, <3>1
      <4> QED BY <1>3, <4>1, <4>2, Zenon
    <3>4. file \o SubSeq(B, 1, n) = g \o SubSeq(U, 1, k)
      <4> DEFINE o == SubSeq(U, 1, k)
      <4>1. SubSeq(B, 1, n) = buffer \o o /\ o \in Seq(RecordType)
          BY <3>2, <3>3, Zenon
      <4> HIDE DEF o
      <4>2. file \o (buffer \o o) = (file \o buffer) \o o
          BY <4>1, ConcatAssoc, Zenon
      <4> QED BY <4>1, <4>2, Zenon DEF g, o
    <3> QED BY <1>6, <3>1, <3>4, Zenon
  <2>4. CASE n > Len(buffer) + Len(U)
    <3>1. Len(T) = 1
      <4>1. T # <<>>
        <5>1. Len(T) # 0
            BY <2>1, <2>4
        <5> QED BY <5>1
      <4> QED BY <1>3, <4>1
    <3>2. n = Len(B)
        BY <2>1, <2>4, <3>1
    <3>3. SubSeq(B, 1, Len(B)) = B
        BY <1>3, <1>4, PrefixAll
    <3> QED BY <1>8, <1>9, <3>2, <3>3, Zenon
  <2> QED BY <2>1, <2>2, <2>3, <2>4
<1> QED BY <1>6, <1>7, <1>9, <1>10, Zenon DEF Crashed

-----------------------------------------------------------------------------
(* The process changes and the disk does not.                              *)

LEMMA DurableOther ==
    ASSUME NEW f \in Seq(RecordType), NEW b \in Seq(RecordType), NEW fs, NEW m, m.base \in Nat,
           NEW t, NEW log, Durable(f, b, fs, m, t, log),
           NEW w, w.base = m.base, Fixed(m.log, w.log, Latest(f, b, m).commit)
    PROVE  Durable(f, b, fs, w, t, log) /\ Latest(f, b, w) = Latest(f, b, m)
<1>1. Latest(f, b, w) = Latest(f, b, m)
    BY DEF Latest
<1>2. /\ Sound(f, m.base) /\ SnapsOK(f, fs, m)
      /\ ReadLog(m.base, f) = log /\ ReadState(m.base, f).term = t
      /\ Latest(f, b, m).term = t
      /\ ReadState(m.base, f).commit <= Latest(f, b, m).commit
      /\ \A k \in 1..Len(b) :
            /\ b[k].type = "state" /\ b[k].term = t
            /\ ReadState(m.base, f).commit <= b[k].index
            /\ b[k].index <= Latest(f, b, m).commit
    BY Zenon DEF Durable
<1>3. SnapsOK(f, fs, w)
  <2>1. ASSUME NEW k \in 1..Len(f), f[k].type = "snap"
        PROVE  /\ f[k].index <= ReadState(w.base, f).commit
               /\ f[k].index > w.base => f[k].term = w.log[f[k].index]
    <3>1. /\ f[k].index <= ReadState(m.base, f).commit
          /\ f[k].index > m.base => f[k].term = m.log[f[k].index]
        BY <1>2, <2>1, Zenon DEF SnapsOK
    <3>2. f[k] \in RecordType
        OBVIOUS
    <3>3. f[k].index \in Nat
        BY <3>2 DEF RecordType
    <3>4. ReadState(m.base, f).commit \in Nat /\ Latest(f, b, m).commit \in Nat
        BY ReadType, LatestType
    <3>5. f[k].index > m.base => f[k].index \in 1..Latest(f, b, m).commit
        BY <1>2, <3>1, <3>3, <3>4
    <3>6. f[k].index > m.base => m.log[f[k].index] = w.log[f[k].index]
        BY <3>5 DEF Fixed
    <3> QED BY <3>1, <3>6
  <2>2. Recorded(f, NoSnap) /\ \A snap \in fs : Recorded(f, snap)
      BY <1>2, Zenon DEF SnapsOK
  <2>3. \A k, l \in 1..Len(f) :
          /\ f[k].type = "snap" /\ f[k].index = w.base
          /\ f[l].type = "snap" /\ f[l].index = w.base
          => f[k].term = f[l].term
    <3>1. \A k, l \in 1..Len(f) :
            /\ f[k].type = "snap" /\ f[k].index = m.base
            /\ f[l].type = "snap" /\ f[l].index = m.base
            => f[k].term = f[l].term
        BY <1>2, Zenon DEF SnapsOK
    <3> QED BY <3>1
  <2> QED BY <2>1, <2>2, <2>3, Zenon DEF SnapsOK
<1> QED BY <1>1, <1>2, <1>3, Zenon DEF Durable

(* The commit index stays in data_buffer.                                  *)
LEMMA BufferedState ==
    ASSUME NEW f \in Seq(RecordType), NEW b \in Seq(RecordType), NEW fs, NEW m, NEW s,
           MemOK(m, s), Durable(f, b, fs, m, m.term, m.log),
           Latest(f, b, m).commit <= m.commit
    PROVE  LET c == Append(b, StateRecord(HardState(m)))
           IN  /\ c \in Seq(RecordType) /\ Durable(f, c, fs, m, m.term, m.log)
               /\ Latest(f, c, m) = HardState(m)
<1> DEFINE r == StateRecord(HardState(m))
           c == Append(b, r)
<1>1. m.base \in Nat /\ m.term \in Nat /\ m.commit \in Nat
    BY MemFacts
<1>2. r \in RecordType /\ r.type = "state" /\ r.term = m.term /\ r.index = m.commit
      /\ [term |-> r.term, commit |-> r.index] = HardState(m)
    BY <1>1 DEF StateRecord, HardState, RecordType
<1> HIDE DEF r
<1>3. c \in Seq(RecordType) /\ Len(c) = Len(b) + 1 /\ c[Len(b) + 1] = r /\ c # <<>>
      /\ \A k \in 1..Len(b) : c[k] = b[k]
    BY <1>2
<1> HIDE DEF c
<1>4. Latest(f, c, m) = HardState(m) /\ Latest(f, c, m).commit = m.commit
      /\ Latest(f, c, m).term = m.term
  <2>1. Latest(f, c, m) = [term |-> r.term, commit |-> r.index]
      BY <1>3 DEF Latest
  <2> QED BY <1>2, <2>1 DEF HardState
<1>5. /\ Sound(f, m.base) /\ SnapsOK(f, fs, m)
      /\ ReadLog(m.base, f) = m.log /\ ReadState(m.base, f).term = m.term
      /\ ReadState(m.base, f).commit <= Latest(f, b, m).commit
      /\ \A k \in 1..Len(b) :
            /\ b[k].type = "state" /\ b[k].term = m.term
            /\ ReadState(m.base, f).commit <= b[k].index
            /\ b[k].index <= Latest(f, b, m).commit
    BY Zenon DEF Durable
<1>6. ReadState(m.base, f).commit \in Nat /\ Latest(f, b, m).commit \in Nat
    BY <1>1, ReadType, LatestType
<1>7. ReadState(m.base, f).commit <= m.commit
    BY <1>1, <1>5, <1>6
<1>8. ASSUME NEW k \in 1..Len(c)
      PROVE  /\ c[k].type = "state" /\ c[k].term = m.term
             /\ ReadState(m.base, f).commit <= c[k].index /\ c[k].index <= m.commit
  <2>1. CASE k \in 1..Len(b)
    <3>1. c[k] = b[k] /\ b[k] \in RecordType
        BY <1>3, <2>1
    <3>2. b[k].index \in Nat
        BY <3>1 DEF RecordType
    <3>3. /\ b[k].type = "state" /\ b[k].term = m.term
          /\ ReadState(m.base, f).commit <= b[k].index
          /\ b[k].index <= Latest(f, b, m).commit
        BY <1>5, <2>1, Zenon
    <3> QED BY <1>1, <1>6, <3>1, <3>2, <3>3
  <2>2. CASE k \notin 1..Len(b)
    <3>1. k = Len(b) + 1
        BY <1>3, <2>2
    <3> QED BY <1>1, <1>2, <1>3, <1>7, <3>1
  <2> QED BY <2>1, <2>2
<1>9. Durable(f, c, fs, m, m.term, m.log)
    BY <1>4, <1>5, <1>7, <1>8, Zenon DEF Durable
<1> QED BY <1>3, <1>4, <1>9 DEF c, r

(* The record of a snapshot.                                               *)
LEMMA SnapWritten ==
    ASSUME NEW q \in Seq(RecordType), NEW fs, NEW m, NEW s, MemOK(m, s),
           OnDisk(q, fs, m, m.term, m.log), ReadState(m.base, q) = HardState(m),
           m.snapshot_index < m.applied
    PROVE  LET snap == [index |-> m.applied, term |-> m.log[m.applied]]
               p == Append(q, SnapRecord(snap))
           IN  /\ OnDisk(p, fs, m, m.term, m.log) /\ ReadState(m.base, p) = HardState(m)
               /\ Recorded(p, snap) /\ SnapRecord(snap) \in RecordType
<1> DEFINE snap == [index |-> m.applied, term |-> m.log[m.applied]]
           r == SnapRecord(snap)
           p == Append(q, r)
<1>1. /\ m.base \in Nat /\ m.log \in Seq(Nat) /\ Len(m.log) \in Nat /\ m.commit \in Nat
      /\ m.applied \in Nat /\ m.base <= m.snapshot_index /\ m.snapshot_index \in Nat
      /\ m.applied <= m.commit /\ m.commit <= Len(m.log)
    BY MemFacts
<1>2. m.applied \in 1..Len(m.log) /\ m.applied > m.base
    BY <1>1
<1>3. r \in RecordType /\ r.type = "snap" /\ r.index = m.applied /\ r.term = m.log[m.applied]
  <2>1. m.log[m.applied] \in Nat
      BY <1>1, <1>2
  <2> QED BY <1>1, <2>1 DEF SnapRecord, RecordType
<1>4. Sound(q, m.base) /\ SnapsOK(q, fs, m) /\ ReadLog(m.base, q) = m.log
      /\ ReadState(m.base, q).term = m.term
    BY Zenon DEF OnDisk
<1> HIDE DEF r
<1>5. p \in Seq(RecordType) /\ Len(p) = Len(q) + 1 /\ p[Len(q) + 1] = r
      /\ Len(q) \in Nat /\ \A k \in 1..Len(q) : p[k] = q[k] /\ k \in 1..Len(p)
    BY <1>3
<1>6. Sound(p, m.base)
    BY <1>1, <1>3, <1>4, SoundOther
<1>7. ReadLog(m.base, p) = ReadLog(m.base, q) /\ ReadState(m.base, p) = ReadState(m.base, q)
    BY <1>1, <1>3, ReadAppend
<1>8. ReadState(m.base, p).commit = m.commit
    BY <1>7 DEF HardState
<1> HIDE DEF p
<1>9. \A k \in 1..Len(p) : k \in 1..Len(q) \/ k = Len(q) + 1
    BY <1>5
<1>10. ASSUME NEW k \in 1..Len(p), p[k].type = "snap"
       PROVE  /\ p[k].index <= ReadState(m.base, p).commit
              /\ p[k].index > m.base => p[k].term = m.log[p[k].index]
  <2>1. CASE k \in 1..Len(q)
    <3>1. p[k] = q[k] /\ q[k].type = "snap"
        BY <1>5, <1>10, <2>1
    <3> QED BY <1>4, <1>7, <2>1, <3>1, Zenon DEF SnapsOK
  <2>2. CASE k = Len(q) + 1
      BY <1>1, <1>3, <1>5, <1>8, <2>2
  <2> QED BY <1>9, <2>1, <2>2
<1>11. ASSUME NEW k \in 1..Len(p), p[k].index = m.base
       PROVE  k \in 1..Len(q) /\ p[k] = q[k]
  <2>1. p[Len(q) + 1].index # m.base
      BY <1>1, <1>2, <1>3, <1>5
  <2> QED BY <1>5, <1>9, <1>11, <2>1
<1>12. ASSUME NEW k \in 1..Len(p), NEW l \in 1..Len(p),
              p[k].type = "snap", p[k].index = m.base, p[l].type = "snap", p[l].index = m.base
       PROVE  p[k].term = p[l].term
  <2>1. k \in 1..Len(q) /\ p[k] = q[k] /\ l \in 1..Len(q) /\ p[l] = q[l]
      BY <1>11, <1>12
  <2> QED BY <1>4, <1>12, <2>1, Zenon DEF SnapsOK
<1>13. ASSUME NEW z, Recorded(q, z)
       PROVE  Recorded(p, z)
    BY <1>5, <1>13, Zenon DEF Recorded
<1>14. Recorded(p, NoSnap) /\ \A z \in fs : Recorded(p, z)
    BY <1>4, <1>13, Zenon DEF SnapsOK
<1>15. SnapsOK(p, fs, m)
    BY <1>10, <1>12, <1>14, Zenon DEF SnapsOK
<1>16. Recorded(p, snap)
  <2>1. Len(q) + 1 \in 1..Len(p)
      BY <1>5
  <2> QED BY <1>5, <2>1, Zenon DEF Recorded, r
<1>17. OnDisk(p, fs, m, m.term, m.log)
    BY <1>4, <1>5, <1>6, <1>7, <1>15, Zenon DEF OnDisk
<1> QED BY <1>3, <1>7, <1>16, <1>17, Zenon DEF p, r

LEMMA CrashKnown ==
    ASSUME NEW p, NEW fs, NEW m, NEW s, MemOK(m, s), OnDisk(p, fs, m, m.term, m.log),
           ReadState(m.base, p).commit <= m.commit, Between(m, s, m.log), s.term <= m.term
    PROVE  CrashOK(p, fs, m, s)
<1> DEFINE hs == ReadState(m.base, p)
<1>1. /\ m.base \in Nat /\ m.log \in Seq(Nat) /\ Len(m.log) \in Nat /\ m.commit \in Nat
      /\ m.applied \in Nat /\ m.applied <= m.commit /\ m.commit <= Len(m.log)
      /\ m.term \in Nat /\ s.term \in Nat
    BY MemFacts
<1>2. /\ p \in Seq(RecordType) /\ Sound(p, m.base) /\ SnapsOK(p, fs, m)
      /\ ReadLog(m.base, p) = m.log /\ hs.term = m.term
    BY Zenon DEF OnDisk
<1>3. hs.commit \in Nat
    BY <1>1, <1>2, ReadType
<1>4. hs.commit <= m.commit
    OBVIOUS
<1> HIDE DEF hs
<1>5. hs.commit <= Len(m.log) /\ m.applied <= Len(m.log) /\ hs.term >= s.term
    BY <1>1, <1>2, <1>3, <1>4
<1>6. Fixed(m.log, m.log, hs.commit) /\ Fixed(m.log, m.log, m.applied)
    BY <1>1, <1>3, <1>5, FixedSelf
<1> QED BY <1>2, <1>4, <1>5, <1>6, Zenon DEF CrashOK, hs

LEMMA SnapSynced ==
    ASSUME file \in Seq(RecordType), buffer \in Seq(RecordType), MemOK(mem, sent),
           AtRest(file, buffer, snaps, mem, sent), mem.snapshot_index < mem.applied
    PROVE  LET B == Append(buffer, SnapRecord(Snapshot))
           IN  /\ B \in Seq(RecordType) /\ B = buffer \o <<SnapRecord(Snapshot)>>
               /\ \A n \in 0..Len(B) : CrashOK(file \o SubSeq(B, 1, n), snaps, mem, sent)
               /\ OnDisk(file \o B, snaps, mem, mem.term, mem.log)
               /\ ReadState(mem.base, file \o B) = HardState(mem)
               /\ Recorded(file \o B, Snapshot)
<1> DEFINE r == SnapRecord(Snapshot)
           B == Append(buffer, r)
           g == file \o buffer
           q == Append(g, r)
           Crashed(p) == CrashOK(p, snaps, mem, sent)
<1>1. /\ mem.base \in Nat /\ mem.log \in Seq(Nat) /\ mem.commit \in Nat /\ mem.term \in Nat
    BY MemFacts
<1>2. /\ Durable(file, buffer, snaps, mem, mem.term, mem.log)
      /\ Latest(file, buffer, mem) = HardState(mem)
      /\ sent.term = mem.term /\ sent.log = mem.log
    BY Zenon DEF AtRest
<1>3. Between(mem, sent, mem.log) /\ sent.term <= mem.term
      /\ Latest(file, buffer, mem).commit = mem.commit
    BY <1>1, <1>2 DEF Between, HardState
<1>4. \A n \in Nat : n <= Len(buffer) =>
         LET p == file \o SubSeq(buffer, 1, n)
         IN  /\ OnDisk(p, snaps, mem, mem.term, mem.log)
             /\ ReadState(mem.base, p).commit <= Latest(file, buffer, mem).commit
             /\ n = Len(buffer) => ReadState(mem.base, p) = Latest(file, buffer, mem)
    BY <1>1, <1>2, Flushed, ZenonT(60)
<1>5. ASSUME NEW n \in Nat, n <= Len(buffer)
      PROVE  Crashed(file \o SubSeq(buffer, 1, n))
  <2> DEFINE p == file \o SubSeq(buffer, 1, n)
  <2>1. OnDisk(p, snaps, mem, mem.term, mem.log)
        /\ ReadState(mem.base, p).commit <= mem.commit
      BY <1>3, <1>4, <1>5, Zenon
  <2> HIDE DEF p
  <2>2. Crashed(p)
      BY <1>3, <2>1, CrashKnown
  <2> QED BY <2>2, Zenon DEF p
<1>6. g \in Seq(RecordType) /\ OnDisk(g, snaps, mem, mem.term, mem.log)
      /\ ReadState(mem.base, g) = HardState(mem)
  <2>1. g = file \o SubSeq(buffer, 1, Len(buffer))
      BY PrefixAll
  <2>2. Len(buffer) \in Nat /\ Len(buffer) <= Len(buffer) /\ g \in Seq(RecordType)
      OBVIOUS
  <2> QED BY <1>2, <1>4, <2>1, <2>2, Zenon
<1> HIDE DEF g
<1>7. /\ OnDisk(q, snaps, mem, mem.term, mem.log) /\ ReadState(mem.base, q) = HardState(mem)
      /\ Recorded(q, Snapshot) /\ r \in RecordType
    BY <1>6, SnapWritten DEF Snapshot
<1>8. Crashed(q)
  <2>1. ReadState(mem.base, q).commit <= mem.commit
      BY <1>1, <1>7 DEF HardState
  <2> HIDE DEF q
  <2> QED BY <1>3, <1>7, <2>1, CrashKnown
<1> HIDE DEF r
<1>9. /\ B \in Seq(RecordType) /\ B = buffer \o <<r>> /\ file \o B = q
      /\ Len(B) = Len(buffer) + 1 /\ Len(buffer) \in Nat /\ SubSeq(B, 1, Len(B)) = B
      /\ \A n \in Nat : n <= Len(buffer) => SubSeq(B, 1, n) = SubSeq(buffer, 1, n)
  <2>1. file \o Append(buffer, r) = Append(file \o buffer, r)
      BY <1>7
  <2> QED BY <1>7, <2>1 DEF g
<1> HIDE DEF Crashed
<1>10. \A n \in 0..Len(B) : Crashed(file \o SubSeq(B, 1, n))
  <2> TAKE n \in 0..Len(B)
  <2> HIDE DEF B
  <2>1. n \in Nat /\ (n <= Len(buffer) \/ n = Len(B))
      BY <1>9
  <2>2. CASE n <= Len(buffer)
    <3>1. SubSeq(B, 1, n) = SubSeq(buffer, 1, n)
        BY <1>9, <2>1, <2>2
    <3> QED BY <1>5, <2>1, <2>2, <3>1, Zenon
  <2>3. CASE n = Len(B)
      BY <1>8, <1>9, <2>3, Zenon
  <2> QED BY <2>1, <2>2, <2>3
<1> QED BY <1>7, <1>9, <1>10, Zenon DEF Crashed, r

-----------------------------------------------------------------------------
(* replay_WAL after a crash.                                               *)

LEMMA LoadFacts ==
    ASSUME MemOK(mem, sent), SnapFiles(snaps, mem), CrashOK(file, snaps, mem, sent)
    PROVE  /\ load \in SnapType /\ load.index \in Nat
           /\ load.index = mem.snapshot_index /\ Recorded(file, load)
<1>1. mem.snapshot_index \in Nat
    BY MemFacts
<1>2. Recorded(file, NoSnap) /\ \A snap \in snaps : Recorded(file, snap)
    BY Zenon DEF CrashOK, SnapsOK
<1>3. snaps \in SUBSET SnapType /\ \A snap \in snaps : snap.index <= mem.snapshot_index
    BY DEF SnapFiles
<1>4. CASE snaps = {}
  <2>1. load = NoSnap /\ mem.snapshot_index = 0
      BY <1>4 DEF load, SnapFiles
  <2>2. NoSnap \in SnapType /\ NoSnap.index = 0
      BY DEF NoSnap, SnapType
  <2> QED BY <1>2, <2>1, <2>2
<1>5. CASE snaps # {}
  <2>1. PICK top \in snaps : top.index = mem.snapshot_index
      BY <1>5 DEF SnapFiles
  <2>2. \A o \in snaps : o.index <= top.index
      BY <1>3, <2>1
  <2>3. load = CHOOSE s \in snaps : \A o \in snaps : o.index <= s.index
      BY <1>5 DEF load
  <2>4. load \in snaps /\ \A o \in snaps : o.index <= load.index
      BY <2>2, <2>3, Zenon
  <2>5. load \in SnapType /\ load.index \in Nat
      BY <1>3, <2>4 DEF SnapType
  <2>6. load.index <= mem.snapshot_index /\ mem.snapshot_index <= load.index
      BY <1>3, <2>1, <2>4
  <2>7. load.index = mem.snapshot_index
      BY <1>1, <2>5, <2>6
  <2> QED BY <1>2, <2>4, <2>5, <2>7
<1> QED BY <1>4, <1>5

LEMMA OneTerm ==
    ASSUME NEW q \in Seq(RecordType), NEW fs, NEW m, SnapsOK(q, fs, m), m.base \in Nat,
           NEW snap \in SnapType, Recorded(q, snap), m.base <= snap.index
    PROVE  /\ snap.index <= ReadState(m.base, q).commit
           /\ \A k \in 1..Len(q) : q[k].type = "snap" /\ q[k].index = snap.index
                 => q[k].term = snap.term
<1>1. PICK l \in 1..Len(q) : q[l] = SnapRecord(snap)
    BY Zenon DEF Recorded
<1>2. q[l].type = "snap" /\ q[l].index = snap.index /\ q[l].term = snap.term
    BY <1>1 DEF SnapRecord
<1>3. snap.index \in Nat
    BY DEF SnapType
<1>4. /\ q[l].index <= ReadState(m.base, q).commit
      /\ q[l].index > m.base => q[l].term = m.log[q[l].index]
    BY <1>2, Zenon DEF SnapsOK
<1>5. ASSUME NEW k \in 1..Len(q), q[k].type = "snap", q[k].index = snap.index
      PROVE  q[k].term = snap.term
  <2>1. CASE snap.index = m.base
    <3>1. q[k].index = m.base /\ q[l].index = m.base
        BY <1>2, <1>5, <2>1
    <3>2. q[k].term = q[l].term
        BY <1>2, <1>5, <3>1, Zenon DEF SnapsOK
    <3> QED BY <1>2, <3>2
  <2>2. CASE snap.index > m.base
    <3>1. q[k].index > m.base => q[k].term = m.log[q[k].index]
        BY <1>5, Zenon DEF SnapsOK
    <3> QED BY <1>2, <1>4, <1>5, <2>2, <3>1
  <2> QED BY <1>3, <2>1, <2>2
<1> QED BY <1>2, <1>4, <1>5

(* What the restarted process finds on disk, beside what a reader from the *)
(* snapshot it had started from before would find.                         *)
LEMMA ReadBack ==
    ASSUME file \in Seq(RecordType), MemOK(mem, sent), SnapFiles(snaps, mem),
           CrashOK(file, snaps, mem, sent)
    PROVE  LET j  == load.index
               x  == ReadLog(mem.base, file)
               y  == ReadLog(j, file)
               hs == ReadState(mem.base, file)
           IN  /\ read_all(load).log = y /\ read_all(load).hs = hs /\ ~read_all(load).fatal
               /\ ReadState(j, file) = hs /\ Sound(file, j)
               /\ x \in Seq(Nat) /\ Len(x) \in Nat /\ y \in Seq(Nat) /\ Len(y) \in Nat
               /\ hs \in HardStates /\ hs.term \in Nat /\ hs.commit \in Nat
               /\ mem.base <= j /\ j <= hs.commit /\ hs.commit <= Len(x) /\ Len(x) <= Len(y)
               /\ \A k \in j+1 .. Len(y) : y[k] # 0
               /\ \A k \in j+1 .. Len(x) : y[k] = x[k]
<1> DEFINE j  == load.index
           x  == ReadLog(mem.base, file)
           y  == ReadLog(j, file)
           hs == ReadState(mem.base, file)
<1>1. /\ mem.base \in Nat /\ mem.snapshot_index \in Nat /\ mem.base <= mem.snapshot_index
    BY MemFacts
<1>2. load \in SnapType /\ j \in Nat /\ j = mem.snapshot_index /\ Recorded(file, load)
    BY LoadFacts
<1>3. mem.base <= j
    BY <1>1, <1>2
<1>4. Sound(file, mem.base) /\ SnapsOK(file, snaps, mem) /\ Fixed(x, mem.log, hs.commit)
    BY Zenon DEF CrashOK
<1>5. x \in Seq(Nat) /\ Len(x) \in Nat /\ hs \in HardStates /\ hs.term \in Nat /\ hs.commit \in Nat
    BY <1>1, ReadType
<1>6. y \in Seq(Nat) /\ Len(y) \in Nat
    BY <1>2, ReadType
<1>7. /\ replay(load, file).log = y /\ replay(load, file).hs = ReadState(j, file)
      /\ replay(load, file).fatal => \E k \in 1..Len(file) :
            file[k].type = "snap" /\ file[k].index = load.index /\ file[k].term # load.term
  <2> DEFINE start == load
  <2> HIDE DEF start
  <2>1. start \in SnapType
      BY <1>2 DEF start
  <2>2. /\ replay(start, file).log = ReadLog(start.index, file)
        /\ replay(start, file).hs = ReadState(start.index, file)
        /\ replay(start, file).fatal => \E k \in 1..Len(file) :
              file[k].type = "snap" /\ file[k].index = start.index /\ file[k].term # start.term
      BY <2>1, ReplayReads
  <2> QED BY <2>2, Zenon DEF start
<1>8. /\ load.index <= ReadState(mem.base, file).commit
      /\ \A k \in 1..Len(file) : file[k].type = "snap" /\ file[k].index = load.index
            => file[k].term = load.term
    BY <1>1, <1>2, <1>3, <1>4, OneTerm
<1>9. read_all(load) = replay(load, file)
    BY DEF read_all
<1>10. ~read_all(load).fatal /\ j <= hs.commit
    BY <1>7, <1>8, <1>9, Zenon
<1>11. /\ ReadState(mem.base, file) = ReadState(j, file)
       /\ Nested(x, y, mem.base, j)
    BY <1>1, <1>2, <1>3, <1>4, SoundFacts
<1>12. /\ Len(x) <= Len(y) /\ \A k \in j+1 .. Len(x) : y[k] = x[k]
    BY <1>5, <1>6, <1>11 DEF Nested
<1> HIDE DEF x, hs
<1>13. Sound(file, j)
  <2> HIDE DEF j, y
  <2> SUFFICES ASSUME NEW a \in Nat, NEW c \in Nat, j <= a, a <= c
               PROVE  /\ ReadState(a, file) = ReadState(c, file)
                      /\ Nested(ReadLog(a, file), ReadLog(c, file), a, c)
      BY Zenon DEF Sound
  <2>1. mem.base <= a
      BY <1>1, <1>2, <1>3
  <2> QED BY <1>4, <2>1, Zenon DEF Sound
<1>14. \A k \in j+1 .. Len(y) : y[k] # 0
  <2>1. Nested(y, y, j, j)
    <3>1. j <= j
        BY <1>2
    <3> QED BY <1>2, <1>13, <3>1, Zenon DEF Sound
  <2> HIDE DEF y, j
  <2> QED BY <2>1, Zenon DEF Nested
<1>15. hs.commit <= Len(x)
    BY <1>4 DEF Fixed
<1> QED BY <1>3, <1>5, <1>6, <1>7, <1>9, <1>10, <1>11, <1>12, <1>13, <1>14, <1>15, Zenon DEF x, hs

LEMMA RestartStep ==
    ASSUME WalInv, Restart
    PROVE  LET j  == load.index
               y  == ReadLog(j, file)
               hs == ReadState(mem.base, file)
           IN  /\ pc = "down" /\ pc' = "idle"
               /\ UNCHANGED <<file, stdio, buffer, dirs, snaps, crashes>>
               /\ mem' \in MemType /\ mem'.base = j /\ mem'.log = y
               /\ mem'.term = hs.term /\ mem'.commit = hs.commit
               /\ mem'.applied = j /\ mem'.snapshot_index = j
               /\ mem'.prev \in {hs, EmptyState} /\ mem'.state = EmptyState
               /\ sent' = [term |-> hs.term, log |-> y]
<1> DEFINE snap == load
           got  == read_all(load)
           j  == load.index
           y  == ReadLog(j, file)
           h  == ReadState(mem.base, file)
           fails == \/ dirs = "dir"
                    \/ got.fatal
                    \/ \E i \in snap.index+1 .. Len(got.log) : got.log[i] = 0
                    \/ load_state_fails(snap, got.hs, got.log)
           hs == IF got.hs = EmptyState THEN [term |-> 0, commit |-> snap.index] ELSE got.hs
           new == [NewProcess(snap, got.log, hs) EXCEPT
                     !.prev = IF got.log = <<>> THEN EmptyState ELSE hs,
                     !.store = IF Len(got.log) = snap.index THEN 1..snap.index ELSE {}]
<1>1. /\ file \in Seq(RecordType) /\ MemOK(mem, sent) /\ SnapFiles(snaps, mem)
      /\ pc = "down" /\ dirs = "wal" /\ CrashOK(file, snaps, mem, sent)
    BY DEF WalInv, Restart
<1>2. /\ got.log = y /\ got.hs = h /\ ~got.fatal
      /\ y \in Seq(Nat) /\ Len(y) \in Nat /\ h \in HardStates /\ h.term \in Nat /\ h.commit \in Nat
      /\ j <= h.commit /\ h.commit <= Len(y)
      /\ \A k \in j+1 .. Len(y) : y[k] # 0
  <2> DEFINE x == ReadLog(mem.base, file)
  <2>1. /\ got.log = y /\ got.hs = h /\ ~got.fatal
        /\ x \in Seq(Nat) /\ Len(x) \in Nat /\ y \in Seq(Nat) /\ Len(y) \in Nat
        /\ h \in HardStates /\ h.term \in Nat /\ h.commit \in Nat
        /\ j <= h.commit /\ h.commit <= Len(x) /\ Len(x) <= Len(y)
        /\ \A k \in j+1 .. Len(y) : y[k] # 0
      BY <1>1, ReadBack, Zenon
  <2>2. h.commit <= Len(y)
    <3> HIDE DEF x, y, h
    <3> QED BY <2>1
  <2> QED BY <2>1, <2>2, Zenon
<1>3. j \in Nat /\ load = [index |-> j, term |-> load.term]
    BY <1>1, LoadFacts DEF SnapType
<1>4. IF fails THEN pc' = "fatal" /\ UNCHANGED <<mem, sent>>
      ELSE /\ pc' = "idle" /\ mem' = new /\ sent' = [term |-> hs.term, log |-> got.log]
    BY Zenon DEF Restart
<1>5. ~fails
  <2>1. ~load_state_fails(snap, got.hs, got.log)
    <3>1. h.commit \in j .. Len(y)
      <4> HIDE DEF j, y, h
      <4> QED BY <1>2, <1>3
    <3> QED BY <1>2, <3>1, Zenon DEF load_state_fails
  <2>2. dirs # "dir"
      BY <1>1
  <2>3. ~\E i \in snap.index+1 .. Len(got.log) : got.log[i] = 0
      BY <1>2, Zenon
  <2> QED BY <1>2, <2>1, <2>2, <2>3
<1>6. hs = h
  <2>1. CASE h = EmptyState
    <3>1. j = 0
      <4>1. h.commit = 0
          BY <2>1 DEF EmptyState
      <4> HIDE DEF j, h, y
      <4> QED BY <1>2, <1>3, <4>1
    <3>2. [term |-> 0, commit |-> snap.index] = EmptyState
        BY <3>1 DEF EmptyState
    <3> QED BY <1>2, <2>1, <3>2
  <2>2. CASE h # EmptyState
      BY <1>2, <2>2
  <2> QED BY <2>1, <2>2
<1>7. mem' = [NewProcess(load, y, h) EXCEPT
                !.prev = IF y = <<>> THEN EmptyState ELSE h,
                !.store = IF Len(y) = j THEN 1..j ELSE {}]
      /\ pc' = "idle" /\ sent' = [term |-> h.term, log |-> y]
    BY <1>2, <1>4, <1>5, <1>6, Zenon
<1>8. UNCHANGED <<file, stdio, buffer, dirs, snaps, crashes>>
    BY DEF Restart
<1> HIDE DEF y, h, j
<1>9. EmptyState \in HardStates /\ (IF Len(y) = j THEN 1..j ELSE {}) \in SUBSET Nat
    BY <1>3 DEF EmptyState, HardStates
<1>10. /\ mem'.base = j /\ mem'.log = y
       /\ mem'.term = h.term /\ mem'.commit = h.commit
       /\ mem'.applied = j /\ mem'.snapshot_index = j
       /\ mem'.prev \in {h, EmptyState} /\ mem'.state = EmptyState
    BY <1>3, <1>7 DEF NewProcess, j
<1>11. mem' \in MemType
    BY <1>2, <1>3, <1>7, <1>9 DEF NewProcess, MemType, j
<1> QED BY <1>1, <1>7, <1>8, <1>10, <1>11, Zenon DEF y, h, j

-----------------------------------------------------------------------------
(* WalInv is inductive.                                                    *)

Running == {"save", "apply", "trigger", "snapfile", "idle"}

(* WalInv in the next state, for a process that runs there.                *)
LEMMA StillRunning ==
    ASSUME WalInv, pc \notin {"new", "create", "start"},
           UNCHANGED <<stdio, dirs>>, pc' \in Running,
           file' \in Seq(RecordType), buffer' \in Seq(RecordType),
           MemOK(mem', sent'), SnapFiles(snaps', mem'),
           pc' = "save" => AtSave(file', buffer', snaps', mem', sent'),
           pc' = "apply" => AtApply(file', buffer', snaps', mem', sent'),
           pc' \in {"trigger", "snapfile", "idle"} => AtRest(file', buffer', snaps', mem', sent'),
           pc' = "snapfile" => AtSnapfile(file', mem')
    PROVE  WalInv'
<1>1. stdio' = <<>> /\ dirs' = "wal"
    BY DEF WalInv
<1>2. pc' \notin {"new", "create", "start"} /\ pc' # "down"
      /\ pc' \in {"new", "create", "start", "save", "apply", "trigger", "snapfile", "idle", "down"}
    BY DEF Running
<1> QED BY <1>1, <1>2, Zenon DEF WalInv

LEMMA RestartInv ==
    ASSUME WalInv, Restart
    PROVE  WalInv'
<1> DEFINE j  == load.index
           x  == ReadLog(mem.base, file)
           y  == ReadLog(j, file)
           hs == ReadState(mem.base, file)
<1>1. /\ file \in Seq(RecordType) /\ MemOK(mem, sent) /\ SnapFiles(snaps, mem)
      /\ pc = "down" /\ buffer = <<>> /\ CrashOK(file, snaps, mem, sent)
    BY DEF WalInv, Restart
<1>2. /\ pc' = "idle" /\ UNCHANGED <<file, stdio, buffer, dirs, snaps, crashes>>
      /\ mem' \in MemType /\ mem'.base = j /\ mem'.log = y
      /\ mem'.term = hs.term /\ mem'.commit = hs.commit
      /\ mem'.applied = j /\ mem'.snapshot_index = j
      /\ mem'.prev \in {hs, EmptyState} /\ mem'.state = EmptyState
      /\ sent' = [term |-> hs.term, log |-> y]
    BY RestartStep, Zenon
<1>3. /\ ReadState(j, file) = hs /\ Sound(file, j)
      /\ x \in Seq(Nat) /\ Len(x) \in Nat /\ y \in Seq(Nat) /\ Len(y) \in Nat
      /\ hs \in HardStates /\ hs.term \in Nat /\ hs.commit \in Nat
      /\ mem.base <= j /\ j <= hs.commit /\ hs.commit <= Len(x) /\ Len(x) <= Len(y)
      /\ \A k \in j+1 .. Len(y) : y[k] # 0
      /\ \A k \in j+1 .. Len(x) : y[k] = x[k]
    BY <1>1, ReadBack, Zenon
<1>4. load \in SnapType /\ j \in Nat /\ j = mem.snapshot_index /\ Recorded(file, load)
      /\ mem.base \in Nat
    BY <1>1, LoadFacts, MemFacts
<1>5. SnapsOK(file, snaps, mem) /\ Fixed(x, mem.log, hs.commit)
    BY <1>1, Zenon DEF CrashOK
<1>6. /\ \A k \in 1..Len(file) : file[k].type = "snap" /\ file[k].index = load.index
            => file[k].term = load.term
    BY <1>1, <1>3, <1>4, <1>5, OneTerm
<1>7. sent'.term = hs.term /\ sent'.log = y /\ sent' \in [term : Nat, log : Seq(Nat)]
    BY <1>2, <1>3
<1> HIDE DEF j, x, y, hs
<1>8. MemOK(mem', sent')
  <2>1. j <= j /\ hs.commit <= Len(y)
      BY <1>3, <1>4
  <2> QED BY <1>2, <1>3, <1>7, <2>1, Zenon DEF MemOK
<1>9. SnapFiles(snaps', mem')
  <2>1. snaps' = snaps /\ mem'.snapshot_index = mem.snapshot_index
      BY <1>2, <1>4
  <2> QED BY <1>1, <2>1, Zenon DEF SnapFiles
<1>10. SnapsOK(file', snaps', mem')
  <2>1. ASSUME NEW k \in 1..Len(file), file[k].type = "snap"
        PROVE  /\ file[k].index <= ReadState(mem'.base, file).commit
               /\ file[k].index > mem'.base => file[k].term = mem'.log[file[k].index]
    <3>1. /\ file[k].index <= hs.commit
          /\ file[k].index > mem.base => file[k].term = mem.log[file[k].index]
        BY <1>5, <2>1, Zenon DEF SnapsOK, hs
    <3>2. file[k] \in RecordType
        BY <1>1
    <3>3. file[k].index \in Nat
        BY <3>2 DEF RecordType
    <3>4. ReadState(mem'.base, file) = hs
        BY <1>2, <1>3
    <3>5. ASSUME file[k].index > j
          PROVE  file[k].term = y[file[k].index]
      <4> DEFINE i == file[k].index
      <4>1. i \in Nat /\ i > j /\ i <= hs.commit /\ (i > mem.base => file[k].term = mem.log[i])
          BY <3>1, <3>3, <3>5
      <4> HIDE DEF i
      <4>2. i \in 1..hs.commit /\ i \in j+1 .. Len(x) /\ i > mem.base
        <5>1. \A b, d, c, l \in Nat : b <= d /\ c <= l /\ i > d /\ i <= c =>
                 i \in 1..c /\ i \in d+1 .. l /\ i > b
            BY <4>1
        <5> QED BY <1>3, <1>4, <4>1, <5>1, Zenon
      <4>3. x[i] = mem.log[i] /\ y[i] = x[i]
          BY <1>3, <1>5, <4>2 DEF Fixed
      <4> QED BY <4>1, <4>2, <4>3 DEF i
    <3> QED BY <1>2, <3>1, <3>4, <3>5
  <2>2. Recorded(file, NoSnap) /\ \A snap \in snaps : Recorded(file, snap)
      BY <1>5, Zenon DEF SnapsOK
  <2>3. \A k, l \in 1..Len(file) :
          /\ file[k].type = "snap" /\ file[k].index = mem'.base
          /\ file[l].type = "snap" /\ file[l].index = mem'.base
          => file[k].term = file[l].term
    <3>1. mem'.base = load.index
        BY <1>2 DEF j
    <3> QED BY <1>6, <3>1
  <2>4. SnapsOK(file, snaps, mem')
      BY <2>1, <2>2, <2>3, Zenon DEF SnapsOK
  <2> QED BY <1>2, <2>4
<1>11. AtRest(file', buffer', snaps', mem', sent')
  <2>1. HardState(mem') = hs
      BY <1>2, <1>3 DEF HardState, HardStates
  <2>2. OnDisk(file', snaps', mem', mem'.term, mem'.log)
    <3>1. file' = file
        BY <1>2
    <3>2. ReadLog(mem'.base, file') = mem'.log /\ ReadState(mem'.base, file').term = mem'.term
      <4>1. ReadLog(mem'.base, file') = y
          BY <1>2, <3>1 DEF y
      <4> QED BY <1>2, <1>3, <3>1, <4>1
    <3>3. file' \in Seq(RecordType) /\ Sound(file', mem'.base)
        BY <1>1, <1>2, <1>3, <3>1
    <3> QED BY <1>10, <3>2, <3>3, Zenon DEF OnDisk
  <2>3. ReadState(mem'.base, file') = HardState(mem') /\ file' \in Seq(RecordType)
      BY <1>1, <1>2, <1>3, <2>1
  <2>4. Durable(file', <<>>, snaps', mem', mem'.term, mem'.log)
        /\ Latest(file', <<>>, mem') = HardState(mem')
      BY <1>8, <2>2, <2>3, SaveDone
  <2>5. buffer' = <<>>
      BY <1>1, <1>2
  <2>6. mem'.state.term <= mem'.term
      BY <1>2, <1>3 DEF EmptyState
  <2>7. sent'.term = mem'.term /\ sent'.log = mem'.log
      BY <1>2, <1>7
  <2>8. mem'.prev \in {HardState(mem'), EmptyState}
      BY <1>2, <2>1
  <2> QED BY <2>4, <2>5, <2>6, <2>7, <2>8, Zenon DEF AtRest
<1>12. buffer' \in Seq(RecordType) /\ file' \in Seq(RecordType)
    BY <1>1, <1>2
<1>13. pc' \in Running /\ UNCHANGED <<stdio, dirs>> /\ pc \notin {"new", "create", "start"}
       /\ pc' = "idle"
    BY <1>1, <1>2 DEF Running
<1> QED BY <1>8, <1>9, <1>11, <1>12, <1>13, StillRunning

LEMMA RestFacts ==
    ASSUME WalInv, pc \in {"trigger", "snapfile", "idle"}
    PROVE  /\ file \in Seq(RecordType) /\ buffer \in Seq(RecordType) /\ MemOK(mem, sent)
           /\ SnapFiles(snaps, mem) /\ AtRest(file, buffer, snaps, mem, sent)
           /\ Durable(file, buffer, snaps, mem, mem.term, mem.log)
           /\ Latest(file, buffer, mem) = HardState(mem)
           /\ Latest(file, buffer, mem).commit = mem.commit
           /\ Latest(file, buffer, mem).term = mem.term
           /\ sent.term = mem.term /\ sent.log = mem.log /\ mem.state.term <= mem.term
           /\ mem.prev \in {HardState(mem), EmptyState}
           /\ \A k \in mem.base+1 .. Len(mem.log) : mem.log[k] # 0
<1>1. /\ file \in Seq(RecordType) /\ buffer \in Seq(RecordType) /\ MemOK(mem, sent)
      /\ SnapFiles(snaps, mem) /\ AtRest(file, buffer, snaps, mem, sent)
    BY DEF WalInv
<1>2. /\ Durable(file, buffer, snaps, mem, mem.term, mem.log)
      /\ Latest(file, buffer, mem) = HardState(mem)
      /\ sent.term = mem.term /\ sent.log = mem.log /\ mem.state.term <= mem.term
      /\ mem.prev \in {HardState(mem), EmptyState}
    BY <1>1, Zenon DEF AtRest
<1>3. Latest(file, buffer, mem).commit = mem.commit /\ Latest(file, buffer, mem).term = mem.term
    BY <1>2 DEF HardState
<1>4. \A k \in mem.base+1 .. Len(mem.log) : mem.log[k] # 0
  <2>1. Sound(file, mem.base) /\ ReadLog(mem.base, file) = mem.log
      BY <1>2, Zenon DEF Durable
  <2>2. mem.base \in Nat /\ mem.base <= mem.base
      BY <1>1, MemFacts
  <2>3. Nested(ReadLog(mem.base, file), ReadLog(mem.base, file), mem.base, mem.base)
      BY <2>1, <2>2, Zenon DEF Sound
  <2>4. Nested(mem.log, mem.log, mem.base, mem.base)
      BY <2>1, <2>3, Zenon
  <2> QED BY <2>4, Zenon DEF Nested
<1> QED BY <1>1, <1>2, <1>3, <1>4

(* Something happens to a server at rest: entries after the commit index,  *)
(* a higher commit index, a new term.                                      *)
LEMMA EventInv ==
    ASSUME WalInv, pc = "idle", pc' = "save",
           UNCHANGED <<file, stdio, buffer, dirs, snaps, sent, crashes>>,
           mem' \in MemType, mem'.base = mem.base, mem'.applied = mem.applied,
           mem'.snapshot_index = mem.snapshot_index, mem'.prev = mem.prev, mem'.state = mem.state,
           mem.term <= mem'.term, mem.commit <= mem'.commit, mem'.commit <= Len(mem'.log),
           Fixed(mem.log, mem'.log, mem.commit),
           mem'.log = mem.log \/ \E a \in Nat : mem.commit <= a /\ NewAfter(mem', sent, a),
           \A k \in mem.base+1 .. Len(mem'.log) : mem'.log[k] # 0,
           HardState(mem') \in {mem.prev, EmptyState} => HardState(mem') = HardState(mem)
    PROVE  WalInv'
<1>1. /\ file \in Seq(RecordType) /\ buffer \in Seq(RecordType) /\ MemOK(mem, sent)
      /\ SnapFiles(snaps, mem)
      /\ Durable(file, buffer, snaps, mem, mem.term, mem.log)
      /\ Latest(file, buffer, mem) = HardState(mem)
      /\ Latest(file, buffer, mem).commit = mem.commit
      /\ sent.term = mem.term /\ sent.log = mem.log /\ mem.state.term <= mem.term
    BY RestFacts
<1>2. /\ mem.base \in Nat /\ mem.commit \in Nat /\ mem.applied \in Nat
      /\ mem.base <= mem.snapshot_index /\ mem.snapshot_index <= mem.applied
      /\ mem.applied <= mem.commit /\ mem'.commit \in Nat
    BY <1>1, MemFacts DEF MemType
<1>3. MemOK(mem', sent')
  <2>1. sent' = sent /\ sent \in [term : Nat, log : Seq(Nat)]
      BY <1>1 DEF MemOK
  <2>2. mem'.applied <= mem'.commit
      BY <1>2
  <2>3. mem'.base <= mem'.snapshot_index /\ mem'.snapshot_index <= mem'.applied
      BY <1>2
  <2> QED BY <2>1, <2>2, <2>3, Zenon DEF MemOK
<1>4. SnapFiles(snaps', mem')
  <2>1. snaps' = snaps
      OBVIOUS
  <2> QED BY <1>1, <2>1, Zenon DEF SnapFiles
<1>5. Durable(file, buffer, snaps, mem', mem.term, mem.log)
      /\ Latest(file, buffer, mem') = Latest(file, buffer, mem)
  <2> DEFINE w == mem'
  <2>1. w.base = mem.base /\ Fixed(mem.log, w.log, Latest(file, buffer, mem).commit)
      BY <1>1
  <2> HIDE DEF w
  <2>2. Durable(file, buffer, snaps, w, mem.term, mem.log)
        /\ Latest(file, buffer, w) = Latest(file, buffer, mem)
      BY <1>1, <1>2, <2>1, DurableOther
  <2> QED BY <2>2 DEF w
<1>6. AtSave(file', buffer', snaps', mem', sent')
  <2>1. file' = file /\ buffer' = buffer /\ snaps' = snaps /\ sent' = sent
      OBVIOUS
  <2>2. Durable(file, buffer, snaps, mem', sent.term, sent.log)
      BY <1>1, <1>5
  <2>3. Latest(file, buffer, mem').commit = mem.commit
      BY <1>1, <1>5
  <2>4. Fixed(sent.log, mem'.log, Latest(file, buffer, mem').commit)
      BY <1>1, <2>3
  <2>5. mem'.log = sent.log
        \/ \E a \in Nat : Latest(file, buffer, mem').commit <= a /\ NewAfter(mem', sent, a)
      BY <1>1, <2>3
  <2>6. \A k \in mem'.base+1 .. Len(mem'.log) : mem'.log[k] # 0
      OBVIOUS
  <2>7. HardState(mem') \in {mem'.prev, EmptyState} => Latest(file, buffer, mem') = HardState(mem')
      BY <1>1, <1>5
  <2>8. /\ sent.term <= mem'.term /\ mem'.state.term <= sent.term
        /\ mem'.applied <= Latest(file, buffer, mem').commit
        /\ Latest(file, buffer, mem').commit <= mem'.commit
      BY <1>1, <1>2, <2>3
  <2>9. AtSave(file, buffer, snaps, mem', sent)
      BY <2>2, <2>4, <2>5, <2>6, <2>7, <2>8, Zenon DEF AtSave
  <2> QED BY <2>1, <2>9
<1>7. buffer' \in Seq(RecordType) /\ file' \in Seq(RecordType)
    BY <1>1
<1>8. pc' \in Running /\ UNCHANGED <<stdio, dirs>> /\ pc \notin {"new", "create", "start"}
    BY DEF Running
<1> QED BY <1>3, <1>4, <1>6, <1>7, <1>8, StillRunning

LEMMA NewTermInv ==
    ASSUME WalInv, NewTerm
    PROVE  WalInv'
<1>1. /\ MemOK(mem, sent) /\ mem.prev \in {HardState(mem), EmptyState}
      /\ \A k \in mem.base+1 .. Len(mem.log) : mem.log[k] # 0
    BY RestFacts DEF NewTerm
<1>2. /\ mem \in MemType /\ mem.term \in Nat /\ mem.commit \in Nat /\ mem.log \in Seq(Nat)
      /\ mem.commit <= Len(mem.log)
    BY <1>1, MemFacts DEF MemOK
<1>3. mem' = [mem EXCEPT !.term = mem.term + 1, !.matched = 0]
    BY DEF NewTerm
<1>4. /\ mem' \in MemType /\ mem'.base = mem.base /\ mem'.applied = mem.applied
      /\ mem'.snapshot_index = mem.snapshot_index /\ mem'.prev = mem.prev /\ mem'.state = mem.state
      /\ mem'.term = mem.term + 1 /\ mem'.commit = mem.commit /\ mem'.log = mem.log
  <2> DEFINE t == mem.term + 1
  <2>1. t \in Nat
      BY <1>2
  <2>2. mem' = [mem EXCEPT !.term = t, !.matched = 0]
      BY <1>3
  <2> HIDE DEF t
  <2>3. mem' \in MemType
      BY <1>2, <2>1, <2>2 DEF MemType
  <2>4. /\ mem'.base = mem.base /\ mem'.applied = mem.applied
        /\ mem'.snapshot_index = mem.snapshot_index /\ mem'.prev = mem.prev
        /\ mem'.state = mem.state /\ mem'.term = t
        /\ mem'.commit = mem.commit /\ mem'.log = mem.log
      BY <1>2, <2>2 DEF MemType
  <2> QED BY <2>3, <2>4 DEF t
<1>5. mem.term <= mem'.term /\ mem.commit <= mem'.commit /\ mem'.commit <= Len(mem'.log)
    BY <1>2, <1>4
<1>6. Fixed(mem.log, mem'.log, mem.commit)
    BY <1>2, <1>4, FixedSelf
<1>7. HardState(mem') \notin {mem.prev, EmptyState}
  <2>1. HardState(mem').term = mem.term + 1 /\ HardState(mem).term = mem.term /\ EmptyState.term = 0
      BY <1>4 DEF HardState, EmptyState
  <2>2. mem.term + 1 # mem.term /\ mem.term + 1 # 0
      BY <1>2
  <2>3. HardState(mem') # HardState(mem) /\ HardState(mem') # EmptyState
      BY <2>1, <2>2
  <2> QED BY <1>1, <2>3
<1>8. \A k \in mem.base+1 .. Len(mem'.log) : mem'.log[k] # 0
    BY <1>1, <1>4
<1>9. /\ pc = "idle" /\ pc' = "save"
      /\ UNCHANGED <<file, stdio, buffer, dirs, snaps, sent, crashes>>
    BY DEF NewTerm
<1> QED BY <1>4, <1>5, <1>6, <1>7, <1>8, <1>9, EventInv

LEMMA CommitInv ==
    ASSUME WalInv, Commit
    PROVE  WalInv'
<1>1. /\ MemOK(mem, sent) /\ mem.prev \in {HardState(mem), EmptyState}
      /\ \A k \in mem.base+1 .. Len(mem.log) : mem.log[k] # 0
    BY RestFacts DEF Commit
<1>2. /\ mem \in MemType /\ mem.term \in Nat /\ mem.commit \in Nat /\ mem.log \in Seq(Nat)
      /\ mem.commit <= Len(mem.log) /\ Len(mem.log) \in Nat
    BY <1>1, MemFacts DEF MemOK
<1>3. PICK c \in mem.commit+1 .. Len(mem.log) : mem' = [mem EXCEPT !.commit = c]
    BY DEF Commit
<1>4. c \in Nat /\ c > mem.commit /\ c <= Len(mem.log)
    BY <1>2
<1>5. /\ mem' \in MemType /\ mem'.base = mem.base /\ mem'.applied = mem.applied
      /\ mem'.snapshot_index = mem.snapshot_index /\ mem'.prev = mem.prev /\ mem'.state = mem.state
      /\ mem'.term = mem.term /\ mem'.commit = c /\ mem'.log = mem.log
    BY <1>2, <1>3, <1>4 DEF MemType
<1>6. mem.term <= mem'.term /\ mem.commit <= mem'.commit /\ mem'.commit <= Len(mem'.log)
    BY <1>2, <1>4, <1>5
<1>7. Fixed(mem.log, mem'.log, mem.commit)
    BY <1>2, <1>5, FixedSelf
<1>8. HardState(mem') \notin {mem.prev, EmptyState}
  <2>1. HardState(mem').commit = c /\ HardState(mem).commit = mem.commit /\ EmptyState.commit = 0
      BY <1>5 DEF HardState, EmptyState
  <2>2. c # mem.commit /\ c # 0
      BY <1>2, <1>4
  <2>3. HardState(mem') # HardState(mem) /\ HardState(mem') # EmptyState
      BY <2>1, <2>2
  <2> QED BY <1>1, <2>3
<1>9. \A k \in mem.base+1 .. Len(mem'.log) : mem'.log[k] # 0
    BY <1>1, <1>5
<1>10. /\ pc = "idle" /\ pc' = "save"
       /\ UNCHANGED <<file, stdio, buffer, dirs, snaps, sent, crashes>>
    BY DEF Commit
<1> QED BY <1>5, <1>6, <1>7, <1>8, <1>9, <1>10, EventInv

LEMMA AtLeast ==
    ASSUME NEW a \in Nat, NEW b \in Nat
    PROVE  Max({a, b}) \in Nat /\ a <= Max({a, b})
<1> DEFINE m == IF a <= b THEN b ELSE a
<1>1. m \in {a, b} /\ \A y \in {a, b} : m >= y
    OBVIOUS
<1>2. \A x \in {a, b} : (\A y \in {a, b} : x >= y) => x = m
    OBVIOUS
<1> HIDE DEF m
<1>3. Max({a, b}) = m
    BY <1>1, <1>2, Zenon DEF Max
<1> QED BY <1>1, <1>3

(* A log whose suffix is replaced.                                         *)
LEMMA Replaced ==
    ASSUME NEW log \in Seq(Nat), NEW a \in Nat, a <= Len(log), NEW n \in Nat, NEW t \in Nat
    PROVE  LET w == SubSeq(log, 1, a) \o [k \in 1..n |-> t]
           IN  /\ w \in Seq(Nat) /\ Len(w) = a + n
               /\ \A k \in 1..a : w[k] = log[k]
               /\ \A k \in a+1 .. a+n : w[k] = t
<1> DEFINE x == SubSeq(log, 1, a)
           y == [k \in 1..n |-> t]
<1>1. x \in Seq(Nat) /\ Len(x) = a /\ \A k \in 1..a : x[k] = log[k]
    OBVIOUS
<1>2. y \in Seq(Nat) /\ Len(y) = n /\ \A k \in 1..n : y[k] = t
    OBVIOUS
<1> HIDE DEF x, y
<1>3. /\ x \o y \in Seq(Nat) /\ Len(x \o y) = a + n
      /\ \A k \in 1..a : (x \o y)[k] = x[k]
      /\ \A k \in a+1 .. a+n : (x \o y)[k] = y[k - a] /\ k - a \in 1..n
  <2>1. \A u, v \in Seq(Nat) :
           /\ u \o v \in Seq(Nat) /\ Len(u \o v) = Len(u) + Len(v)
           /\ \A k \in 1..Len(u) : (u \o v)[k] = u[k]
           /\ \A k \in Len(u)+1 .. Len(u)+Len(v) : (u \o v)[k] = v[k - Len(u)]
      OBVIOUS
  <2>2. \A k \in a+1 .. a+n : k - a \in 1..n
      OBVIOUS
  <2>3. /\ x \o y \in Seq(Nat) /\ Len(x \o y) = Len(x) + Len(y)
        /\ \A k \in 1..Len(x) : (x \o y)[k] = x[k]
        /\ \A k \in Len(x)+1 .. Len(x)+Len(y) : (x \o y)[k] = y[k - Len(x)]
      BY <1>1, <1>2, <2>1, Zenon
  <2>4. Len(x) = a /\ Len(y) = n
      BY <1>1, <1>2
  <2> QED BY <2>2, <2>3, <2>4
<1>4. \A k \in a+1 .. a+n : (x \o y)[k] = t
    BY <1>2, <1>3, Zenon
<1> QED BY <1>1, <1>3, <1>4 DEF x, y

LEMMA NewEntriesInv ==
    ASSUME WalInv, NewEntries
    PROVE  WalInv'
<1>1. /\ MemOK(mem, sent) /\ mem.prev \in {HardState(mem), EmptyState} /\ sent.log = mem.log
      /\ \A k \in mem.base+1 .. Len(mem.log) : mem.log[k] # 0
    BY RestFacts DEF NewEntries
<1>2. /\ mem \in MemType /\ mem.term \in Nat /\ mem.commit \in Nat /\ mem.log \in Seq(Nat)
      /\ mem.commit <= Len(mem.log) /\ Len(mem.log) \in Nat /\ mem.matched \in Nat
      /\ mem.base \in Nat /\ mem.base <= mem.commit
  <2>1. mem \in MemType
      BY <1>1 DEF MemOK
  <2>2. mem.matched \in Nat
      BY <2>1 DEF MemType
  <2>3. /\ mem.term \in Nat /\ mem.commit \in Nat /\ mem.log \in Seq(Nat)
        /\ mem.commit <= Len(mem.log) /\ Len(mem.log) \in Nat
        /\ mem.base \in Nat /\ mem.base <= mem.applied /\ mem.applied <= mem.commit
        /\ mem.applied \in Nat
      BY <1>1, MemFacts
  <2> QED BY <2>1, <2>2, <2>3
<1>3. PICK a \in Max({mem.commit, mem.matched}) .. Len(mem.log), n \in 1..2, t \in 1..mem.term :
      \E c \in {mem.commit, a + n} :
         /\ a + n <= MaxIndex
         /\ t >= TermAt(a)
         /\ a < Len(mem.log) => t # mem.log[a + 1]
         /\ mem' = [mem EXCEPT !.log = SubSeq(@, 1, a) \o [k \in 1..n |-> t],
                               !.matched = a + n, !.commit = c]
    BY Zenon DEF NewEntries
<1>4. PICK c \in {mem.commit, a + n} :
         /\ a + n <= MaxIndex
         /\ t >= TermAt(a)
         /\ a < Len(mem.log) => t # mem.log[a + 1]
         /\ mem' = [mem EXCEPT !.log = SubSeq(@, 1, a) \o [k \in 1..n |-> t],
                               !.matched = a + n, !.commit = c]
    BY <1>3, Zenon
<1> DEFINE w == SubSeq(mem.log, 1, a) \o [k \in 1..n |-> t]
           e == a + n
<1>5. a \in Nat /\ a <= Len(mem.log) /\ mem.commit <= a
  <2>1. Max({mem.commit, mem.matched}) \in Nat /\ mem.commit <= Max({mem.commit, mem.matched})
      BY <1>2, AtLeast
  <2> HIDE DEF w
  <2> QED BY <1>2, <2>1
<1>6. n \in Nat /\ n # 0 /\ t \in Nat /\ t # 0 /\ e \in Nat /\ e > a /\ mem.term # 0
    BY <1>2, <1>5
<1>7. /\ w \in Seq(Nat) /\ Len(w) = e /\ \A k \in 1..a : w[k] = mem.log[k]
      /\ \A k \in a+1 .. e : w[k] = t
    BY <1>2, <1>5, <1>6, Replaced, SMTT(30)
<1>8. mem' = [mem EXCEPT !.log = w, !.matched = e, !.commit = c]
      /\ c \in {mem.commit, e} /\ (a < Len(mem.log) => t # mem.log[a + 1])
    BY <1>4
<1> HIDE DEF w
<1>9. c \in Nat /\ mem.commit <= c /\ c <= e /\ mem.commit <= e
  <2> HIDE DEF e
  <2> QED BY <1>2, <1>5, <1>6, <1>8
<1> HIDE DEF e
<1>10. mem' \in MemType
    BY <1>2, <1>6, <1>7, <1>8, <1>9 DEF MemType
<1>11. /\ mem'.base = mem.base /\ mem'.applied = mem.applied
       /\ mem'.snapshot_index = mem.snapshot_index /\ mem'.prev = mem.prev
       /\ mem'.state = mem.state /\ mem'.term = mem.term /\ mem'.commit = c /\ mem'.log = w
    BY <1>2, <1>8 DEF MemType
<1>12. mem.term <= mem'.term /\ mem.commit <= mem'.commit /\ mem'.commit <= Len(mem'.log)
    BY <1>2, <1>7, <1>9, <1>11
<1>13. Fixed(mem.log, w, a)
  <2>1. a <= Len(w) /\ a <= Len(mem.log)
      BY <1>5, <1>6, <1>7
  <2> QED BY <1>7, <2>1 DEF Fixed
<1>14. Fixed(mem.log, mem'.log, mem.commit)
    BY <1>2, <1>5, <1>7, <1>11, <1>13, FixedLess
<1>15. NewAfter(mem', sent, a)
  <2>1. a < Len(mem'.log)
      BY <1>6, <1>7, <1>11
  <2>2. a < Len(mem.log) => mem.log[a + 1] # w[a + 1]
    <3>1. a + 1 \in a+1 .. e
        BY <1>5, <1>6
    <3> QED BY <1>7, <1>8, <3>1
  <2> QED BY <1>1, <1>11, <1>13, <2>1, <2>2, Zenon DEF NewAfter
<1>16. HardState(mem') \in {mem.prev, EmptyState} => HardState(mem') = HardState(mem)
  <2>1. HardState(mem').term = mem.term /\ EmptyState.term = 0
      BY <1>11 DEF HardState, EmptyState
  <2>2. HardState(mem') # EmptyState
      BY <1>6, <2>1
  <2> QED BY <1>1, <2>2
<1>17. \A k \in mem.base+1 .. Len(mem'.log) : mem'.log[k] # 0
  <2> TAKE k \in mem.base+1 .. Len(mem'.log)
  <2>1. k \in mem.base+1 .. e /\ mem'.log[k] = w[k]
      BY <1>7, <1>11
  <2>2. CASE k <= a
    <3>1. k \in 1..a /\ k \in mem.base+1 .. Len(mem.log)
        BY <1>2, <1>5, <1>6, <2>1, <2>2
    <3> QED BY <1>1, <1>7, <2>1, <3>1
  <2>3. CASE ~(k <= a)
    <3>1. k \in a+1 .. e
        BY <1>2, <1>5, <1>6, <2>1, <2>3
    <3> QED BY <1>6, <1>7, <2>1, <3>1
  <2> QED BY <2>2, <2>3
<1>18. /\ pc = "idle" /\ pc' = "save"
       /\ UNCHANGED <<file, stdio, buffer, dirs, snaps, sent, crashes>>
    BY DEF NewEntries
<1>19. mem'.log = mem.log \/ \E i \in Nat : mem.commit <= i /\ NewAfter(mem', sent, i)
    BY <1>5, <1>15
<1> QED BY <1>10, <1>11, <1>12, <1>14, <1>16, <1>17, <1>18, <1>19, EventInv

(* After a save, synced or not.                                            *)
LEMMA Saved ==
    ASSUME NEW f, NEW b, NEW fs, NEW m, NEW s,
           f \in Seq(RecordType), b \in Seq(RecordType), MemOK(m, s),
           Durable(f, b, fs, m, m.term, m.log), Latest(f, b, m) = HardState(m),
           s.term <= m.term, m.state.term <= m.term, Between(m, s, m.log),
           NEW w, w.base = m.base, w.log = m.log, w.term = m.term, w.commit = m.commit,
           w.applied = m.applied, w.state.term <= w.term
    PROVE  AtApply(f, b, fs, w, s)
<1>1. m.base \in Nat /\ m.commit \in Nat /\ m.log \in Seq(Nat) /\ m.commit <= Len(m.log)
    BY MemFacts
<1>2. Latest(f, b, m).commit = m.commit
    BY DEF HardState
<1>3. Fixed(m.log, w.log, Latest(f, b, m).commit)
    BY <1>1, <1>2, FixedSelf
<1>4. Durable(f, b, fs, w, m.term, m.log) /\ Latest(f, b, w) = Latest(f, b, m)
    BY <1>1, <1>3, DurableOther, SMTT(30)
<1>5. Durable(f, b, fs, w, w.term, w.log)
    BY <1>4
<1>6. Latest(f, b, w) = HardState(w)
    BY <1>4 DEF HardState
<1>7. Between(w, s, w.log)
    BY DEF Between, NewAfter
<1>8. s.term <= w.term /\ w.state.term <= w.term
    OBVIOUS
<1> QED BY <1>5, <1>6, <1>7, <1>8, Zenon DEF AtApply

LEMMA SaveInv ==
    ASSUME WalInv, Save, SyncFlushes
    PROVE  WalInv'
<1> DEFINE B == buffer \o Batch
           last == Latest(file, buffer, mem)
<1>1. /\ file \in Seq(RecordType) /\ buffer \in Seq(RecordType) /\ MemOK(mem, sent)
      /\ SnapFiles(snaps, mem) /\ AtSave(file, buffer, snaps, mem, sent)
      /\ pc = "save" /\ pc' = "apply" /\ UNCHANGED <<dirs, snaps, sent, crashes>> /\ stdio = <<>>
    BY DEF WalInv, Save
<1>2. /\ mem \in MemType /\ mem.term \in Nat /\ mem.commit \in Nat /\ sent.term \in Nat
      /\ mem.state.term \in Nat /\ mem.base \in Nat /\ mem.log \in Seq(Nat)
    BY <1>1, MemFacts DEF MemOK
<1>3. /\ Durable(file, buffer, snaps, mem, sent.term, sent.log)
      /\ sent.term <= mem.term /\ mem.state.term <= sent.term
      /\ last.commit \in Nat /\ last.commit <= mem.commit /\ last.term = sent.term
    BY <1>1, AtSaveFacts
<1>4. /\ Unsaved \in Seq(RecordType) /\ Trailer \in Seq(RecordType) /\ Batch = Unsaved \o Trailer
      /\ Batch \in Seq(RecordType) /\ hard_state = HardState(mem)
      /\ Trailer = <<>> => last = HardState(mem)
      /\ Trailer # <<>> => Trailer = <<StateRecord(HardState(mem))>> /\ hard_state # mem.prev
      /\ mem.log # sent.log => Len(Unsaved) # 0
    BY <1>1, BatchParts, Zenon
<1>5. /\ OnDisk(file \o B, snaps, mem, mem.term, mem.log)
      /\ ReadState(mem.base, file \o B) = HardState(mem)
      /\ Between(mem, sent, mem.log)
    BY <1>1, SaveSynced, Zenon
<1>6. /\ mem' \in MemType /\ mem'.base = mem.base /\ mem'.log = mem.log /\ mem'.term = mem.term
      /\ mem'.commit = mem.commit /\ mem'.applied = mem.applied
      /\ mem'.snapshot_index = mem.snapshot_index /\ mem'.state \in {mem.state, HardState(mem)}
  <2> DEFINE st == IF hard_state = mem.prev THEN mem.state ELSE hard_state
  <2>1. mem' = [mem EXCEPT !.state = st]
      BY DEF Save
  <2>2. st \in {mem.state, HardState(mem)}
      BY <1>4
  <2>3. st \in HardStates
    <3>1. mem.state \in HardStates /\ HardState(mem) \in HardStates
        BY <1>2 DEF MemType, HardState, HardStates
    <3> QED BY <2>2, <3>1
  <2> HIDE DEF st
  <2> QED BY <1>2, <2>1, <2>2, <2>3 DEF MemType
<1>7. mem.state.term <= mem.term /\ mem'.state.term <= mem'.term
  <2>1. HardState(mem).term = mem.term
      BY DEF HardState
  <2> QED BY <1>2, <1>3, <1>6, <2>1
<1>8. MemOK(mem', sent') /\ SnapFiles(snaps', mem')
  <2>1. sent' = sent /\ snaps' = snaps
      BY <1>1
  <2>2. /\ sent \in [term : Nat, log : Seq(Nat)]
        /\ mem.base <= mem.snapshot_index /\ mem.snapshot_index <= mem.applied
        /\ mem.applied <= mem.commit /\ mem.commit <= Len(mem.log)
      BY <1>1 DEF MemOK
  <2>3. MemOK(mem', sent')
      BY <1>6, <2>1, <2>2 DEF MemOK
  <2>4. SnapFiles(snaps', mem')
      BY <1>1, <1>6, <2>1 DEF SnapFiles
  <2> QED BY <2>3, <2>4
<1>9. ASSUME NEW f \in Seq(RecordType), NEW b \in Seq(RecordType),
             file' = f, buffer' = b, stdio' = stdio,
             Durable(f, b, snaps, mem, mem.term, mem.log), Latest(f, b, mem) = HardState(mem)
      PROVE  WalInv'
  <2> DEFINE w == mem'
  <2>1. w.base = mem.base /\ w.log = mem.log /\ w.term = mem.term /\ w.commit = mem.commit
        /\ w.applied = mem.applied /\ w.state.term <= w.term
      BY <1>6, <1>7
  <2> HIDE DEF w
  <2>2. AtApply(f, b, snaps, w, sent)
      BY <1>1, <1>3, <1>5, <1>7, <1>9, <2>1, Saved
  <2>3. AtApply(file', buffer', snaps', mem', sent')
      BY <1>1, <1>9, <2>2 DEF w
  <2>4. pc' \in Running /\ UNCHANGED <<stdio, dirs>> /\ pc \notin {"new", "create", "start"}
        /\ pc' = "apply" /\ file' \in Seq(RecordType) /\ buffer' \in Seq(RecordType)
      BY <1>1, <1>9 DEF Running
  <2> QED BY <1>8, <2>3, <2>4, StillRunning
<1>10. CASE Batch # <<>> /\ must_sync
  <2>1. sync(buffer \o Batch)
      BY <1>10 DEF Save
  <2>2. file' = file \o B /\ buffer' = <<>> /\ stdio' = stdio
      BY <2>1 DEF sync
  <2> DEFINE q == file \o B
  <2> HIDE DEF q
  <2>3. OnDisk(q, snaps, mem, mem.term, mem.log) /\ ReadState(mem.base, q) = HardState(mem)
        /\ file' = q
      BY <1>5, <2>2 DEF q
  <2>4. q \in Seq(RecordType)
      BY <2>3, Zenon DEF OnDisk
  <2>5. Durable(q, <<>>, snaps, mem, mem.term, mem.log) /\ Latest(q, <<>>, mem) = HardState(mem)
      BY <1>1, <2>3, <2>4, SaveDone
  <2>6. <<>> \in Seq(RecordType)
      OBVIOUS
  <2> QED BY <1>9, <2>2, <2>3, <2>4, <2>5, <2>6
<1>11. CASE ~(Batch # <<>> /\ must_sync)
  <2>1. buffer' = buffer \o Batch /\ file' = file /\ stdio' = stdio
      BY <1>11 DEF Save
  <2>2. Len(Unsaved) = 0 /\ (Trailer # <<>> => mem.term = mem.state.term)
    <3>1. CASE Batch = <<>>
      <4>1. Len(Unsaved) = 0 /\ Trailer = <<>>
        <5>1. Unsaved \o Trailer = <<>>
            BY <1>4, <3>1
        <5>2. Len(Unsaved \o Trailer) = Len(Unsaved) + Len(Trailer) /\ Len(Unsaved) \in Nat
              /\ Len(Trailer) \in Nat
            BY <1>4
        <5>3. Len(Unsaved) = 0 /\ Len(Trailer) = 0
            BY <5>1, <5>2
        <5> QED BY <1>4, <5>3
      <4> QED BY <4>1
    <3>2. CASE ~must_sync
      <4> DEFINE st == IF hard_state = mem.prev THEN EmptyState ELSE hard_state
      <4>1. Len(Unsaved) = 0 /\ st.term = mem.state.term
          BY <3>2 DEF must_sync, is_must_sync
      <4>2. Trailer # <<>> => st = HardState(mem)
          BY <1>4
      <4>3. HardState(mem).term = mem.term
          BY DEF HardState
      <4> HIDE DEF st
      <4> QED BY <4>1, <4>2, <4>3
    <3> QED BY <1>11, <3>1, <3>2
  <2>3. mem.log = sent.log /\ Batch = Trailer
    <3>1. Unsaved = <<>>
        BY <1>4, <2>2
    <3> QED BY <1>4, <2>2, <3>1
  <2>4. CASE Trailer = <<>>
    <3>1. last = HardState(mem)
        BY <1>4, <2>4
    <3>2. sent.term = mem.term
        BY <1>3, <3>1 DEF HardState
    <3>3. Durable(file, buffer, snaps, mem, mem.term, mem.log)
        BY <1>3, <2>3, <3>2
    <3>4. buffer' = buffer
        BY <1>1, <2>1, <2>3, <2>4
    <3> QED BY <1>1, <1>9, <2>1, <3>1, <3>3, <3>4
  <2>5. CASE Trailer # <<>>
    <3> DEFINE r == StateRecord(HardState(mem))
               c == Append(buffer, r)
    <3>1. sent.term = mem.term
        BY <1>2, <1>3, <2>2, <2>5
    <3>2. Durable(file, buffer, snaps, mem, mem.term, mem.log)
        BY <1>3, <2>3, <3>1
    <3>3. /\ c \in Seq(RecordType) /\ Durable(file, c, snaps, mem, mem.term, mem.log)
          /\ Latest(file, c, mem) = HardState(mem)
      <4>1. Latest(file, buffer, mem).commit <= mem.commit
          BY <1>3
      <4>2. c \in Seq(RecordType)
          BY <1>1, <3>2, <4>1, BufferedState
      <4>3. Durable(file, c, snaps, mem, mem.term, mem.log)
          BY <1>1, <3>2, <4>1, BufferedState
      <4>4. Latest(file, c, mem) = HardState(mem)
        <5>1. r.term = mem.term /\ r.index = mem.commit /\ r \in RecordType
            BY <1>2 DEF StateRecord, HardState, RecordType
        <5> HIDE DEF r
        <5>2. c # <<>> /\ c[Len(c)] = r
            BY <1>1, <5>1
        <5> QED BY <5>1, <5>2, Zenon DEF Latest, HardState
      <4> QED BY <4>2, <4>3, <4>4
    <3> HIDE DEF r
    <3>4. buffer' = buffer \o <<r>>
        BY <1>4, <2>1, <2>3, <2>5 DEF r
    <3>5. buffer' = c
        BY <1>1, <3>4
    <3> HIDE DEF c
    <3> QED BY <1>1, <1>9, <2>1, <3>3, <3>5
  <2> QED BY <2>4, <2>5
<1> QED BY <1>10, <1>11

LEMMA ApplyInv ==
    ASSUME WalInv, Apply
    PROVE  WalInv'
<1>1. /\ file \in Seq(RecordType) /\ buffer \in Seq(RecordType) /\ MemOK(mem, sent)
      /\ SnapFiles(snaps, mem) /\ AtApply(file, buffer, snaps, mem, sent)
      /\ pc = "apply" /\ pc' = "trigger" /\ UNCHANGED <<file, stdio, buffer, dirs, snaps, crashes>>
    BY DEF WalInv, Apply
<1>2. /\ mem \in MemType /\ mem.term \in Nat /\ mem.commit \in Nat /\ mem.applied \in Nat
      /\ mem.base \in Nat /\ mem.log \in Seq(Nat) /\ mem.commit <= Len(mem.log)
      /\ mem.snapshot_index \in Nat /\ mem.base <= mem.snapshot_index
      /\ mem.snapshot_index <= mem.applied /\ mem.applied <= mem.commit
    BY <1>1, MemFacts DEF MemOK
<1>3. /\ Durable(file, buffer, snaps, mem, mem.term, mem.log)
      /\ Latest(file, buffer, mem) = HardState(mem) /\ mem.state.term <= mem.term
    BY <1>1, Zenon DEF AtApply
<1>4. /\ mem' \in MemType /\ mem'.base = mem.base /\ mem'.log = mem.log /\ mem'.term = mem.term
      /\ mem'.commit = mem.commit /\ mem'.applied = mem.commit
      /\ mem'.snapshot_index = mem.snapshot_index /\ mem'.state = mem.state
      /\ mem'.prev = HardState(mem)
  <2> DEFINE st == mem.store \cup (mem.applied+1 .. mem.commit)
             pe == mem.peers \/ (mem.applied < Len(Bootstrap) /\ mem.commit >= Len(Bootstrap))
  <2>1. mem' = [mem EXCEPT !.applied = mem.commit, !.store = st, !.peers = pe, !.prev = hard_state]
      BY DEF Apply
  <2>2. hard_state = HardState(mem) /\ hard_state \in HardStates
      BY <1>2 DEF hard_state, HardState, HardStates
  <2>3. st \in SUBSET Nat
      BY <1>2 DEF MemType
  <2>4. pe \in BOOLEAN
      BY Zenon
  <2> HIDE DEF st, pe
  <2>5. mem' \in MemType
      BY <1>2, <2>1, <2>2, <2>3, <2>4 DEF MemType
  <2>6. /\ mem'.base = mem.base /\ mem'.log = mem.log /\ mem'.term = mem.term
        /\ mem'.commit = mem.commit /\ mem'.applied = mem.commit
        /\ mem'.snapshot_index = mem.snapshot_index /\ mem'.state = mem.state
        /\ mem'.prev = hard_state
      BY <1>2, <2>1 DEF MemType
  <2> QED BY <2>2, <2>5, <2>6
<1>5. sent' = [term |-> mem.term, log |-> mem.log]
    BY DEF Apply
<1>6. sent'.term = mem.term /\ sent'.log = mem.log /\ sent' \in [term : Nat, log : Seq(Nat)]
    BY <1>2, <1>5
<1>7. MemOK(mem', sent') /\ SnapFiles(snaps', mem')
  <2>1. mem.snapshot_index <= mem.commit /\ mem.commit <= mem.commit
      BY <1>2
  <2>2. MemOK(mem', sent')
      BY <1>2, <1>4, <1>6, <2>1 DEF MemOK
  <2>3. SnapFiles(snaps', mem')
      BY <1>1, <1>4 DEF SnapFiles
  <2> QED BY <2>2, <2>3
<1>8. AtRest(file', buffer', snaps', mem', sent')
  <2> DEFINE w == mem'
  <2>1. Fixed(mem.log, w.log, Latest(file, buffer, mem).commit) /\ w.base = mem.base
    <3>1. Latest(file, buffer, mem).commit = mem.commit
        BY <1>3 DEF HardState
    <3> QED BY <1>2, <1>4, <3>1, FixedSelf
  <2> HIDE DEF w
  <2>2. Durable(file, buffer, snaps, w, mem.term, mem.log)
        /\ Latest(file, buffer, w) = Latest(file, buffer, mem)
      BY <1>1, <1>2, <1>3, <2>1, DurableOther
  <2>3. Durable(file', buffer', snaps', mem', mem'.term, mem'.log)
      BY <1>1, <1>4, <2>2 DEF w
  <2>4. HardState(mem') = HardState(mem)
      BY <1>4 DEF HardState
  <2>5. Latest(file', buffer', mem') = HardState(mem')
      BY <1>1, <1>3, <2>2, <2>4 DEF w
  <2>6. /\ sent'.term = mem'.term /\ sent'.log = mem'.log /\ mem'.state.term <= mem'.term
        /\ mem'.prev \in {HardState(mem'), EmptyState}
      BY <1>3, <1>4, <1>6, <2>4
  <2> QED BY <2>3, <2>5, <2>6, Zenon DEF AtRest
<1>9. pc' \in Running /\ UNCHANGED <<stdio, dirs>> /\ pc \notin {"new", "create", "start"}
      /\ pc' = "trigger" /\ file' \in Seq(RecordType) /\ buffer' \in Seq(RecordType)
    BY <1>1 DEF Running
<1> QED BY <1>7, <1>8, <1>9, StillRunning

LEMMA DueAhead ==
    ASSUME MemOK(mem, sent), due
    PROVE  mem.snapshot_index < mem.applied
<1>1. mem.snapshot_index \in Nat /\ mem.applied \in Nat
    BY MemFacts
<1> QED BY <1>1, WalAssumption DEF due

LEMMA TriggerInv ==
    ASSUME WalInv, Trigger, SyncFlushes
    PROVE  WalInv'
<1>1. pc = "trigger" /\ UNCHANGED <<dirs, snaps, mem, sent, crashes>>
    BY DEF Trigger
<1>2. /\ file \in Seq(RecordType) /\ buffer \in Seq(RecordType) /\ MemOK(mem, sent)
      /\ SnapFiles(snaps, mem) /\ AtRest(file, buffer, snaps, mem, sent)
    BY <1>1, RestFacts
<1>3. CASE due
  <2> DEFINE B == Append(buffer, SnapRecord(Snapshot))
  <2>1. mem.snapshot_index < mem.applied
      BY <1>2, <1>3, DueAhead
  <2>2. /\ OnDisk(file \o B, snaps, mem, mem.term, mem.log)
        /\ ReadState(mem.base, file \o B) = HardState(mem)
        /\ Recorded(file \o B, Snapshot)
      BY <1>2, <2>1, SnapSynced, Zenon
  <2>3. sync(B) /\ pc' = "snapfile"
      BY <1>3 DEF Trigger, save_snapshot
  <2> HIDE DEF B
  <2>4. file' = file \o B /\ buffer' = <<>> /\ stdio' = stdio
      BY <2>3 DEF sync
  <2> DEFINE q == file \o B
  <2> HIDE DEF q
  <2>5. /\ OnDisk(q, snaps, mem, mem.term, mem.log)
        /\ ReadState(mem.base, q) = HardState(mem) /\ Recorded(q, Snapshot) /\ file' = q
      BY <2>2, <2>4 DEF q
  <2>6. q \in Seq(RecordType) /\ <<>> \in Seq(RecordType)
    <3>1. q \in Seq(RecordType)
        BY <2>5, Zenon DEF OnDisk
    <3> QED BY <3>1
  <2>7. Durable(q, <<>>, snaps, mem, mem.term, mem.log) /\ Latest(q, <<>>, mem) = HardState(mem)
      BY <1>2, <2>5, <2>6, SaveDone
  <2>8. AtRest(q, <<>>, snaps, mem, sent)
      BY <1>2, <2>7, Zenon DEF AtRest
  <2>9. AtSnapfile(q, mem)
      BY <2>1, <2>5 DEF AtSnapfile, Snapshot
  <2>10. AtRest(file', buffer', snaps', mem', sent') /\ AtSnapfile(file', mem')
      BY <1>1, <2>4, <2>5, <2>8, <2>9
  <2>11. MemOK(mem', sent') /\ SnapFiles(snaps', mem')
      BY <1>1, <1>2
  <2>12. pc' \in Running /\ UNCHANGED <<stdio, dirs>> /\ pc \notin {"new", "create", "start"}
         /\ pc' = "snapfile" /\ file' \in Seq(RecordType) /\ buffer' \in Seq(RecordType)
      BY <1>1, <2>3, <2>4, <2>5, <2>6 DEF Running
  <2> QED BY <2>10, <2>11, <2>12, StillRunning
<1>4. CASE ~due
  <2>1. pc' = "idle" /\ UNCHANGED <<file, stdio, buffer>>
      BY <1>4 DEF Trigger
  <2>2. AtRest(file', buffer', snaps', mem', sent') /\ MemOK(mem', sent') /\ SnapFiles(snaps', mem')
      BY <1>1, <1>2, <2>1
  <2>3. pc' \in Running /\ UNCHANGED <<stdio, dirs>> /\ pc \notin {"new", "create", "start"}
        /\ pc' = "idle" /\ file' \in Seq(RecordType) /\ buffer' \in Seq(RecordType)
      BY <1>1, <1>2, <2>1 DEF Running
  <2> QED BY <2>2, <2>3, StillRunning
<1> QED BY <1>3, <1>4

LEMMA SaveSnapInv ==
    ASSUME WalInv, SaveSnap
    PROVE  WalInv'
<1>1. /\ pc = "snapfile" /\ pc' = "idle" /\ snaps' = snaps \cup {Snapshot}
      /\ UNCHANGED <<file, stdio, buffer, dirs, sent, crashes>>
    BY DEF SaveSnap
<1>2. /\ file \in Seq(RecordType) /\ buffer \in Seq(RecordType) /\ MemOK(mem, sent)
      /\ SnapFiles(snaps, mem)
      /\ Durable(file, buffer, snaps, mem, mem.term, mem.log)
      /\ Latest(file, buffer, mem) = HardState(mem)
      /\ Latest(file, buffer, mem).commit = mem.commit
      /\ sent.term = mem.term /\ sent.log = mem.log /\ mem.state.term <= mem.term
      /\ mem.prev \in {HardState(mem), EmptyState}
    BY <1>1, RestFacts
<1>3. mem.applied > mem.snapshot_index /\ Recorded(file, Snapshot)
    BY <1>1, Zenon DEF WalInv, AtSnapfile, Snapshot
<1>4. /\ mem \in MemType /\ mem.term \in Nat /\ mem.commit \in Nat /\ mem.applied \in Nat
      /\ mem.base \in Nat /\ mem.log \in Seq(Nat) /\ mem.commit <= Len(mem.log)
      /\ Len(mem.log) \in Nat
      /\ mem.snapshot_index \in Nat /\ mem.base <= mem.snapshot_index
      /\ mem.snapshot_index <= mem.applied /\ mem.applied <= mem.commit
    BY <1>2, MemFacts DEF MemOK
<1>5. /\ mem' \in MemType /\ mem'.base = mem.base /\ mem'.log = mem.log /\ mem'.term = mem.term
      /\ mem'.commit = mem.commit /\ mem'.applied = mem.applied
      /\ mem'.snapshot_index = mem.applied /\ mem'.state = mem.state /\ mem'.prev = mem.prev
  <2>1. mem' = [mem EXCEPT !.snapshot_index = mem.applied]
      BY DEF SaveSnap
  <2> QED BY <1>4, <2>1 DEF MemType
<1>6. Snapshot \in SnapType /\ Snapshot.index = mem.applied
  <2>1. mem.applied \in 1..Len(mem.log)
      BY <1>3, <1>4
  <2>2. mem.log[mem.applied] \in Nat
      BY <1>4, <2>1
  <2> QED BY <1>4, <2>2 DEF Snapshot, SnapType
<1>7. MemOK(mem', sent')
  <2>1. sent \in [term : Nat, log : Seq(Nat)] /\ sent' = sent
      BY <1>1, <1>2 DEF MemOK
  <2>2. mem.base <= mem.applied /\ mem.applied <= mem.applied
      BY <1>4
  <2> QED BY <1>4, <1>5, <2>1, <2>2 DEF MemOK
<1>8. SnapFiles(snaps', mem')
  <2>1. snaps \in SUBSET SnapType /\ \A snap \in snaps : snap.index <= mem.snapshot_index
      BY <1>2 DEF SnapFiles
  <2>2. snaps' \in SUBSET SnapType
      BY <1>1, <1>6, <2>1
  <2>3. \A snap \in snaps' : snap.index <= mem'.snapshot_index
    <3> TAKE snap \in snaps'
    <3>1. snap \in snaps => snap.index \in Nat /\ snap.index <= mem.snapshot_index
        BY <2>1 DEF SnapType
    <3>2. snap \in snaps \/ snap = Snapshot
        BY <1>1
    <3> QED BY <1>3, <1>4, <1>5, <1>6, <3>1, <3>2
  <2>4. \E snap \in snaps' : snap.index = mem'.snapshot_index
      BY <1>1, <1>5, <1>6
  <2> QED BY <2>2, <2>3, <2>4, Zenon DEF SnapFiles
<1>9. AtRest(file', buffer', snaps', mem', sent')
  <2> DEFINE w == mem'
             fs == snaps'
  <2>1. Fixed(mem.log, w.log, Latest(file, buffer, mem).commit) /\ w.base = mem.base
      BY <1>2, <1>4, <1>5, FixedSelf
  <2>2. \A snap \in fs : snap \in snaps \/ snap = Snapshot
      BY <1>1
  <2> HIDE DEF w, fs
  <2>3. Durable(file, buffer, snaps, w, mem.term, mem.log)
        /\ Latest(file, buffer, w) = Latest(file, buffer, mem)
      BY <1>2, <1>4, <2>1, DurableOther, SMTT(30)
  <2>4. SnapsOK(file, snaps, w)
      BY <2>3, Zenon DEF Durable
  <2>5. \A snap \in fs : Recorded(file, snap)
      BY <1>3, <2>2, <2>4, Zenon DEF SnapsOK
  <2>6. SnapsOK(file, fs, w)
      BY <2>4, <2>5, Zenon DEF SnapsOK
  <2>7. Durable(file, buffer, fs, w, mem.term, mem.log)
      BY <2>3, <2>6, Zenon DEF Durable
  <2>8. Durable(file', buffer', snaps', mem', mem'.term, mem'.log)
      BY <1>1, <1>5, <2>7 DEF w, fs
  <2>9. HardState(mem') = HardState(mem)
      BY <1>5 DEF HardState
  <2>10. Latest(file', buffer', mem') = HardState(mem')
      BY <1>1, <1>2, <2>3, <2>9 DEF w
  <2>11. /\ sent'.term = mem'.term /\ sent'.log = mem'.log /\ mem'.state.term <= mem'.term
         /\ mem'.prev \in {HardState(mem'), EmptyState}
      BY <1>1, <1>2, <1>5, <2>9
  <2> QED BY <2>8, <2>10, <2>11, Zenon DEF AtRest
<1>10. pc' \in Running /\ UNCHANGED <<stdio, dirs>> /\ pc \notin {"new", "create", "start"}
       /\ pc' = "idle" /\ file' \in Seq(RecordType) /\ buffer' \in Seq(RecordType)
    BY <1>1, <1>2 DEF Running
<1> QED BY <1>7, <1>8, <1>9, <1>10, StillRunning

LEMMA CrashInv ==
    ASSUME WalInv, Crash, ~StartupCrash
    PROVE  WalInv'
<1>1. /\ file \in Seq(RecordType) /\ buffer \in Seq(RecordType) /\ MemOK(mem, sent)
      /\ SnapFiles(snaps, mem) /\ stdio = <<>> /\ pc \in Running /\ dirs = "wal"
      /\ pc = "save" => AtSave(file, buffer, snaps, mem, sent)
      /\ pc = "apply" => AtApply(file, buffer, snaps, mem, sent)
      /\ pc \in {"trigger", "snapfile", "idle"} => AtRest(file, buffer, snaps, mem, sent)
    BY DEF WalInv, Crash, Running
<1>2. stdio' = <<>> /\ buffer' = <<>> /\ pc' = "down" /\ UNCHANGED <<dirs, snaps, mem, sent>>
    BY DEF Crash
<1>3. PICK n \in 0 .. Len(stdio \o Writing) : file' = file \o SubSeq(stdio \o Writing, 1, n)
    BY DEF Crash
<1>4. ASSUME NEW B \in Seq(RecordType), Writing = B,
             \A k \in 0..Len(B) : CrashOK(file \o SubSeq(B, 1, k), snaps, mem, sent)
      PROVE  CrashOK(file', snaps, mem, sent)
  <2>1. stdio \o Writing = B
      BY <1>1, <1>4
  <2> QED BY <1>3, <1>4, <2>1, Zenon
<1>5. ASSUME Writing = <<>>, CrashOK(file, snaps, mem, sent)
      PROVE  CrashOK(file', snaps, mem, sent)
  <2> DEFINE B == <<>>
  <2>1. B \in Seq(RecordType) /\ Writing = B /\ \A k \in 0..Len(B) : k = 0
      BY <1>5
  <2>2. file \o SubSeq(B, 1, 0) = file
      BY <1>1, <2>1, PrefixNone
  <2> HIDE DEF B
  <2>3. \A k \in 0..Len(B) : CrashOK(file \o SubSeq(B, 1, k), snaps, mem, sent)
      BY <1>5, <2>1, <2>2, Zenon
  <2> QED BY <1>4, <2>1, <2>3
<1>6. ASSUME pc = "save"
      PROVE  CrashOK(file', snaps, mem, sent)
  <2>1. AtSave(file, buffer, snaps, mem, sent)
      BY <1>1, <1>6
  <2>2. CASE Batch # <<>> /\ must_sync
    <3> DEFINE B == buffer \o Batch
    <3>1. Writing = B
        BY <1>6, <2>2, Zenon DEF Writing
    <3>2. Batch \in Seq(RecordType)
        BY <1>1, <2>1, BatchParts
    <3>3. B \in Seq(RecordType)
        BY <1>1, <3>2
    <3>4. \A k \in 0..Len(B) : CrashOK(file \o SubSeq(B, 1, k), snaps, mem, sent)
        BY <1>1, <2>1, SaveSynced, Zenon
    <3> HIDE DEF B
    <3> QED BY <1>4, <3>1, <3>3, <3>4
  <2>3. CASE ~(Batch # <<>> /\ must_sync)
    <3>1. Writing = <<>>
      <4>1. pc # "trigger"
          BY <1>6
      <4> QED BY <2>3, <4>1, Zenon DEF Writing
    <3>2. CrashOK(file, snaps, mem, sent)
      <4>1. 0 \in Nat /\ 0 <= Len(buffer)
          BY <1>1
      <4>2. CrashOK(file \o SubSeq(buffer, 1, 0), snaps, mem, sent)
          BY <1>1, <2>1, <4>1, CrashFlush, Zenon
      <4>3. file \o SubSeq(buffer, 1, 0) = file
          BY <1>1, PrefixNone
      <4> QED BY <4>2, <4>3, Zenon
    <3> QED BY <1>5, <3>1, <3>2
  <2> QED BY <2>2, <2>3
<1>7. ASSUME pc = "trigger", due
      PROVE  CrashOK(file', snaps, mem, sent)
  <2> DEFINE B == Append(buffer, SnapRecord(Snapshot))
  <2>1. AtRest(file, buffer, snaps, mem, sent) /\ mem.snapshot_index < mem.applied
      BY <1>1, <1>7, DueAhead
  <2>2. /\ B \in Seq(RecordType) /\ B = buffer \o <<SnapRecord(Snapshot)>>
        /\ \A k \in 0..Len(B) : CrashOK(file \o SubSeq(B, 1, k), snaps, mem, sent)
      BY <1>1, <2>1, SnapSynced, Zenon
  <2>3. Writing = buffer \o <<SnapRecord(Snapshot)>>
    <3>1. pc # "save"
        BY <1>7
    <3> QED BY <1>7, <3>1, Zenon DEF Writing
  <2> HIDE DEF B
  <2> QED BY <1>4, <2>2, <2>3
<1>8. ASSUME pc # "save", ~(pc = "trigger" /\ due)
      PROVE  CrashOK(file', snaps, mem, sent)
  <2>1. Writing = <<>>
      BY <1>8, Zenon DEF Writing
  <2>2. CrashOK(file, snaps, mem, sent)
    <3>1. CASE pc = "apply"
        BY <1>1, <3>1, CrashApply
    <3>2. CASE pc \in {"trigger", "snapfile", "idle"}
        BY <1>1, <3>2, CrashIdle
    <3> QED BY <1>1, <1>8, <3>1, <3>2 DEF Running
  <2> QED BY <1>5, <2>1, <2>2
<1>9. CrashOK(file', snaps', mem', sent') /\ file' \in Seq(RecordType)
  <2>1. CrashOK(file', snaps, mem, sent)
      BY <1>6, <1>7, <1>8
  <2>2. file' \in Seq(RecordType)
      BY <2>1, Zenon DEF CrashOK
  <2> QED BY <1>2, <2>1, <2>2
<1>10. MemOK(mem', sent') /\ SnapFiles(snaps', mem') /\ dirs' = "wal" /\ stdio' = <<>>
       /\ buffer' = <<>> /\ buffer' \in Seq(RecordType) /\ pc' = "down"
    BY <1>1, <1>2
<1>11. /\ pc' \notin {"new", "create", "start", "save", "apply", "trigger", "snapfile", "idle"}
       /\ pc' \in {"new", "create", "start", "save", "apply", "trigger", "snapfile", "idle", "down"}
    BY <1>10
<1>12. /\ pc' \notin {"new", "create", "start"} /\ pc' # "save" /\ pc' # "apply"
       /\ pc' \notin {"trigger", "snapfile", "idle"} /\ pc' # "snapfile"
    BY <1>10
<1> QED BY <1>9, <1>10, <1>11, <1>12, Zenon DEF WalInv

(* The empty WAL of a new server.                                          *)
LEMMA SoundEmpty == Sound(<<>>, 0)
<1> SUFFICES ASSUME NEW i \in Nat, NEW j \in Nat, 0 <= i, i <= j
             PROVE  /\ ReadState(i, <<>>) = ReadState(j, <<>>)
                    /\ Nested(ReadLog(i, <<>>), ReadLog(j, <<>>), i, j)
    BY Zenon DEF Sound
<1>1. /\ ReadLog(i, <<>>) \in Seq(Nat) /\ Len(ReadLog(i, <<>>)) = i
      /\ ReadLog(j, <<>>) \in Seq(Nat) /\ Len(ReadLog(j, <<>>)) = j
      /\ ReadState(i, <<>>) = EmptyState /\ ReadState(j, <<>>) = EmptyState
    BY ReadEmpty
<1> DEFINE x == ReadLog(i, <<>>)
           y == ReadLog(j, <<>>)
<1>2. Len(x) = i /\ Len(y) = j
    BY <1>1
<1> HIDE DEF x, y
<1>3. Nested(x, y, i, j)
    BY <1>2 DEF Nested
<1> QED BY <1>1, <1>3 DEF x, y

LEMMA FreshWal ==
    LET f == <<SnapRecord(NoSnap)>>
    IN  /\ f \in Seq(RecordType) /\ Sound(f, 0) /\ ReadLog(0, f) = <<>>
        /\ ReadState(0, f) = EmptyState /\ Recorded(f, NoSnap)
        /\ \A k \in 1..Len(f) : f[k].type = "snap" /\ f[k].index = 0 /\ f[k].term = 0
<1> DEFINE r == SnapRecord(NoSnap)
           e == <<>>
           f == Append(e, r)
<1>1. r \in RecordType /\ r.type = "snap" /\ r.index = 0 /\ r.term = 0
    BY DEF SnapRecord, NoSnap, RecordType
<1>2. e \in Seq(RecordType) /\ 0 \in Nat
    OBVIOUS
<1>3. Sound(e, 0) /\ ReadLog(0, e) \in Seq(Nat) /\ Len(ReadLog(0, e)) = 0
      /\ ReadState(0, e) = EmptyState
    BY SoundEmpty, ReadEmpty
<1>4. ReadLog(0, e) = <<>>
  <2> DEFINE x == ReadLog(0, e)
  <2> HIDE DEF x
  <2>1. x \in Seq(Nat) /\ Len(x) = 0
      BY <1>3 DEF x
  <2>2. x = <<>>
      BY <2>1
  <2> QED BY <2>2 DEF x
<1> HIDE DEF r, e
<1>5. f \in Seq(RecordType) /\ Sound(f, 0)
    BY <1>1, <1>2, <1>3, SoundOther
<1>6. ReadLog(0, f) = ReadLog(0, e) /\ ReadState(0, f) = ReadState(0, e)
    BY <1>1, <1>2, ReadAppend
<1>7. f = <<r>> /\ Len(f) = 1 /\ f[1] = r
    BY <1>1 DEF e
<1> HIDE DEF f
<1>8. \A k \in 1..Len(f) : f[k].type = "snap" /\ f[k].index = 0 /\ f[k].term = 0
  <2>1. \A k \in 1..Len(f) : k = 1
      BY <1>7
  <2> QED BY <1>1, <1>7, <2>1
<1>9. Recorded(f, NoSnap)
  <2>1. 1 \in 1..Len(f)
      BY <1>7
  <2> QED BY <1>7, <2>1 DEF Recorded, r
<1>10. /\ f \in Seq(RecordType) /\ Sound(f, 0) /\ ReadLog(0, f) = <<>>
       /\ ReadState(0, f) = EmptyState /\ Recorded(f, NoSnap)
       /\ \A k \in 1..Len(f) : f[k].type = "snap" /\ f[k].index = 0 /\ f[k].term = 0
    BY <1>3, <1>4, <1>5, <1>6, <1>8, <1>9
<1>11. f = <<SnapRecord(NoSnap)>>
    BY <1>7 DEF r
<1> QED BY <1>10, <1>11, Zenon

(* A process that has read nothing.                                        *)
LEMMA NewMem ==
    LET m == NewProcess(NoSnap, <<>>, EmptyState)
        s == [term |-> 0, log |-> <<>>]
    IN  MemOK(m, s) /\ SnapFiles({}, m)
<1> DEFINE m == NewProcess(NoSnap, <<>>, EmptyState)
           s == [term |-> 0, log |-> <<>>]
<1>1. m \in MemType /\ s \in [term : Nat, log : Seq(Nat)]
    BY DEF NewProcess, NoSnap, EmptyState, MemType, HardStates
<1>2. /\ m.base = 0 /\ m.snapshot_index = 0 /\ m.applied = 0 /\ m.commit = 0
      /\ Len(m.log) = 0
    BY DEF NewProcess, NoSnap, EmptyState
<1> HIDE DEF m, s
<1>3. MemOK(m, s)
    BY <1>1, <1>2 DEF MemOK
<1>4. SnapFiles({}, m)
    BY <1>2 DEF SnapFiles
<1> QED BY <1>3, <1>4 DEF m, s

LEMMA InitInv ==
    ASSUME Init
    PROVE  WalInv
<1>1. /\ file = <<>> /\ stdio = <<>> /\ buffer = <<>> /\ snaps = {}
      /\ mem = NewProcess(NoSnap, <<>>, EmptyState)
      /\ sent = [term |-> 0, log |-> <<>>] /\ pc = "new"
    BY DEF Init
<1>2. MemOK(mem, sent) /\ SnapFiles(snaps, mem)
    BY <1>1, NewMem, Zenon
<1>3. file \in Seq(RecordType) /\ buffer \in Seq(RecordType)
    BY <1>1
<1>4. /\ pc \in {"new", "create", "start", "save", "apply", "trigger", "snapfile", "idle", "down"}
      /\ pc \in {"new", "create", "start"} /\ pc # "start" /\ pc # "save" /\ pc # "apply"
      /\ pc \notin {"trigger", "snapfile", "idle"} /\ pc # "snapfile" /\ pc # "down"
    BY <1>1
<1>5. Fresh
    BY <1>1, <1>4, Zenon DEF Fresh
<1> QED BY <1>1, <1>2, <1>3, <1>4, <1>5, Zenon DEF WalInv

LEMMA FirstSteps ==
    ASSUME WalInv, CreateDir \/ CreateWal
    PROVE  WalInv'
<1>1. /\ pc \in {"new", "create", "start"}
      /\ file' \in Seq(RecordType)
      /\ UNCHANGED <<stdio, buffer, snaps, mem, sent>>
      /\ pc' \in {"create", "start"}
      /\ pc' = "start" => file' = <<SnapRecord(NoSnap)>> /\ dirs' = "wal"
  <2>1. CASE CreateDir
      BY <2>1 DEF CreateDir, WalInv
  <2>2. CASE CreateWal
    <3>1. <<SnapRecord(NoSnap)>> \in Seq(RecordType)
        BY FreshWal, Zenon
    <3> QED BY <2>2, <3>1 DEF CreateWal
  <2> QED BY <2>1, <2>2
<1>2. /\ Fresh /\ stdio = <<>> /\ buffer \in Seq(RecordType)
      /\ MemOK(mem, sent) /\ SnapFiles(snaps, mem)
    BY <1>1, Zenon DEF WalInv
<1>3. Fresh'
    BY <1>1, <1>2 DEF Fresh
<1>4. stdio' = <<>> /\ buffer' \in Seq(RecordType) /\ MemOK(mem', sent') /\ SnapFiles(snaps', mem')
    BY <1>1, <1>2
<1>5. /\ pc' \in {"new", "create", "start", "save", "apply", "trigger", "snapfile", "idle", "down"}
      /\ pc' \in {"new", "create", "start"} /\ pc' # "save" /\ pc' # "apply"
      /\ pc' \notin {"trigger", "snapfile", "idle"} /\ pc' # "snapfile" /\ pc' # "down"
    BY <1>1
<1> QED BY <1>1, <1>3, <1>4, <1>5, Zenon DEF WalInv

(* The first Ready of a new server: the bootstrap entries are committed    *)
(* and nothing is on disk.                                                 *)
LEMMA StartNodeInv ==
    ASSUME WalInv, StartNode
    PROVE  WalInv'
<1> DEFINE f == <<SnapRecord(NoSnap)>>
           m == mem'
           s == sent
<1>1. /\ pc = "start" /\ pc' = "save" /\ UNCHANGED <<file, stdio, buffer, dirs, snaps, sent>>
      /\ mem' = [NewProcess(NoSnap, Bootstrap, [term |-> 1, commit |-> Len(Bootstrap)])
                   EXCEPT !.prev = EmptyState, !.peers = TRUE]
    BY DEF StartNode
<1>2. /\ stdio = <<>> /\ buffer = <<>> /\ snaps = {} /\ file = f /\ dirs = "wal"
      /\ sent = [term |-> 0, log |-> <<>>]
    BY <1>1 DEF WalInv, Fresh
<1>3. /\ m \in MemType /\ m.base = 0 /\ m.log = <<1, 1>> /\ m.term = 1 /\ m.commit = 2
      /\ m.applied = 0 /\ m.snapshot_index = 0 /\ m.prev = EmptyState /\ m.state = EmptyState
  <2>1. m = [base |-> 0, log |-> <<1, 1>>, term |-> 1, commit |-> 2, applied |-> 0,
             snapshot_index |-> 0, prev |-> EmptyState, state |-> EmptyState,
             peers |-> TRUE, store |-> {}, matched |-> 0]
      BY <1>1 DEF NewProcess, NoSnap, Bootstrap
  <2> QED BY <2>1 DEF MemType, HardStates, EmptyState
<1>4. /\ f \in Seq(RecordType) /\ Sound(f, 0) /\ ReadLog(0, f) = <<>>
      /\ ReadState(0, f) = EmptyState /\ Recorded(f, NoSnap)
      /\ \A k \in 1..Len(f) : f[k].type = "snap" /\ f[k].index = 0 /\ f[k].term = 0
    BY FreshWal, Zenon
<1>5. Len(m.log) = 2 /\ m.log[1] = 1 /\ m.log[2] = 1
    BY <1>3
<1>6. s.term = 0 /\ s.log = <<>> /\ Len(s.log) = 0 /\ s \in [term : Nat, log : Seq(Nat)]
    BY <1>2
<1>7. EmptyState.term = 0 /\ EmptyState.commit = 0
    BY DEF EmptyState
<1> HIDE DEF f, m, s
<1>8. MemOK(m, s)
    BY <1>3, <1>5, <1>6 DEF MemOK
<1>9. SnapFiles({}, m)
    BY <1>3 DEF SnapFiles
<1>10. Latest(f, <<>>, m) = EmptyState
    BY <1>3, <1>4 DEF Latest
<1>11. SnapsOK(f, {}, m)
  <2>1. \A k \in 1..Len(f) : f[k].index <= ReadState(m.base, f).commit /\ ~(f[k].index > m.base)
      BY <1>3, <1>4, <1>7
  <2>2. \A k, l \in 1..Len(f) : f[k].term = f[l].term
      BY <1>4
  <2> QED BY <1>4, <2>1, <2>2, Zenon DEF SnapsOK
<1>12. Durable(f, <<>>, {}, m, s.term, s.log)
  <2>1. \A k \in 1..Len(<<>>) : FALSE
      OBVIOUS
  <2>2. ReadState(m.base, f).commit <= Latest(f, <<>>, m).commit
      BY <1>3, <1>4, <1>7, <1>10
  <2> QED BY <1>3, <1>4, <1>6, <1>7, <1>10, <1>11, <2>1, <2>2, Zenon DEF Durable
<1>13. NewAfter(m, s, 0)
  <2>1. Fixed(s.log, m.log, 0)
      BY <1>5, <1>6 DEF Fixed
  <2> QED BY <1>5, <1>6, <2>1 DEF NewAfter
<1>14. AtSave(f, <<>>, {}, m, s)
  <2> DEFINE last == Latest(f, <<>>, m)
  <2>1. last.commit = 0 /\ last.term = 0
      BY <1>7, <1>10
  <2> HIDE DEF last
  <2>2. /\ s.term <= m.term /\ m.state.term <= s.term
        /\ m.applied <= last.commit /\ last.commit <= m.commit
      BY <1>3, <1>6, <1>7, <2>1
  <2>3. Fixed(s.log, m.log, last.commit)
      BY <1>13, <2>1 DEF NewAfter
  <2>4. \E a \in Nat : last.commit <= a /\ NewAfter(m, s, a)
      BY <1>13, <2>1
  <2>5. \A k \in m.base+1 .. Len(m.log) : m.log[k] # 0
    <3>1. \A k \in 1..2 : k = 1 \/ k = 2
        OBVIOUS
    <3>2. \A k \in 1..2 : m.log[k] # 0
        BY <1>5, <3>1
    <3> QED BY <1>3, <1>5, <3>2
  <2>6. HardState(m) \notin {m.prev, EmptyState}
    <3>1. HardState(m).term = 1
        BY <1>3 DEF HardState
    <3> QED BY <1>3, <1>7, <3>1
  <2> QED BY <1>12, <2>2, <2>3, <2>4, <2>5, <2>6, Zenon DEF AtSave, last
<1>15. AtSave(file', buffer', snaps', mem', sent')
    BY <1>1, <1>2, <1>14, Zenon DEF m, s
<1>16. /\ MemOK(mem', sent') /\ SnapFiles(snaps', mem') /\ stdio' = <<>> /\ dirs' = "wal"
       /\ file' \in Seq(RecordType) /\ buffer' \in Seq(RecordType)
    BY <1>1, <1>2, <1>4, <1>8, <1>9 DEF m, s
<1>17. /\ pc' \in {"new", "create", "start", "save", "apply", "trigger", "snapfile", "idle", "down"}
       /\ pc' \notin {"new", "create", "start"} /\ pc' # "apply"
       /\ pc' \notin {"trigger", "snapfile", "idle"} /\ pc' # "snapfile" /\ pc' # "down"
    BY <1>1
<1> QED BY <1>15, <1>16, <1>17, Zenon DEF WalInv

(* Every step keeps the invariant.                                         *)
LEMMA StepInv ==
    ASSUME SyncFlushes, ~StartupCrash, WalInv, [Next]_vars
    PROVE  WalInv'
<1>1. CASE CreateDir \/ CreateWal
    BY <1>1, FirstSteps
<1>2. CASE StartNode
    BY <1>2, StartNodeInv
<1>3. CASE Crash
    BY <1>3, CrashInv
<1>4. CASE Restart
    BY <1>4, RestartInv
<1>5. CASE NewTerm
    BY <1>5, NewTermInv
<1>6. CASE NewEntries
    BY <1>6, NewEntriesInv
<1>7. CASE Commit
    BY <1>7, CommitInv
<1>8. CASE Save
    BY <1>8, SaveInv
<1>9. CASE Apply
    BY <1>9, ApplyInv
<1>10. CASE Trigger
    BY <1>10, TriggerInv
<1>11. CASE SaveSnap
    BY <1>11, SaveSnapInv
<1>12. CASE UNCHANGED vars
  <2>1. UNCHANGED <<file, stdio, buffer, dirs, snaps, mem, sent, pc>>
      BY <1>12 DEF vars
  <2>2. Fresh' = Fresh
      BY <2>1, Zenon DEF Fresh
  <2> QED BY <2>1, <2>2, Zenon DEF WalInv
<1> QED BY <1>1, <1>2, <1>3, <1>4, <1>5, <1>6, <1>7, <1>8, <1>9, <1>10, <1>11, <1>12 DEF Next

(* The step from a process that is down to one that runs is replay_WAL.    *)
LEMMA ComesBack ==
    ASSUME [Next]_vars, pc = "down", pc' = "idle"
    PROVE  Restart
BY DEF Next, vars, CreateDir, CreateWal, StartNode, Crash, NewTerm, NewEntries, Commit,
       Save, Apply, Trigger, SaveSnap

-----------------------------------------------------------------------------
(* With a sync that leaves nothing in memory and a first start that is not *)
(* interrupted, WalInv holds in every state: what the disk holds, at every *)
(* point of pull_ready_events and in the middle of every write, is enough  *)
(* to come back.                                                           *)
THEOREM DiskInvariant ==
    ASSUME SyncFlushes, ~StartupCrash
    PROVE  Spec => []WalInv
<1>1. Init => WalInv
    BY InitInv
<1>2. WalInv /\ [Next]_vars => WalInv'
    BY StepInv
<1> QED BY <1>1, <1>2, PTL DEF Spec

(* replay_WAL never meets a missing WAL, a hole after the snapshot, a      *)
(* snapshot record of another term or a HardState that load_state refuses, *)
(* wherever the process was killed.                                        *)
THEOREM AlwaysComesBack ==
    ASSUME SyncFlushes, ~StartupCrash
    PROVE  Spec => []RestartSucceeds
<1>1. WalInv => RestartSucceeds
    BY DEF WalInv, RestartSucceeds
<1>2. Spec => []WalInv
    BY DiskInvariant
<1> QED BY <1>1, <1>2, PTL

(* save_snap's order holds under every crash: a snapshot file on disk has  *)
(* its record in the WAL.                                                  *)
THEOREM RecordBeforeFile ==
    ASSUME SyncFlushes, ~StartupCrash
    PROVE  Spec => []OpenedAtSavedSnapshot
<1>1. WalInv => OpenedAtSavedSnapshot
  <2> SUFFICES ASSUME WalInv, pc = "down", NEW snap \in snaps
               PROVE  \E k \in DOMAIN file : file[k] = SnapRecord(snap)
      BY DEF OpenedAtSavedSnapshot
  <2>1. file \in Seq(RecordType) /\ CrashOK(file, snaps, mem, sent)
      BY DEF WalInv
  <2>2. SnapsOK(file, snaps, mem)
      BY <2>1, Zenon DEF CrashOK
  <2>3. Recorded(file, snap)
      BY <2>2, Zenon DEF SnapsOK
  <2>4. DOMAIN file = 1..Len(file)
      BY <2>1
  <2> QED BY <2>3, <2>4, Zenon DEF Recorded
<1>2. Spec => []WalInv
    BY DiskInvariant
<1> QED BY <1>1, <1>2, PTL

(* What a restart finds, in the terms of the state before the crash.       *)
LEMMA Found ==
    ASSUME WalInv, [Next]_vars, pc = "down", pc' = "idle"
    PROVE  LET j  == mem.snapshot_index
               x  == ReadLog(mem.base, file)
               hs == ReadState(mem.base, file)
               y  == mem'.log
           IN  /\ MemOK(mem, sent) /\ Between(mem, sent, x)
               /\ mem'.base = j /\ mem'.term = hs.term /\ mem'.commit = hs.commit
               /\ hs.term >= sent.term /\ hs.commit <= mem.commit
               /\ Fixed(x, mem.log, mem.applied)
               /\ x \in Seq(Nat) /\ Len(x) \in Nat /\ y \in Seq(Nat) /\ Len(y) \in Nat
               /\ Len(x) <= Len(y) /\ \A k \in j+1 .. Len(x) : y[k] = x[k]
               /\ j = mem.base => y = x
<1> DEFINE j  == load.index
           x  == ReadLog(mem.base, file)
           y  == ReadLog(j, file)
           hs == ReadState(mem.base, file)
<1>1. Restart
    BY ComesBack
<1>2. /\ file \in Seq(RecordType) /\ MemOK(mem, sent) /\ SnapFiles(snaps, mem)
      /\ CrashOK(file, snaps, mem, sent)
    BY DEF WalInv
<1>3. mem'.base = j /\ mem'.log = y /\ mem'.term = hs.term /\ mem'.commit = hs.commit
    BY <1>1, RestartStep, Zenon
<1>4. /\ x \in Seq(Nat) /\ Len(x) \in Nat /\ y \in Seq(Nat) /\ Len(y) \in Nat
      /\ Len(x) <= Len(y) /\ \A k \in j+1 .. Len(x) : y[k] = x[k]
    BY <1>2, ReadBack, Zenon
<1>5. j = mem.snapshot_index
    BY <1>2, LoadFacts, Zenon
<1>6. /\ Between(mem, sent, x) /\ hs.term >= sent.term /\ hs.commit <= mem.commit
      /\ Fixed(x, mem.log, mem.applied)
    BY <1>2, Zenon DEF CrashOK
<1>7. j = mem.base => y = x
    OBVIOUS
<1> HIDE DEF x, y, hs, j
<1>8. /\ mem'.log \in Seq(Nat) /\ Len(mem'.log) \in Nat /\ Len(x) <= Len(mem'.log)
      /\ \A k \in mem.snapshot_index+1 .. Len(x) : mem'.log[k] = x[k]
      /\ mem.snapshot_index = mem.base => mem'.log = x
    BY <1>3, <1>4, <1>5, <1>7, Zenon
<1> QED BY <1>2, <1>3, <1>4, <1>5, <1>6, <1>8, Zenon DEF x, hs

(* The log of a restarted server against the one it last sent from.        *)
LEMMA KeepsSentLog ==
    ASSUME NEW m, NEW s, MemOK(m, s), NEW x \in Seq(Nat), NEW y \in Seq(Nat),
           Between(m, s, x), Len(x) <= Len(y),
           \A k \in m.snapshot_index+1 .. Len(x) : y[k] = x[k],
           NEW i \in m.snapshot_index+1 .. Len(s.log)
    PROVE  \/ i <= Len(y) /\ y[i] = s.log[i]
           \/ \E k \in m.snapshot_index+1 .. i :
                 /\ k <= Len(y) /\ k <= Len(m.log)
                 /\ y[k] = m.log[k] /\ m.log[k] # s.log[k]
<1> DEFINE j == m.snapshot_index
<1>1. /\ j \in Nat /\ m.applied \in Nat /\ j <= m.applied /\ Len(m.log) \in Nat
      /\ Len(s.log) \in Nat /\ Len(x) \in Nat /\ Len(y) \in Nat /\ i \in Nat
  <2>1. s.log \in Seq(Nat) /\ j <= m.applied
      BY DEF MemOK
  <2> QED BY <2>1, MemFacts
<1>2. CASE x = s.log
    BY <1>1, <1>2
<1>3. CASE x # s.log
  <2>1. PICK a \in Nat : /\ NewAfter(m, s, a) /\ m.applied <= a /\ a < Len(x)
                         /\ Fixed(s.log, x, a) /\ Fixed(m.log, x, Len(x))
      BY <1>3, Zenon DEF Between
  <2>2. CASE i <= a
    <3>1. s.log[i] = x[i]
        BY <1>1, <2>1, <2>2 DEF Fixed
    <3>2. i \in j+1 .. Len(x)
        BY <1>1, <2>1, <2>2
    <3> QED BY <1>1, <3>1, <3>2
  <2>3. CASE i > a
    <3>1. /\ a + 1 \in j+1 .. Len(x) /\ a + 1 \in j+1 .. i /\ a < Len(s.log)
          /\ a + 1 \in 1..Len(x) /\ a + 1 <= Len(y)
      <4>1. m.applied <= a /\ a < Len(x)
          BY <2>1
      <4> QED BY <1>1, <2>3, <4>1, SMTT(30)
    <3>2. y[a + 1] = x[a + 1]
        BY <3>1
    <3>3. m.log[a + 1] = x[a + 1] /\ Len(x) <= Len(m.log)
        BY <2>1, <3>1 DEF Fixed
    <3>4. s.log[a + 1] # m.log[a + 1]
        BY <2>1, <3>1 DEF NewAfter
    <3>5. a + 1 <= Len(m.log)
        BY <1>1, <3>1, <3>3
    <3> QED BY <3>1, <3>2, <3>3, <3>4, <3>5, Zenon
  <2> QED BY <1>1, <2>2, <2>3
<1> QED BY <1>2, <1>3

(* A restart takes back no vote and no acknowledgement: the term and vote  *)
(* that messages were sent with are on disk, and so is the log, except for *)
(* positions that the interrupted WAL::save had begun to overwrite; and    *)
(* without a snapshot nothing overwritten earlier comes back.              *)
THEOREM NothingSentIsLost ==
    ASSUME SyncFlushes, ~StartupCrash
    PROVE  Spec => RestartKeepsSent
<1>1. WalInv /\ [Next]_vars =>
        [pc = "down" /\ pc' = "idle" =>
          /\ mem'.term >= sent.term
          /\ \A i \in mem'.base+1 .. Len(sent.log) :
                \/ i <= Len(mem'.log) /\ mem'.log[i] = sent.log[i]
                \/ \E j \in mem'.base+1 .. i :
                      /\ j <= Len(mem'.log) /\ j <= Len(mem.log)
                      /\ mem'.log[j] = mem.log[j] /\ mem.log[j] # sent.log[j]
          /\ mem'.base = 0 => NothingResurrected]_vars
  <2> SUFFICES ASSUME WalInv, [Next]_vars, pc = "down", pc' = "idle"
               PROVE  /\ mem'.term >= sent.term
                      /\ \A i \in mem'.base+1 .. Len(sent.log) :
                            \/ i <= Len(mem'.log) /\ mem'.log[i] = sent.log[i]
                            \/ \E j \in mem'.base+1 .. i :
                                  /\ j <= Len(mem'.log) /\ j <= Len(mem.log)
                                  /\ mem'.log[j] = mem.log[j] /\ mem.log[j] # sent.log[j]
                      /\ mem'.base = 0 => NothingResurrected
      OBVIOUS
  <2> DEFINE x  == ReadLog(mem.base, file)
             hs == ReadState(mem.base, file)
  <2>1. /\ MemOK(mem, sent) /\ Between(mem, sent, x)
        /\ mem'.base = mem.snapshot_index /\ mem'.term = hs.term /\ hs.term >= sent.term
        /\ x \in Seq(Nat) /\ Len(x) \in Nat /\ mem'.log \in Seq(Nat)
        /\ Len(x) <= Len(mem'.log)
        /\ \A k \in mem.snapshot_index+1 .. Len(x) : mem'.log[k] = x[k]
        /\ mem.snapshot_index = mem.base => mem'.log = x
      BY Found, Zenon
  <2> HIDE DEF x, hs
  <2>2. mem'.term >= sent.term
      BY <2>1
  <2>3. \A i \in mem.snapshot_index+1 .. Len(sent.log) :
          \/ i <= Len(mem'.log) /\ mem'.log[i] = sent.log[i]
          \/ \E k \in mem.snapshot_index+1 .. i :
                /\ k <= Len(mem'.log) /\ k <= Len(mem.log)
                /\ mem'.log[k] = mem.log[k] /\ mem.log[k] # sent.log[k]
    <3> DEFINE y == mem'.log
    <3>1. /\ MemOK(mem, sent) /\ Between(mem, sent, x) /\ x \in Seq(Nat) /\ y \in Seq(Nat)
          /\ Len(x) <= Len(y) /\ \A k \in mem.snapshot_index+1 .. Len(x) : y[k] = x[k]
        BY <2>1
    <3> HIDE DEF y
    <3>2. \A i \in mem.snapshot_index+1 .. Len(sent.log) :
            \/ i <= Len(y) /\ y[i] = sent.log[i]
            \/ \E k \in mem.snapshot_index+1 .. i :
                  /\ k <= Len(y) /\ k <= Len(mem.log)
                  /\ y[k] = mem.log[k] /\ mem.log[k] # sent.log[k]
        BY <3>1, KeepsSentLog
    <3> QED BY <3>2 DEF y
  <2>4. ASSUME mem'.base = 0
        PROVE  NothingResurrected
    <3>1. mem'.log = x
      <4>1. mem.base \in Nat /\ mem.snapshot_index \in Nat /\ mem.base <= mem.snapshot_index
          BY <2>1, MemFacts DEF MemOK
      <4>2. mem.snapshot_index = mem.base
          BY <2>1, <2>4, <4>1
      <4> QED BY <2>1, <4>2
    <3>2. \E was \in {sent.log, mem.log} : \A i \in 1..Len(x) : i <= Len(was) /\ x[i] = was[i]
      <4>1. CASE x = sent.log
          BY <2>1, <4>1
      <4>2. CASE Fixed(mem.log, x, Len(x))
        <5>1. Len(mem.log) \in Nat
            BY <2>1, MemFacts
        <5> QED BY <2>1, <4>2, <5>1 DEF Fixed
      <4> QED BY <2>1, <4>1, <4>2, Zenon DEF Between
    <3>3. \A i \in 1..Len(x) :
             \E was \in {sent.log, mem.log} : i <= Len(was) /\ x[i] = was[i]
        BY <3>2, Zenon
    <3>4. mem'.base + 1 = 1
        BY <2>4
    <3> QED BY <3>1, <3>3, <3>4 DEF NothingResurrected
  <2>5. \A i \in mem'.base+1 .. Len(sent.log) :
          \/ i <= Len(mem'.log) /\ mem'.log[i] = sent.log[i]
          \/ \E j \in mem'.base+1 .. i :
                /\ j <= Len(mem'.log) /\ j <= Len(mem.log)
                /\ mem'.log[j] = mem.log[j] /\ mem.log[j] # sent.log[j]
    <3>1. mem'.base = mem.snapshot_index
        BY <2>1
    <3> QED BY <2>3, <3>1
  <2> QED BY <2>2, <2>4, <2>5
<1>2. Spec => []WalInv
    BY DiskInvariant
<1> QED BY <1>1, <1>2, PTL DEF Spec, RestartKeepsSent

(* What a restarted server takes for committed was committed, and what the *)
(* store had applied is in the snapshot or in the log that was read.       *)
THEOREM NothingAppliedIsLost ==
    ASSUME SyncFlushes, ~StartupCrash
    PROVE  Spec => RestartKeepsApplied
<1>1. WalInv /\ [Next]_vars =>
        [pc = "down" /\ pc' = "idle" =>
          /\ mem'.commit <= mem.commit
          /\ Len(mem'.log) >= mem.applied
          /\ \A i \in mem'.base+1 .. mem.applied : mem'.log[i] = mem.log[i]]_vars
  <2> SUFFICES ASSUME WalInv, [Next]_vars, pc = "down", pc' = "idle"
               PROVE  /\ mem'.commit <= mem.commit
                      /\ Len(mem'.log) >= mem.applied
                      /\ \A i \in mem'.base+1 .. mem.applied : mem'.log[i] = mem.log[i]
      OBVIOUS
  <2> DEFINE x  == ReadLog(mem.base, file)
             hs == ReadState(mem.base, file)
  <2>1. /\ MemOK(mem, sent) /\ Fixed(x, mem.log, mem.applied)
        /\ mem'.base = mem.snapshot_index /\ mem'.commit = hs.commit
        /\ hs.commit <= mem.commit
        /\ x \in Seq(Nat) /\ Len(x) \in Nat /\ mem'.log \in Seq(Nat) /\ Len(mem'.log) \in Nat
        /\ Len(x) <= Len(mem'.log)
        /\ \A k \in mem.snapshot_index+1 .. Len(x) : mem'.log[k] = x[k]
      BY Found, Zenon
  <2> HIDE DEF x, hs
  <2>2. mem.applied \in Nat /\ mem.snapshot_index \in Nat
      BY <2>1, MemFacts
  <2>3. mem.applied <= Len(x) /\ \A i \in 1..mem.applied : x[i] = mem.log[i]
      BY <2>1 DEF Fixed
  <2>4. mem'.commit <= mem.commit
      BY <2>1
  <2>5. Len(mem'.log) >= mem.applied
      BY <2>1, <2>2, <2>3
  <2>6. ASSUME NEW i \in mem'.base+1 .. mem.applied
        PROVE  mem'.log[i] = mem.log[i]
    <3>1. i \in mem.snapshot_index+1 .. Len(x) /\ i \in 1..mem.applied
        BY <2>1, <2>2, <2>3
    <3> QED BY <2>1, <2>3, <3>1, Zenon
  <2> QED BY <2>4, <2>5, <2>6
<1>2. Spec => []WalInv
    BY DiskInvariant
<1> QED BY <1>1, <1>2, PTL DEF Spec, RestartKeepsApplied
=============================================================================
