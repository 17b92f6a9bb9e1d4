------------------------- MODULE ReplicationProofs -------------------------
(***************************************************************************)
(* Theorems about module Replication: for every window, message size, log, *)
(* compaction threshold and number of failures, the follower agrees with   *)
(* the leader where it counts, the window of in-flight messages is in      *)
(* order, and the acknowledgement that moves match repairs what a late     *)
(* rejection did to next and to a wait for a snapshot.                     *)
(***************************************************************************)
EXTENDS Replication, SetInduction, SequenceTheorems, TLAPS

-----------------------------------------------------------------------------
(* Types.                                                                  *)

Log == Seq(1..Term)

DownMsg ==
    [type : {"MsgApp"}, index : Nat, log_term : Nat, entries : Log, commit : Nat]
      \cup [type : {"MsgHeartbeat"}, commit : Nat]
      \cup [type : {"MsgSnap"}]

BackMsg ==
    [type : {"MsgAppResp"}, index : Nat, reject : BOOLEAN, reject_hint : Nat]
      \cup [type : {"MsgHeartbeatResp"}]

PrType ==
    [match : Nat, next : Nat, state : {"Probe", "Replicate", "Snapshot"},
     paused : BOOLEAN, recent_active : BOOLEAN, pending_snapshot : Nat,
     start : Nat, ins : Seq(Nat)]

LdrType ==
    [log : Log, first : Nat, snap : Nat, committed : Nat, other : Nat,
     pr : PrType, msgs : Seq(DownMsg)]

FolType == [log : Log, committed : Nat, fatal : BOOLEAN]

-----------------------------------------------------------------------------
(* The inductive invariant.                                                *)

(* The follower's log flog has the first i entries of the leader's.        *)
Agrees(flog, log, i) ==
    /\ i <= Len(flog) /\ i <= Len(log)
    /\ \A k \in 1..i : flog[k] = log[k]

(* What may be under way to the follower: pieces of the leader's log, and  *)
(* heartbeats that commit no more than the follower has acknowledged.      *)
Down(flog, log, committed) ==
    {m \in DownMsg :
        /\ m.type = "MsgApp" =>
             /\ m.index + Len(m.entries) <= Len(log)
             /\ m.log_term = log_term(log, m.index)
             /\ \A k \in DOMAIN m.entries : m.entries[k] = log[m.index + k]
             /\ m.commit <= committed
        /\ m.type = "MsgHeartbeat" =>
             m.commit <= committed /\ Agrees(flog, log, m.commit)}

(* What may be under way to the leader: an acknowledgement is still true.  *)
Back(flog, log) ==
    {m \in BackMsg : m.type = "MsgAppResp" /\ ~m.reject => Agrees(flog, log, m.index)}

(* The indexes in s lie between lo and hi and increase.                    *)
InOrder(s, lo, hi) ==
    /\ \A k \in 1..Len(s) : lo < s[k] /\ s[k] < hi
    /\ \A k, l \in 1..Len(s) : k < l => s[k] < s[l]

Window(p) ==
    /\ p.match < p.next
    /\ Len(p.ins) <= MaxInflight
    /\ InOrder(p.ins, p.match, p.next)

ProgressOK(p, flog, log) ==
    /\ p \in PrType
    /\ p.next \in 1..(Len(log) + 1)
    /\ p.pending_snapshot <= Len(log)
    /\ Agrees(flog, log, p.match)
    /\ p.state = "Replicate" => Window(p)

(* The leader in the middle of an event, with what it has sent in it.      *)
LeaderOK(n, flog) ==
    /\ n \in LdrType
    /\ n.committed <= Len(n.log) /\ n.other <= Len(n.log)
    /\ n.snap <= n.committed /\ n.first <= n.snap + 1
    /\ ProgressOK(n.pr, flog, n.log)
    /\ n.msgs \in Seq(Down(flog, n.log, n.committed))

(* An entry of the leader's term is the leader's, and where an entry is    *)
(* the leader's, so are those before it.                                   *)
Matching(flog, log) ==
    \A k \in DOMAIN flog :
        /\ k > Len(log) => flog[k] < Term
        /\ k <= Len(log) /\ flog[k] = log[k] => \A j \in 1..k : flog[j] = log[j]

(* A step takes the progress from p to q: match stays, or moves on and the *)
(* acknowledgement that moved it repairs the rest.                         *)
Moved(q, p) == q.match = p.match \/ (p.match < q.match /\ Repaired(q))

FollowerOK(f, log, committed) ==
    /\ f \in FolType
    /\ ~f.fatal
    /\ f.committed <= committed
    /\ Agrees(f.log, log, f.committed)
    /\ Matching(f.log, log)

Inv ==
    /\ LeaderOK(ldr, fol.log) /\ ldr.msgs = <<>>
    /\ FollowerOK(fol, ldr.log, ldr.committed)
    /\ saved \in Nat
    /\ down \in Seq(Seq(Down(fol.log, ldr.log, ldr.committed))) /\ down # <<>>
    /\ back \in Seq(Seq(Back(fol.log, ldr.log))) /\ back # <<>>

-----------------------------------------------------------------------------
(* Pipes: what may be under way in a stream stays so.                      *)

LEMMA SeqOfSubset ==
    ASSUME NEW D, NEW E, \A m \in D : m \in E
    PROVE  /\ \A s \in Seq(D) : s \in Seq(E)
           /\ \A p \in Seq(Seq(D)) : p \in Seq(Seq(E))
OBVIOUS

LEMMA PutPipe ==
    ASSUME NEW D, NEW p \in Seq(Seq(D)), p # <<>>, NEW ms \in Seq(D)
    PROVE  Put(p, ms) \in Seq(Seq(D)) /\ Put(p, ms) # <<>>
<1>1. Len(p) \in DOMAIN p /\ p[Len(p)] \in Seq(D)
    OBVIOUS
<1> DEFINE last == p[Len(p)] \o ms
<1>2. last \in Seq(D)
    BY <1>1
<1>3. [p EXCEPT ![Len(p)] = last] \in Seq(Seq(D)) /\ Len([p EXCEPT ![Len(p)] = last]) = Len(p)
  <2>1. Len(p) \in 1..Len(p)
      BY <1>1
  <2> HIDE DEF last
  <2>2. \A e \in Seq(D) : [p EXCEPT ![Len(p)] = e] \in Seq(Seq(D))
                          /\ Len([p EXCEPT ![Len(p)] = e]) = Len(p)
      BY <2>1, ExceptSeq
  <2> QED BY <1>2, <2>2, Zenon
<1>4. Put(p, ms) = [p EXCEPT ![Len(p)] = last]
    BY DEF Put
<1> QED BY <1>3, <1>4

LEMMA PrunePipe ==
    ASSUME NEW D, NEW p \in Seq(Seq(D)), p # <<>>, NEW k \in DOMAIN p
    PROVE  Prune(p, k) \in Seq(Seq(D)) /\ Prune(p, k) # <<>>
<1>1. ASSUME k < Len(p)
      PROVE  RemoveAt(p, k) \in Seq(Seq(D)) /\ RemoveAt(p, k) # <<>>
  <2>1. SubSeq(p, 1, k - 1) \in Seq(Seq(D)) /\ SubSeq(p, k + 1, Len(p)) \in Seq(Seq(D))
      BY <1>1
  <2>2. Len(SubSeq(p, k + 1, Len(p))) = Len(p) - k
    <3>1. k + 1 \in Int /\ Len(p) \in Int /\ k + 1 <= Len(p)
        BY <1>1
    <3>2. \A i \in (k + 1)..Len(p) : p[i] \in Seq(D)
        OBVIOUS
    <3>3. Len(SubSeq(p, k + 1, Len(p))) = Len(p) - (k + 1) + 1
        BY <3>1, <3>2, SubSeqProperties
    <3> QED BY <3>1, <3>3
  <2>3. RemoveAt(p, k) \in Seq(Seq(D))
      BY <2>1 DEF RemoveAt
  <2>4. Len(RemoveAt(p, k)) = Len(SubSeq(p, 1, k - 1)) + (Len(p) - k)
      BY <2>1, <2>2 DEF RemoveAt
  <2>5. Len(SubSeq(p, 1, k - 1)) \in Nat /\ Len(p) \in Nat /\ k \in Nat
      BY <2>1
  <2>6. Len(RemoveAt(p, k)) # 0
      BY <1>1, <2>4, <2>5
  <2> QED BY <2>3, <2>6
<1> QED BY <1>1 DEF Prune

LEMMA TakenPipe ==
    ASSUME NEW D, NEW p \in Seq(Seq(D)), NEW k \in DOMAIN p, p[k] # <<>>
    PROVE  /\ Taken(p, k) \in Seq(Seq(D)) /\ Taken(p, k) # <<>>
           /\ Next1(p, k) \in D
<1> DEFINE q == [p EXCEPT ![k] = Tail(@)]
<1>1. p[k] \in Seq(D) /\ Tail(p[k]) \in Seq(D) /\ Head(p[k]) \in D
    OBVIOUS
<1>2. q \in Seq(Seq(D)) /\ DOMAIN q = DOMAIN p /\ q # <<>>
    BY <1>1
<1> HIDE DEF q
<1>3. Prune(q, k) \in Seq(Seq(D)) /\ Prune(q, k) # <<>>
    BY <1>2, PrunePipe
<1> QED BY <1>1, <1>3 DEF Taken, Next1, q

LEMMA ReconnectedPipe ==
    ASSUME NEW D, NEW p \in Seq(Seq(D)), p # <<>>, NEW n \in 0..Len(p[Len(p)])
    PROVE  Reconnected(p, n) \in Seq(Seq(D)) /\ Reconnected(p, n) # <<>>
<1> DEFINE cut == SubSeq(p[Len(p)], 1, n)
           q   == [p EXCEPT ![Len(p)] = cut]
           r   == Append(q, <<>>)
<1>1. Len(p) \in DOMAIN p /\ p[Len(p)] \in Seq(D)
    OBVIOUS
<1>2. cut \in Seq(D)
    BY <1>1
<1>3. q \in Seq(Seq(D)) /\ Len(q) = Len(p)
    BY <1>1, <1>2
<1>4. <<>> \in Seq(D)
    OBVIOUS
<1>5. r \in Seq(Seq(D)) /\ Len(r) = Len(p) + 1
  <2> HIDE DEF q
  <2> QED BY <1>3, <1>4
<1>6. r # <<>> /\ Len(p) \in DOMAIN r
  <2> HIDE DEF r
  <2> QED BY <1>1, <1>5
<1>7. Prune(r, Len(p)) \in Seq(Seq(D)) /\ Prune(r, Len(p)) # <<>>
  <2> HIDE DEF r
  <2> QED BY <1>5, <1>6, PrunePipe
<1> QED BY <1>7 DEF Reconnected

LEMMA EmptyPipeOK ==
    ASSUME NEW D
    PROVE  EmptyPipe \in Seq(Seq(D)) /\ EmptyPipe # <<>>
BY DEF EmptyPipe

-----------------------------------------------------------------------------
(* The leader's log grows, its commit index too, and the follower keeps    *)
(* what it agrees on: then whatever was under way may still be.            *)

LEMMA AgreesLess ==
    ASSUME NEW flog, NEW log, NEW i \in Nat, NEW j \in 0..i, Agrees(flog, log, i),
           flog \in Log, log \in Log
    PROVE  Agrees(flog, log, j)
BY DEF Agrees, Log

(* Nothing that is under way is made untrue by a step that keeps the       *)
(* leader's entries and what the follower agrees on.                       *)
LEMMA UnderWayStays ==
    ASSUME NEW flog \in Log, NEW log \in Log, NEW c \in Nat,
           NEW flog2 \in Log, NEW log2 \in Log, NEW c2 \in Nat,
           c <= c2, Len(log) <= Len(log2), \A k \in 1..Len(log) : log2[k] = log[k],
           \A i \in Nat : Agrees(flog, log, i) => Agrees(flog2, log2, i)
    PROVE  /\ \A m \in Down(flog, log, c) : m \in Down(flog2, log2, c2)
           /\ \A m \in Back(flog, log) : m \in Back(flog2, log2)
<1>1. ASSUME NEW m \in Down(flog, log, c)
      PROVE  m \in Down(flog2, log2, c2)
  <2>1. m \in DownMsg
      BY DEF Down
  <2>2. CASE m.type = "MsgApp"
    <3>1. m.index \in Nat /\ m.entries \in Log /\ m.commit \in Nat
        BY <2>1, <2>2 DEF DownMsg
    <3>2. /\ m.index + Len(m.entries) <= Len(log)
          /\ m.log_term = log_term(log, m.index)
          /\ \A k \in DOMAIN m.entries : m.entries[k] = log[m.index + k]
          /\ m.commit <= c
        BY <2>2 DEF Down
    <3>3. Len(m.entries) \in Nat /\ DOMAIN m.entries = 1..Len(m.entries)
          /\ Len(log) \in Nat /\ Len(log2) \in Nat
        BY <3>1 DEF Log
    <3>4. m.index + Len(m.entries) <= Len(log2) /\ m.commit <= c2
        BY <3>1, <3>2, <3>3
    <3>5. log_term(log2, m.index) = log_term(log, m.index)
      <4>1. DOMAIN log = 1..Len(log) /\ DOMAIN log2 = 1..Len(log2) /\ m.index <= Len(log)
          BY <3>1, <3>2, <3>3 DEF Log
      <4> QED BY <3>1, <3>3, <4>1 DEF log_term
    <3>6. ASSUME NEW k \in DOMAIN m.entries
          PROVE  m.entries[k] = log2[m.index + k]
      <4>1. m.index + k \in 1..Len(log)
          BY <3>1, <3>2, <3>3
      <4> QED BY <3>2, <4>1
    <3> QED BY <2>1, <2>2, <3>2, <3>4, <3>5, <3>6 DEF Down
  <2>3. CASE m.type = "MsgHeartbeat"
    <3>1. m.commit \in Nat
        BY <2>1, <2>3 DEF DownMsg
    <3> QED BY <2>1, <2>3, <3>1 DEF Down
  <2>4. CASE m.type \notin {"MsgApp", "MsgHeartbeat"}
      BY <2>1, <2>4 DEF Down
  <2> QED BY <2>2, <2>3, <2>4
<1>2. ASSUME NEW m \in Back(flog, log)
      PROVE  m \in Back(flog2, log2)
  <2>1. m \in BackMsg
      BY DEF Back
  <2>2. CASE m.type = "MsgAppResp"
    <3>1. m.index \in Nat
        BY <2>1, <2>2 DEF BackMsg
    <3> QED BY <2>1, <2>2, <3>1 DEF Back
  <2>3. CASE m.type # "MsgAppResp"
      BY <2>1, <2>3 DEF Back
  <2> QED BY <2>2, <2>3
<1> QED BY <1>1, <1>2

(* The same for a step of the leader alone.                                *)
LEMMA LeaderGrows ==
    ASSUME NEW flog \in Log, NEW log \in Log, NEW c \in Nat,
           NEW log2 \in Log, NEW c2 \in Nat, c <= c2,
           Len(log) <= Len(log2), \A k \in 1..Len(log) : log2[k] = log[k]
    PROVE  /\ \A i \in Nat : Agrees(flog, log, i) => Agrees(flog, log2, i)
           /\ \A m \in Down(flog, log, c) : m \in Down(flog, log2, c2)
           /\ \A m \in Back(flog, log) : m \in Back(flog, log2)
<1>1. \A i \in Nat : Agrees(flog, log, i) => Agrees(flog, log2, i)
    BY DEF Agrees, Log
<1> QED BY <1>1, UnderWayStays

-----------------------------------------------------------------------------
(* Progress.                                                               *)

LEMMA InOrderEmpty == \A lo, hi : InOrder(<<>>, lo, hi)
<1>1. Len(<<>>) = 0 /\ 1..0 = {}
    OBVIOUS
<1> QED BY <1>1, Zenon DEF InOrder

LEMMA InOrderWider ==
    ASSUME NEW s \in Seq(Nat), NEW lo \in Nat, NEW hi \in Nat, NEW top \in Nat, hi <= top,
           InOrder(s, lo, hi)
    PROVE  InOrder(s, lo, top)
<1>1. \A k \in 1..Len(s) : s[k] \in Nat
    OBVIOUS
<1>2. ASSUME NEW k \in 1..Len(s)
      PROVE  lo < s[k] /\ s[k] < top
  <2>1. lo < s[k] /\ s[k] < hi /\ s[k] \in Nat
      BY <1>1 DEF InOrder
  <2> QED BY <2>1
<1> QED BY <1>2 DEF InOrder

LEMMA ResetState ==
    ASSUME NEW p \in PrType, NEW st \in {"Probe", "Replicate", "Snapshot"}
    PROVE  /\ reset_state(p, st) \in PrType
           /\ reset_state(p, st).match = p.match /\ reset_state(p, st).next = p.next
           /\ reset_state(p, st).state = st /\ reset_state(p, st).ins = <<>>
           /\ reset_state(p, st).pending_snapshot = 0
<1>1. <<>> \in Seq(Nat) /\ 0 \in Nat
    OBVIOUS
<1> QED BY <1>1, Zenon DEF reset_state, PrType

(* A progress out of which next can take any value up to the log's end.    *)
LEMMA BecomeReplicate ==
    ASSUME NEW flog \in Log, NEW log \in Log, NEW p \in PrType, Agrees(flog, log, p.match)
    PROVE  /\ ProgressOK(become_replicate(p), flog, log)
           /\ become_replicate(p).match = p.match /\ Repaired(become_replicate(p))
<1> DEFINE r == reset_state(p, "Replicate")
           q == become_replicate(p)
<1>1. r \in PrType /\ r.match = p.match /\ r.state = "Replicate" /\ r.ins = <<>>
      /\ r.pending_snapshot = 0
    BY ResetState
<1>2. q = [r EXCEPT !.next = p.match + 1]
    BY DEF become_replicate
<1> HIDE DEF r, q
<1>3. p.match \in Nat /\ p.match <= Len(log) /\ Len(log) \in Nat
    BY DEF PrType, Agrees, Log
<1>4. q \in PrType /\ q.match = p.match /\ q.next = p.match + 1 /\ q.state = "Replicate"
      /\ q.ins = <<>> /\ q.pending_snapshot = 0
  <2>1. p.match + 1 \in Nat
      BY <1>3
  <2> QED BY <1>1, <1>2, <2>1, Zenon DEF PrType
<1>5. Window(q)
  <2>1. Len(q.ins) = 0 /\ InOrder(q.ins, q.match, q.next)
      BY <1>4, InOrderEmpty
  <2>2. q.match < q.next
      BY <1>3, <1>4
  <2> QED BY <2>1, <2>2, ReplicationAssumption DEF Window
<1>6. ProgressOK(q, flog, log)
    BY <1>3, <1>4, <1>5 DEF ProgressOK
<1>7. Repaired(q)
    BY <1>4, <1>5 DEF Window, Repaired
<1> QED BY <1>4, <1>6, <1>7 DEF q

LEMMA BecomeProbe ==
    ASSUME NEW flog \in Log, NEW log \in Log, NEW p \in PrType, Agrees(flog, log, p.match),
           p.pending_snapshot <= Len(log)
    PROVE  /\ ProgressOK(become_probe(p), flog, log)
           /\ become_probe(p).match = p.match /\ become_probe(p).state = "Probe"
           /\ Repaired(become_probe(p))
<1> DEFINE r == reset_state(p, "Probe")
           x == IF p.state = "Snapshot" THEN max(p.match, p.pending_snapshot) + 1 ELSE p.match + 1
           q == become_probe(p)
<1>1. r \in PrType /\ r.match = p.match /\ r.state = "Probe" /\ r.pending_snapshot = 0
    BY ResetState
<1>2. q = [r EXCEPT !.next = x]
    BY DEF become_probe
<1>3. p.match \in Nat /\ p.pending_snapshot \in Nat /\ p.match <= Len(log) /\ Len(log) \in Nat
    BY DEF PrType, Agrees, Log
<1>4. x \in 1..(Len(log) + 1) /\ p.match < x
    BY <1>3 DEF max
<1> HIDE DEF r, q, x
<1>5. q \in PrType /\ q.match = p.match /\ q.next = x /\ q.state = "Probe"
      /\ q.pending_snapshot = 0
  <2>1. x \in Nat
      BY <1>3, <1>4
  <2> QED BY <1>1, <1>2, <2>1, Zenon DEF PrType
<1>6. ProgressOK(q, flog, log)
    BY <1>3, <1>4, <1>5 DEF ProgressOK
<1>7. Repaired(q)
    BY <1>4, <1>5 DEF Repaired
<1> QED BY <1>5, <1>6, <1>7 DEF q

LEMMA BecomeSnapshot ==
    ASSUME NEW flog \in Log, NEW log \in Log, NEW p, ProgressOK(p, flog, log),
           NEW s \in 0..Len(log)
    PROVE  /\ ProgressOK(become_snapshot(p, s), flog, log)
           /\ become_snapshot(p, s).match = p.match
           /\ p.match < p.next /\ p.match < s => Repaired(become_snapshot(p, s))
<1> DEFINE r == reset_state(p, "Snapshot")
           q == become_snapshot(p, s)
<1>1. r \in PrType /\ r.match = p.match /\ r.next = p.next /\ r.state = "Snapshot"
    BY ResetState DEF ProgressOK
<1>2. q = [r EXCEPT !.pending_snapshot = s]
    BY DEF become_snapshot
<1> HIDE DEF r, q
<1>3. Len(log) \in Nat
    BY DEF Log
<1>4. q \in PrType /\ q.match = p.match /\ q.next = p.next /\ q.state = "Snapshot"
      /\ q.pending_snapshot = s
  <2>1. s \in Nat
      BY <1>3
  <2> QED BY <1>1, <1>2, <2>1, Zenon DEF PrType
<1>5. ProgressOK(q, flog, log)
    BY <1>3, <1>4 DEF ProgressOK
<1>6. p.match < p.next /\ p.match < s => Repaired(q)
    BY <1>4 DEF Repaired
<1> QED BY <1>4, <1>5, <1>6 DEF q

LEMMA InOrderAppend ==
    ASSUME NEW s \in Seq(Nat), NEW lo \in Nat, NEW hi \in Nat, NEW x \in Nat,
           InOrder(s, lo, hi), lo < hi, hi <= x
    PROVE  InOrder(Append(s, x), lo, x + 1)
<1> DEFINE t == Append(s, x)
<1>1. /\ t \in Seq(Nat) /\ Len(t) = Len(s) + 1 /\ Len(s) \in Nat
      /\ \A k \in 1..Len(s) : t[k] = s[k] /\ s[k] \in Nat
      /\ t[Len(s) + 1] = x
    OBVIOUS
<1> HIDE DEF t
<1>2. \A k \in 1..Len(t) : k \in 1..Len(s) \/ k = Len(s) + 1
    BY <1>1
<1>3. ASSUME NEW k \in 1..Len(t)
      PROVE  /\ lo < t[k] /\ t[k] < x + 1
             /\ k \in 1..Len(s) => t[k] < x
  <2>1. CASE k \in 1..Len(s)
    <3>1. lo < s[k] /\ s[k] < hi /\ s[k] \in Nat /\ t[k] = s[k]
        BY <1>1, <2>1 DEF InOrder
    <3> QED BY <3>1
  <2>2. CASE k = Len(s) + 1
    <3>1. t[k] = x /\ k \notin 1..Len(s)
        BY <1>1, <2>2
    <3> QED BY <3>1
  <2> QED BY <1>2, <2>1, <2>2
<1>4. ASSUME NEW k \in 1..Len(t), NEW l \in 1..Len(t), k < l
      PROVE  t[k] < t[l]
  <2>1. k \in 1..Len(s)
      BY <1>1, <1>4
  <2>2. CASE l \in 1..Len(s)
    <3>1. s[k] < s[l]
        BY <1>4, <2>1, <2>2 DEF InOrder
    <3> QED BY <1>1, <2>1, <2>2, <3>1
  <2>3. CASE l = Len(s) + 1
      BY <1>1, <1>3, <2>1, <2>3
  <2> QED BY <1>2, <2>2, <2>3
<1> QED BY <1>3, <1>4 DEF InOrder, t

LEMMA InOrderSuffix ==
    ASSUME NEW s \in Seq(Nat), NEW lo \in Nat, NEW hi \in Nat, NEW to \in Nat,
           NEW first \in 1..Len(s), to < s[first], InOrder(s, lo, hi)
    PROVE  LET t == SubSeq(s, first, Len(s))
           IN  /\ t \in Seq(Nat) /\ Len(t) <= Len(s)
               /\ InOrder(t, to, hi) /\ InOrder(t, lo, hi)
<1> DEFINE t == SubSeq(s, first, Len(s))
<1>1. Len(s) \in Nat /\ first \in Nat /\ 1 <= first /\ first <= Len(s)
      /\ \A k \in 1..Len(s) : s[k] \in Nat
    OBVIOUS
<1>2. /\ t \in Seq(Nat) /\ Len(t) = Len(s) - first + 1
      /\ \A k \in 1..(Len(s) - first + 1) : t[k] = s[first + k - 1]
  <2>1. first \in Int /\ Len(s) \in Int /\ \A i \in first..Len(s) : s[i] \in Nat
      BY <1>1
  <2> QED BY <1>1, <2>1, SubSeqProperties
<1> HIDE DEF t
<1>3. \A k \in 1..Len(t) : /\ k \in Nat /\ first + k - 1 \in 1..Len(s)
                           /\ first <= first + k - 1 /\ t[k] = s[first + k - 1]
    BY <1>1, <1>2
<1>4. ASSUME NEW k \in 1..Len(t)
      PROVE  lo < t[k] /\ t[k] < hi /\ to < t[k]
  <2>1. PICK j \in 1..Len(s) : first <= j /\ t[k] = s[j]
      BY <1>3
  <2>2. lo < s[j] /\ s[j] < hi /\ (first < j => s[first] < s[j])
      BY <2>1 DEF InOrder
  <2>3. s[first] \in Nat /\ s[j] \in Nat /\ (first = j \/ first < j)
      BY <1>1, <2>1
  <2> QED BY <2>1, <2>2, <2>3
<1>5. ASSUME NEW k \in 1..Len(t), NEW l \in 1..Len(t), k < l
      PROVE  t[k] < t[l]
  <2>1. first + k - 1 < first + l - 1
      BY <1>1, <1>3, <1>5
  <2> QED BY <1>3, <2>1 DEF InOrder
<1>6. Len(t) <= Len(s)
    BY <1>1, <1>2
<1> QED BY <1>2, <1>4, <1>5, <1>6 DEF InOrder, t

(* What free_to leaves of an ordered window: its indexes above to.         *)
LEMMA FreeTo ==
    ASSUME NEW p \in PrType, NEW to \in Nat, NEW lo \in Nat, NEW hi \in Nat,
           InOrder(p.ins, lo, hi)
    PROVE  LET q == free_to(p, to)
           IN  /\ q \in PrType
               /\ q.match = p.match /\ q.next = p.next /\ q.state = p.state
               /\ q.pending_snapshot = p.pending_snapshot
               /\ Len(q.ins) <= Len(p.ins)
               /\ InOrder(q.ins, to, hi) /\ InOrder(q.ins, lo, hi)
<1> DEFINE above == {k \in DOMAIN p.ins : p.ins[k] > to}
           first == CHOOSE k \in above : \A l \in above : k <= l
           left  == IF above = {} THEN <<>> ELSE SubSeq(p.ins, first, Len(p.ins))
           st    == IF left = <<>> THEN 0 ELSE (p.start + Len(p.ins) - Len(left)) % MaxInflight
<1>1. p.ins \in Seq(Nat) /\ Len(p.ins) \in Nat /\ p.start \in Nat
      /\ DOMAIN p.ins = 1..Len(p.ins)
    BY DEF PrType
<1>2. /\ left \in Seq(Nat) /\ Len(left) <= Len(p.ins)
      /\ InOrder(left, to, hi) /\ InOrder(left, lo, hi)
  <2>1. CASE above = {}
    <3>1. left = <<>>
        BY <2>1
    <3>2. <<>> \in Seq(Nat) /\ Len(<<>>) <= Len(p.ins)
        BY <1>1
    <3> QED BY <3>1, <3>2, InOrderEmpty, Zenon
  <2>2. CASE above # {}
    <3>1. above \in SUBSET Nat
        BY <1>1
    <3>2. first \in above
      <4>1. \E k \in above : \A l \in above : k <= l
        <5> HIDE DEF above
        <5> QED BY <2>2, <3>1, LeastElement
      <4> QED BY <4>1
    <3>3. left = SubSeq(p.ins, first, Len(p.ins))
        BY <2>2
    <3> HIDE DEF first
    <3>4. first \in 1..Len(p.ins) /\ to < p.ins[first]
        BY <1>1, <3>2
    <3> QED BY <1>1, <3>3, <3>4, InOrderSuffix
  <2> QED BY <2>1, <2>2
<1> HIDE DEF left
<1>3. st \in Nat
  <2>1. Len(left) \in Nat
      BY <1>2
  <2>2. p.start + Len(p.ins) - Len(left) \in Nat
      BY <1>1, <1>2, <2>1
  <2> QED BY <2>2, ReplicationAssumption
<1> HIDE DEF st
<1>4. free_to(p, to) = [p EXCEPT !.ins = left, !.start = st]
    BY DEF free_to, left, st
<1>5. /\ free_to(p, to) \in PrType /\ free_to(p, to).ins = left
      /\ free_to(p, to).match = p.match /\ free_to(p, to).next = p.next
      /\ free_to(p, to).state = p.state
      /\ free_to(p, to).pending_snapshot = p.pending_snapshot
    BY <1>2, <1>3, <1>4, Zenon DEF PrType
<1> QED BY <1>2, <1>5

LEMMA MaybeUpdate ==
    ASSUME NEW flog \in Log, NEW log \in Log, NEW p, ProgressOK(p, flog, log),
           NEW idx \in Nat, Agrees(flog, log, idx)
    PROVE  LET q == maybe_update(p, idx)
           IN  /\ q \in PrType
               /\ q.match = max(p.match, idx) /\ q.next = max(p.next, idx + 1)
               /\ q.state = p.state /\ q.ins = p.ins
               /\ q.pending_snapshot = p.pending_snapshot
               /\ Agrees(flog, log, q.match)
               /\ q.next \in 1..(Len(log) + 1) /\ q.pending_snapshot <= Len(log)
               /\ p.match < idx => q.match < q.next
               /\ idx <= p.match => ProgressOK(q, flog, log)
<1> DEFINE mt == max(p.match, idx)
           nx == max(p.next, idx + 1)
           pd == p.paused /\ ~(p.match < idx)
           q  == maybe_update(p, idx)
<1>1. p \in PrType /\ p.match \in Nat /\ p.next \in Nat /\ Len(log) \in Nat
    BY DEF ProgressOK, PrType, Log
<1>2. mt \in Nat /\ nx \in Nat /\ mt \in {p.match, idx}
    BY <1>1 DEF max
<1>3. pd \in BOOLEAN
    BY Zenon
<1>4. q = [p EXCEPT !.match = mt, !.paused = pd, !.next = nx]
    BY <1>1, Zenon DEF maybe_update, PrType
<1>5. Agrees(flog, log, mt)
    BY <1>2 DEF ProgressOK
<1>6. nx \in 1..(Len(log) + 1) /\ p.pending_snapshot <= Len(log)
    BY <1>1 DEF ProgressOK, Agrees, max
<1>7. p.match < idx => mt < nx
    BY <1>1 DEF max
<1>8. ASSUME idx <= p.match
      PROVE  mt = p.match /\ (p.match < p.next => nx = p.next)
    BY <1>1, <1>8 DEF max
<1> HIDE DEF mt, nx, pd, q
<1>9. q \in PrType /\ q.match = mt /\ q.next = nx /\ q.state = p.state /\ q.ins = p.ins
      /\ q.pending_snapshot = p.pending_snapshot
    BY <1>1, <1>2, <1>3, <1>4, Zenon DEF PrType
<1>10. ASSUME idx <= p.match
       PROVE  ProgressOK(q, flog, log)
  <2>1. q.state = "Replicate" => Window(q)
      BY <1>8, <1>9, <1>10 DEF ProgressOK, Window
  <2> QED BY <1>5, <1>6, <1>9, <2>1 DEF ProgressOK
<1> QED BY <1>5, <1>6, <1>7, <1>9, <1>10 DEF mt, nx, q

LEMMA Sent ==
    ASSUME NEW flog \in Log, NEW log \in Log, NEW p, ProgressOK(p, flog, log), ~is_paused(p),
           NEW ents \in Log, p.next + Len(ents) - 1 <= Len(log)
    PROVE  /\ ProgressOK(sent(p, ents), flog, log)
           /\ Repaired(p) => Repaired(sent(p, ents))
<1> DEFINE last == p.next + Len(ents) - 1
<1>1. p \in PrType /\ p.match \in Nat /\ p.next \in Nat /\ p.next >= 1 /\ Len(log) \in Nat
      /\ Len(ents) \in Nat /\ p.ins \in Seq(Nat) /\ Len(p.ins) \in Nat
      /\ DOMAIN p.ins = 1..Len(p.ins)
    BY DEF ProgressOK, PrType, Log
<1>2. CASE ents = <<>>
    BY <1>2 DEF sent
<1>3. CASE ents # <<>> /\ p.state = "Replicate"
  <2> DEFINE ins == Append(p.ins, last)
             q == sent(p, ents)
  <2>1. last \in Nat /\ p.next <= last /\ last + 1 \in 1..(Len(log) + 1)
    <3>1. Len(ents) # 0
        BY <1>3 DEF Log
    <3> QED BY <1>1, <3>1
  <2>2. q = [p EXCEPT !.next = last + 1, !.ins = ins]
      BY <1>3 DEF sent
  <2> HIDE DEF last
  <2>3. ins \in Seq(Nat) /\ Len(ins) = Len(p.ins) + 1
      BY <1>1, <2>1
  <2>4. last + 1 \in Nat
      BY <2>1
  <2>5. Window(p)
      BY <1>3 DEF ProgressOK
  <2>6. Len(p.ins) # MaxInflight
      BY <1>3 DEF is_paused, is_full
  <2> HIDE DEF ins, q
  <2>7. q \in PrType /\ q.match = p.match /\ q.next = last + 1 /\ q.state = p.state
        /\ q.ins = ins /\ q.pending_snapshot = p.pending_snapshot
      BY <1>1, <2>2, <2>3, <2>4, Zenon DEF PrType
  <2>8. Window(q)
    <3>1. q.match < q.next
        BY <1>1, <2>1, <2>5, <2>7 DEF Window
    <3>2. Len(q.ins) <= MaxInflight
        BY <1>1, <2>3, <2>5, <2>6, <2>7, ReplicationAssumption DEF Window
    <3>3. InOrder(ins, p.match, last + 1)
      <4>1. p.match < p.next /\ InOrder(p.ins, p.match, p.next)
          BY <2>5 DEF Window
      <4> QED BY <1>1, <2>1, <4>1, InOrderAppend DEF ins
    <3> QED BY <2>7, <3>1, <3>2, <3>3 DEF Window
  <2>9. Agrees(flog, log, q.match) /\ q.next \in 1..(Len(log) + 1) /\ q.pending_snapshot <= Len(log)
      BY <2>1, <2>7 DEF ProgressOK
  <2>10. q.match < q.next /\ q.state # "Snapshot"
      BY <1>3, <2>7, <2>8 DEF Window
  <2>11. ProgressOK(q, flog, log) /\ Repaired(q)
      BY <2>7, <2>8, <2>9, <2>10 DEF ProgressOK, Repaired
  <2> QED BY <2>11 DEF q
<1>4. CASE ents # <<>> /\ p.state # "Replicate"
  <2> DEFINE q == [p EXCEPT !.paused = TRUE]
  <2>1. sent(p, ents) = q
      BY <1>4 DEF sent
  <2>2. q \in PrType /\ q.match = p.match /\ q.next = p.next /\ q.state = p.state
        /\ q.ins = p.ins /\ q.pending_snapshot = p.pending_snapshot
      BY <1>1, Zenon DEF PrType
  <2> HIDE DEF q
  <2>3. ProgressOK(q, flog, log) /\ (Repaired(p) => Repaired(q))
      BY <1>4, <2>2 DEF ProgressOK, Repaired
  <2> QED BY <2>1, <2>3
<1> QED BY <1>2, <1>3, <1>4

-----------------------------------------------------------------------------
(* The leader.                                                             *)

(* r is the leader n after a call that leaves its log and indexes alone.   *)
Follows(r, n, flog) ==
    /\ LeaderOK(r, flog)
    /\ r.log = n.log /\ r.committed = n.committed /\ r.other = n.other

WithMsgs(n, q, ms) == [n EXCEPT !.pr = q, !.msgs = ms]

LEMMA LeaderUpdate ==
    ASSUME NEW flog \in Log, NEW n, LeaderOK(n, flog), NEW q, ProgressOK(q, flog, n.log),
           NEW ms \in Seq(Down(flog, n.log, n.committed))
    PROVE  /\ Follows(WithMsgs(n, q, ms), n, flog)
           /\ WithMsgs(n, q, ms).pr = q
<1> DEFINE r == WithMsgs(n, q, ms)
<1>1. n \in LdrType
    BY DEF LeaderOK
<1>2. q \in PrType
    BY DEF ProgressOK
<1>3. ms \in Seq(DownMsg)
  <2>1. \A m \in Down(flog, n.log, n.committed) : m \in DownMsg
      BY DEF Down
  <2> QED BY <2>1, SeqOfSubset
<1>4. r \in LdrType /\ r.log = n.log /\ r.committed = n.committed /\ r.other = n.other
      /\ r.snap = n.snap /\ r.first = n.first /\ r.pr = q /\ r.msgs = ms
    BY <1>1, <1>2, <1>3, Zenon DEF LdrType, WithMsgs
<1> HIDE DEF r
<1>5. LeaderOK(r, flog)
    BY <1>4 DEF LeaderOK
<1> QED BY <1>4, <1>5 DEF r, Follows

WithProgress(n, q) == [n EXCEPT !.pr = q]

LEMMA LeaderProgress ==
    ASSUME NEW flog \in Log, NEW n, LeaderOK(n, flog), NEW q, ProgressOK(q, flog, n.log)
    PROVE  /\ Follows(WithProgress(n, q), n, flog)
           /\ WithProgress(n, q).pr = q /\ WithProgress(n, q).msgs = n.msgs
<1>1. n.msgs \in Seq(Down(flog, n.log, n.committed)) /\ n \in LdrType
    BY DEF LeaderOK
<1>2. WithProgress(n, q) = WithMsgs(n, q, n.msgs)
    BY <1>1, Zenon DEF LdrType, WithMsgs, WithProgress
<1>3. WithProgress(n, q).msgs = n.msgs /\ WithProgress(n, q).pr = q
    BY <1>1, Zenon DEF LdrType, WithProgress
<1>4. Follows(WithMsgs(n, q, n.msgs), n, flog)
    BY <1>1, LeaderUpdate
<1> QED BY <1>2, <1>3, <1>4, Zenon

LEMMA Concatenated ==
    ASSUME NEW S, NEW u \in Seq(S), NEW v \in Seq(S)
    PROVE  /\ u \o v \in Seq(S) /\ Len(u \o v) = Len(u) + Len(v)
           /\ \A k \in 1..Len(u) : (u \o v)[k] = u[k]
           /\ \A k \in 1..Len(v) : (u \o v)[Len(u) + k] = v[k]
OBVIOUS

LEMMA Elements ==
    ASSUME NEW S, NEW s \in Seq(S)
    PROVE  Len(s) \in Nat /\ DOMAIN s = 1..Len(s) /\ \A k \in 1..Len(s) : s[k] \in S
OBVIOUS

LEMMA LogTerm ==
    ASSUME NEW log \in Log, NEW i \in Nat
    PROVE  log_term(log, i) \in Nat
<1>1. Term \in Nat /\ DOMAIN log = 1..Len(log)
    BY ReplicationAssumption DEF Log
<1>2. \A k \in 1..Len(log) : log[k] \in 1..Term
    BY Elements, Zenon DEF Log
<1>3. CASE i \in 1..Len(log)
  <2>1. log[i] \in Nat
      BY <1>1, <1>2, <1>3
  <2> QED BY <1>1, <1>3, <2>1 DEF log_term
<1>4. CASE i \notin 1..Len(log)
    BY <1>1, <1>4 DEF log_term
<1> QED BY <1>3, <1>4

(* The last index of the message that starts at next.                      *)
LEMMA LastSent ==
    ASSUME NEW next \in Nat, NEW len \in Nat, next <= len + 1, 1 <= next
    PROVE  LET last == min(next + MaxMsgEntries - 1, len)
           IN  last \in Nat /\ last <= len /\ next - 1 <= last
<1>1. MaxMsgEntries \in Nat \ {0}
    BY ReplicationAssumption
<1> QED BY <1>1 DEF min

LEMMA LogPiece ==
    ASSUME NEW log \in Log, NEW lo \in Nat, NEW hi \in Nat,
           1 <= lo, lo - 1 <= hi, hi <= Len(log)
    PROVE  /\ SubSeq(log, lo, hi) \in Log
           /\ Len(SubSeq(log, lo, hi)) = hi - lo + 1
           /\ \A k \in 1..(hi - lo + 1) : SubSeq(log, lo, hi)[k] = log[lo + k - 1]
<1>1. \A i \in lo..hi : log[i] \in 1..Term
  <2>1. Len(log) \in Nat /\ \A i \in 1..Len(log) : log[i] \in 1..Term
      BY Elements, Zenon DEF Log
  <2> QED BY <2>1
<1>2. lo \in Int /\ hi \in Int
    OBVIOUS
<1>3. hi - lo + 1 = IF lo <= hi THEN hi - lo + 1 ELSE 0
    OBVIOUS
<1> DEFINE S == 1..Term
<1>4. \A i \in lo..hi : log[i] \in S
    BY <1>1
<1> HIDE DEF S
<1>5. /\ SubSeq(log, lo, hi) \in Seq(S)
      /\ Len(SubSeq(log, lo, hi)) = IF lo <= hi THEN hi - lo + 1 ELSE 0
      /\ \A k \in 1..(hi - lo + 1) : SubSeq(log, lo, hi)[k] = log[lo + k - 1]
    BY <1>2, <1>4, SubSeqProperties
<1> QED BY <1>3, <1>5 DEF S, Log

(* One message: the window or the pause takes note of it.                  *)
LEMMA MaybeSendAppend ==
    ASSUME NEW flog \in Log, NEW n, LeaderOK(n, flog), NEW b \in BOOLEAN
    PROVE  /\ Follows(maybe_send_append(n, b), n, flog)
           /\ maybe_send_append(n, b).pr.match = n.pr.match
           /\ Repaired(n.pr) => Repaired(maybe_send_append(n, b).pr)
<1> DEFINE p == n.pr
           compacted == p.next < n.first
           ents == IF compacted THEN <<>>
                   ELSE SubSeq(n.log, p.next, min(p.next + MaxMsgEntries - 1, Len(n.log)))
<1>1. n \in LdrType /\ n.log \in Log /\ n.snap \in Nat /\ n.first \in Nat /\ n.committed \in Nat
      /\ n.msgs \in Seq(Down(flog, n.log, n.committed)) /\ ProgressOK(p, flog, n.log)
      /\ n.committed <= Len(n.log) /\ n.snap <= n.committed /\ n.first <= n.snap + 1
    BY DEF LeaderOK, LdrType
<1>2. p \in PrType /\ p.next \in Nat /\ p.match \in Nat /\ p.next >= 1 /\ p.next <= Len(n.log) + 1
      /\ Len(n.log) \in Nat
    BY <1>1 DEF ProgressOK, PrType, Log
<1>3. CASE is_paused(p) \/ (ents = <<>> /\ ~b) \/ (compacted /\ ~p.recent_active)
  <2>1. maybe_send_append(n, b) = n
      BY <1>3 DEF maybe_send_append
  <2> QED BY <2>1 DEF Follows
<1>4. CASE ~(is_paused(p) \/ (ents = <<>> /\ ~b) \/ (compacted /\ ~p.recent_active)) /\ compacted
  <2> DEFINE q == become_snapshot(p, n.snap)
             ms == Append(n.msgs, [type |-> "MsgSnap"])
  <2>1. maybe_send_append(n, b) = WithMsgs(n, q, ms)
      BY <1>4 DEF maybe_send_append, WithMsgs
  <2>2. n.snap \in 0..Len(n.log) /\ (p.match < p.next => p.match < n.snap)
      BY <1>1, <1>2, <1>4, SMTT(30)
  <2>3. ProgressOK(q, flog, n.log) /\ q.match = p.match /\ (Repaired(p) => Repaired(q))
    <3> HIDE DEF p
    <3> QED BY <1>1, <2>2, BecomeSnapshot DEF Repaired
  <2>4. [type |-> "MsgSnap"] \in Down(flog, n.log, n.committed)
      BY DEF Down, DownMsg
  <2>5. ms \in Seq(Down(flog, n.log, n.committed))
      BY <1>1, <2>4
  <2> HIDE DEF q, ms
  <2>7. /\ Follows(WithMsgs(n, q, ms), n, flog)
        /\ WithMsgs(n, q, ms).pr = q
      BY <2>3, <2>5, LeaderUpdate
  <2> QED BY <2>1, <2>3, <2>7, Zenon
<1>5. CASE ~(is_paused(p) \/ (ents = <<>> /\ ~b) \/ (compacted /\ ~p.recent_active)) /\ ~compacted
  <2> DEFINE last == min(p.next + MaxMsgEntries - 1, Len(n.log))
             q == sent(p, ents)
             ms == Append(n.msgs, App(n, ents))
  <2>1. maybe_send_append(n, b) = WithMsgs(n, q, ms)
      BY <1>5 DEF maybe_send_append, WithMsgs
  <2>2. ents = SubSeq(n.log, p.next, last)
      BY <1>5
  <2>3. last \in Nat /\ last <= Len(n.log) /\ p.next - 1 <= last
    <3> HIDE DEF p
    <3> QED BY <1>2, LastSent
  <2> HIDE DEF last
  <2>4. /\ ents \in Log /\ Len(ents) = last - p.next + 1
        /\ \A k \in 1..Len(ents) : ents[k] = n.log[p.next + k - 1]
    <3> HIDE DEF p
    <3>1. /\ SubSeq(n.log, p.next, last) \in Log
          /\ Len(SubSeq(n.log, p.next, last)) = last - p.next + 1
          /\ \A k \in 1..(last - p.next + 1) : SubSeq(n.log, p.next, last)[k] = n.log[p.next + k - 1]
        BY <1>1, <1>2, <2>3, LogPiece, SMTT(30)
    <3> HIDE DEF ents
    <3> QED BY <2>2, <3>1
  <2> HIDE DEF ents
  <2>5. p.next + Len(ents) - 1 <= Len(n.log) /\ Len(ents) \in Nat /\ DOMAIN ents = 1..Len(ents)
      BY <1>2, <2>3, <2>4, SMTT(30) DEF Log
  <2>6. ProgressOK(q, flog, n.log) /\ (Repaired(p) => Repaired(q))
      BY <1>1, <1>5, <2>4, <2>5, Sent
  <2>7. App(n, ents) \in Down(flog, n.log, n.committed)
    <3> DEFINE m == App(n, ents)
    <3>1. m.type = "MsgApp" /\ m.index = p.next - 1 /\ m.entries = ents /\ m.commit = n.committed
          /\ m.log_term = log_term(n.log, p.next - 1)
        BY DEF App
    <3>2. p.next - 1 \in Nat /\ p.next - 1 + Len(ents) <= Len(n.log)
        BY <1>2, <2>5
    <3>3. log_term(n.log, p.next - 1) \in Nat
        BY <1>1, <3>2, LogTerm
    <3>4. m \in DownMsg
        BY <1>1, <2>4, <3>2, <3>3 DEF App, DownMsg
    <3>5. \A k \in 1..Len(ents) : ents[k] = n.log[(p.next - 1) + k]
      <4>1. \A k \in 1..Len(ents) : (p.next - 1) + k = p.next + k - 1
          BY <1>2, <2>5
      <4> QED BY <2>4, <4>1
    <3>6. n.committed <= n.committed
        BY <1>1
    <3> HIDE DEF m
    <3> QED BY <2>5, <3>1, <3>2, <3>4, <3>5, <3>6 DEF Down, m
  <2>8. ms \in Seq(Down(flog, n.log, n.committed))
      BY <1>1, <2>7
  <2>9. q.match = p.match
      BY <1>2, Zenon DEF sent, PrType
  <2> HIDE DEF q, ms
  <2>10. /\ Follows(WithMsgs(n, q, ms), n, flog)
         /\ WithMsgs(n, q, ms).pr = q
      BY <2>6, <2>8, LeaderUpdate
  <2> QED BY <2>1, <2>6, <2>9, <2>10, Zenon
<1> QED BY <1>3, <1>4, <1>5

LEMMA SendAppend ==
    ASSUME NEW flog \in Log, NEW n, LeaderOK(n, flog)
    PROVE  /\ Follows(send_append(n), n, flog)
           /\ send_append(n).pr.match = n.pr.match
           /\ Repaired(n.pr) => Repaired(send_append(n).pr)
BY MaybeSendAppend DEF send_append

(* One round of the loop of send_appends, and the rounds that f stands for.*)
Round(m) == CHOOSE r \in {maybe_send_append(b, FALSE) : b \in {m}} : TRUE

Rounds(f, n, i) == f = [k \in 0..i |-> IF k = 0 THEN n ELSE Round(f[k - 1])]

LEMMA RoundIs == \A m : Round(m) = maybe_send_append(m, FALSE)
<1> TAKE m
<1>1. {maybe_send_append(b, FALSE) : b \in {m}} = {maybe_send_append(m, FALSE)}
    BY Zenon
<1> DEFINE x == maybe_send_append(m, FALSE)
<1> HIDE DEF x
<1>2. (CHOOSE r \in {x} : TRUE) = x
    OBVIOUS
<1> QED BY <1>1, <1>2 DEF Round, x

LEMMA RoundsExist ==
    ASSUME NEW n, NEW i \in Nat
    PROVE  \E f : Rounds(f, n, i)
<1> DEFINE S == {j \in Nat : \E f : Rounds(f, n, j)}
<1>1. 0 \in S
  <2> DEFINE f == [k \in 0..0 |-> n]
  <2>1. f = [k \in 0..0 |-> IF k = 0 THEN n ELSE Round(f[k - 1])]
      OBVIOUS
  <2> HIDE DEF f
  <2> QED BY <2>1 DEF Rounds
<1>2. ASSUME NEW j \in Nat, j \in S
      PROVE  j + 1 \in S
  <2>1. PICK g : Rounds(g, n, j)
      BY <1>2
  <2> DEFINE f == [k \in 0..(j + 1) |-> IF k = 0 THEN n ELSE Round(g[k - 1])]
  <2>2. ASSUME NEW k \in 0..j
        PROVE  f[k] = g[k]
    <3>1. g = [l \in 0..j |-> IF l = 0 THEN n ELSE Round(g[l - 1])]
        BY <2>1, Zenon DEF Rounds
    <3>2. g[k] = IF k = 0 THEN n ELSE Round(g[k - 1])
        BY <3>1, Zenon
    <3>3. k \in 0..(j + 1)
        OBVIOUS
    <3>4. f[k] = IF k = 0 THEN n ELSE Round(g[k - 1])
        BY <3>3, Zenon
    <3> QED BY <3>2, <3>4, Zenon
  <2>3. ASSUME NEW k \in 0..(j + 1), k # 0
        PROVE  f[k - 1] = g[k - 1]
    <3>1. k - 1 \in 0..j
        BY <2>3
    <3> QED BY <2>2, <3>1, Zenon
  <2>4. f = [k \in 0..(j + 1) |-> IF k = 0 THEN n ELSE Round(f[k - 1])]
    <3>1. ASSUME NEW k \in 0..(j + 1)
          PROVE  (IF k = 0 THEN n ELSE Round(g[k - 1])) = (IF k = 0 THEN n ELSE Round(f[k - 1]))
        BY <2>3, Zenon
    <3> QED BY <3>1, Zenon
  <2> HIDE DEF f
  <2>5. \E h : Rounds(h, n, j + 1)
      BY <2>4 DEF Rounds
  <2> QED BY <2>5
<1>3. \A j \in Nat : j \in S
  <2> HIDE DEF S
  <2> QED BY <1>1, <1>2, NatSetInduction
<1> QED BY <1>3

(* The whole loop, by induction on its rounds.                             *)
LEMMA SendAppends ==
    ASSUME NEW flog \in Log, NEW n, LeaderOK(n, flog)
    PROVE  /\ Follows(send_appends(n), n, flog)
           /\ send_appends(n).pr.match = n.pr.match
           /\ Repaired(n.pr) => Repaired(send_appends(n).pr)
<1> DEFINE N == MaxInflight + 1
           f == CHOOSE g : Rounds(g, n, N)
           S == {j \in Nat : j <= N => /\ Follows(f[j], n, flog)
                                       /\ f[j].pr.match = n.pr.match
                                       /\ Repaired(n.pr) => Repaired(f[j].pr)}
<1>1. N \in Nat
    BY ReplicationAssumption
<1>2. Rounds(f, n, N)
    BY <1>1, RoundsExist, Zenon
<1>3. send_appends(n) = f[N]
    BY Zenon DEF send_appends, Rounds, Round
<1> HIDE DEF N, f
<1>4. f[0] = n /\ \A j \in Nat : j + 1 <= N => f[j + 1] = Round(f[j])
  <2>1. f = [k \in 0..N |-> IF k = 0 THEN n ELSE Round(f[k - 1])]
      BY <1>2, Zenon DEF Rounds
  <2>2. \A k \in 0..N : f[k] = IF k = 0 THEN n ELSE Round(f[k - 1])
      BY <2>1, Zenon
  <2>3. ASSUME NEW j \in Nat, j + 1 <= N
        PROVE  f[j + 1] = Round(f[j])
    <3>1. j + 1 \in 0..N /\ j + 1 # 0 /\ (j + 1) - 1 = j
        BY <1>1, <2>3
    <3>2. f[j + 1] = Round(f[(j + 1) - 1])
        BY <2>2, <3>1, Zenon
    <3> QED BY <3>1, <3>2
  <2>4. 0 \in 0..N
      BY <1>1
  <2> QED BY <2>2, <2>3, <2>4
<1>5. 0 \in S
    BY <1>4 DEF Follows
<1>6. ASSUME NEW j \in Nat, j \in S
      PROVE  j + 1 \in S
  <2> SUFFICES ASSUME j + 1 <= N
               PROVE  /\ Follows(f[j + 1], n, flog) /\ f[j + 1].pr.match = n.pr.match
                      /\ Repaired(n.pr) => Repaired(f[j + 1].pr)
      OBVIOUS
  <2>1. /\ Follows(f[j], n, flog) /\ f[j].pr.match = n.pr.match
        /\ Repaired(n.pr) => Repaired(f[j].pr)
      BY <1>1, <1>6
  <2>2. f[j + 1] = maybe_send_append(f[j], FALSE)
      BY <1>4, RoundIs, Zenon
  <2>3. LeaderOK(f[j], flog) /\ FALSE \in BOOLEAN
      BY <2>1 DEF Follows
  <2>4. /\ Follows(maybe_send_append(f[j], FALSE), f[j], flog)
        /\ maybe_send_append(f[j], FALSE).pr.match = f[j].pr.match
        /\ Repaired(f[j].pr) => Repaired(maybe_send_append(f[j], FALSE).pr)
      BY <2>3, MaybeSendAppend
  <2> QED BY <2>1, <2>2, <2>4 DEF Follows
<1>7. \A j \in Nat : j \in S
  <2> HIDE DEF S
  <2> QED BY <1>5, <1>6, NatSetInduction
<1>8. /\ Follows(f[N], n, flog) /\ f[N].pr.match = n.pr.match
      /\ Repaired(n.pr) => Repaired(f[N].pr)
    BY <1>1, <1>7
<1> QED BY <1>3, <1>8

-----------------------------------------------------------------------------
(* The handlers of the leader.                                             *)

(* r is the leader n after a handler, which may have committed entries.    *)
Handled(r, n, flog) ==
    LeaderOK(r, flog) /\ r.log = n.log /\ n.committed <= r.committed

LEMMA HandledBy ==
    ASSUME NEW flog \in Log, NEW n, LeaderOK(n, flog)
    PROVE  /\ Handled(n, n, flog)
           /\ \A r : Follows(r, n, flog) => Handled(r, n, flog)
           /\ \A r, s : Handled(r, n, flog) /\ Handled(s, r, flog) => Handled(s, n, flog)
<1>1. n.committed \in Nat
    BY DEF LeaderOK, LdrType
<1>2. \A r : LeaderOK(r, flog) => r.committed \in Nat
    BY DEF LeaderOK, LdrType
<1>3. \A r : Follows(r, n, flog) => Handled(r, n, flog)
    BY <1>1 DEF Handled, Follows
<1>4. Handled(n, n, flog)
    BY <1>1 DEF Handled
<1>5. ASSUME NEW r, NEW s, Handled(r, n, flog), Handled(s, r, flog)
      PROVE  Handled(s, n, flog)
  <2>1. s.committed \in Nat /\ r.committed \in Nat
      BY <1>2, <1>5 DEF Handled
  <2> QED BY <1>1, <1>5, <2>1 DEF Handled
<1> QED BY <1>3, <1>4, <1>5

WithCommit(n, c) == [n EXCEPT !.committed = c]

LEMMA LeaderCommits ==
    ASSUME NEW flog \in Log, NEW n, LeaderOK(n, flog), NEW c \in Nat,
           n.committed <= c, c <= Len(n.log)
    PROVE  Handled(WithCommit(n, c), n, flog) /\ WithCommit(n, c).pr = n.pr
<1> DEFINE r == WithCommit(n, c)
<1>1. n \in LdrType /\ n.log \in Log /\ n.committed \in Nat /\ n.snap \in Nat /\ Len(n.log) \in Nat
    BY DEF LeaderOK, LdrType, Log
<1>2. r \in LdrType /\ r.log = n.log /\ r.committed = c /\ r.other = n.other
      /\ r.snap = n.snap /\ r.first = n.first /\ r.pr = n.pr /\ r.msgs = n.msgs
    BY <1>1, Zenon DEF LdrType, WithCommit
<1> HIDE DEF r
<1>3. \A m \in Down(flog, n.log, n.committed) : m \in Down(flog, n.log, c)
  <2>1. Len(n.log) <= Len(n.log) /\ \A k \in 1..Len(n.log) : n.log[k] = n.log[k]
      BY <1>1
  <2> QED BY <1>1, <2>1, LeaderGrows
<1>4. r.msgs \in Seq(Down(flog, r.log, r.committed))
  <2>1. n.msgs \in Seq(Down(flog, n.log, n.committed))
      BY DEF LeaderOK
  <2>2. n.msgs \in Seq(Down(flog, n.log, c))
      BY <1>3, <2>1, SeqOfSubset
  <2> QED BY <1>2, <2>2
<1>5. r.snap <= r.committed
    BY <1>1, <1>2 DEF LeaderOK
<1>6. LeaderOK(r, flog)
    BY <1>2, <1>4, <1>5 DEF LeaderOK
<1> QED BY <1>2, <1>6 DEF Handled, r

LEMMA CommitAndSend ==
    ASSUME NEW flog \in Log, NEW n, LeaderOK(n, flog)
    PROVE  /\ Handled(commit_and_send(n), n, flog)
           /\ commit_and_send(n).pr.match = n.pr.match
           /\ Repaired(n.pr) => Repaired(commit_and_send(n).pr)
<1>1. CASE can_commit(n)
  <2> DEFINE c == mci(n)
             r == WithCommit(n, c)
  <2>1. c \in Nat /\ n.committed <= c /\ c <= Len(n.log)
    <3>1. n.pr.match \in Nat /\ n.other \in Nat /\ n.committed \in Nat /\ Len(n.log) \in Nat
        BY DEF LeaderOK, LdrType, PrType, Log
    <3>2. n.pr.match <= Len(n.log) /\ n.other <= Len(n.log)
        BY DEF LeaderOK, ProgressOK, Agrees
    <3>3. c \in {n.pr.match, n.other}
        BY DEF mci, max
    <3>4. c > n.committed
        BY <1>1 DEF can_commit
    <3> HIDE DEF c
    <3> QED BY <3>1, <3>2, <3>3, <3>4
  <2>2. commit_and_send(n) = send_append(r)
      BY <1>1 DEF commit_and_send, WithCommit
  <2> HIDE DEF c
  <2>3. Handled(r, n, flog) /\ r.pr = n.pr
      BY <2>1, LeaderCommits
  <2> HIDE DEF r
  <2>4. /\ Follows(send_append(r), r, flog) /\ send_append(r).pr.match = r.pr.match
        /\ Repaired(r.pr) => Repaired(send_append(r).pr)
      BY <2>3, SendAppend DEF Handled
  <2>5. Handled(send_append(r), r, flog)
      BY <2>3, <2>4, HandledBy DEF Handled
  <2> QED BY <2>2, <2>3, <2>4, <2>5, HandledBy
<1>2. CASE ~can_commit(n)
  <2>1. commit_and_send(n) = n
      BY <1>2 DEF commit_and_send
  <2> QED BY <2>1, HandledBy
<1> QED BY <1>1, <1>2

(* An acknowledgement that is news: what it makes of the progress p, which *)
(* maybe_update has taken to idx from o.                                   *)
LEMMA AcceptedProgress ==
    ASSUME NEW flog \in Log, NEW log \in Log, NEW o, ProgressOK(o, flog, log),
           NEW idx \in Nat, Agrees(flog, log, idx), o.match < idx,
           NEW p, p = maybe_update(o, idx), NEW q,
           q = CASE p.state = "Probe"        -> become_replicate(p)
                 [] need_snapshot_abort(p)   -> become_probe(p)
                 [] p.state = "Replicate"    -> free_to(p, idx)
                 [] OTHER                    -> p
    PROVE  ProgressOK(q, flog, log) /\ q.match = idx /\ Repaired(q)
<1>1. o \in PrType /\ o.match \in Nat /\ o.next \in Nat /\ o.ins \in Seq(Nat)
      /\ Len(o.ins) \in Nat /\ o.pending_snapshot \in Nat
    BY DEF ProgressOK, PrType
<1>2. /\ p \in PrType /\ p.match = idx /\ p.next = max(o.next, idx + 1)
      /\ p.state = o.state /\ p.ins = o.ins /\ p.pending_snapshot = o.pending_snapshot
      /\ Agrees(flog, log, p.match) /\ p.next \in 1..(Len(log) + 1)
      /\ p.pending_snapshot <= Len(log) /\ p.match < p.next
  <2>1. max(o.match, idx) = idx
      BY <1>1 DEF max
  <2> QED BY <2>1, MaybeUpdate
<1>3. p.state \in {"Probe", "Replicate", "Snapshot"}
    BY <1>2 DEF PrType
<1>4. CASE p.state = "Probe"
  <2>1. q = become_replicate(p)
      BY <1>4 DEF need_snapshot_abort
  <2> QED BY <1>2, <2>1, BecomeReplicate
<1>5. CASE p.state = "Snapshot" /\ need_snapshot_abort(p)
  <2>1. q = become_probe(p)
      BY <1>5
  <2> QED BY <1>2, <2>1, BecomeProbe
<1>6. CASE p.state = "Snapshot" /\ ~need_snapshot_abort(p)
  <2>1. q = p
      BY <1>6
  <2>2. p.match < p.pending_snapshot
      BY <1>1, <1>2, <1>6 DEF need_snapshot_abort
  <2> QED BY <1>2, <1>6, <2>1, <2>2 DEF ProgressOK, Repaired
<1>7. CASE p.state = "Replicate"
  <2>1. q = free_to(p, idx)
      BY <1>7 DEF need_snapshot_abort
  <2>2. o.match < o.next /\ Len(o.ins) <= MaxInflight /\ InOrder(o.ins, o.match, o.next)
      BY <1>2, <1>7 DEF ProgressOK, Window
  <2>3. /\ q \in PrType /\ q.match = idx /\ q.next = p.next /\ q.state = "Replicate"
        /\ q.pending_snapshot = p.pending_snapshot /\ Len(q.ins) <= Len(o.ins)
        /\ InOrder(q.ins, idx, o.next)
      BY <1>1, <1>2, <1>7, <2>1, <2>2, FreeTo, SMTT(30)
  <2>4. q.ins \in Seq(Nat) /\ Len(q.ins) \in Nat /\ \A k \in 1..Len(q.ins) : q.ins[k] \in Nat
      BY <2>3, Elements DEF PrType
  <2>5. o.next <= p.next /\ idx < p.next /\ p.next \in Nat
      BY <1>1, <1>2 DEF max
  <2>6. InOrder(q.ins, idx, p.next)
      BY <1>1, <2>3, <2>4, <2>5, InOrderWider
  <2>7. Window(q)
    <3>1. Len(q.ins) <= MaxInflight
        BY <1>1, <2>2, <2>3, <2>4, ReplicationAssumption, SMTT(30)
    <3> QED BY <2>3, <2>5, <2>6, <3>1 DEF Window
  <2> QED BY <1>2, <2>3, <2>5, <2>7 DEF ProgressOK, Repaired
<1> QED BY <1>3, <1>4, <1>5, <1>6, <1>7

LEMMA AcceptResp ==
    ASSUME NEW flog \in Log, NEW n, LeaderOK(n, flog), NEW m,
           m.index \in Nat, Agrees(flog, n.log, m.index)
    PROVE  Handled(accept_resp(n, m), n, flog) /\ Moved(accept_resp(n, m).pr, n.pr)
<1> DEFINE o  == n.pr
           p  == maybe_update(o, m.index)
           p1 == CASE p.state = "Probe"        -> become_replicate(p)
                   [] need_snapshot_abort(p)   -> become_probe(p)
                   [] p.state = "Replicate"    -> free_to(p, m.index)
                   [] OTHER                    -> p
           n1 == WithProgress(n, p1)
           n2 == IF can_commit(n1) THEN commit_and_send(n1)
                 ELSE IF is_paused(o) THEN send_append(n1) ELSE n1
<1>1. accept_resp(n, m) = IF o.match < m.index THEN send_appends(n2) ELSE WithProgress(n, p)
    BY Zenon DEF accept_resp, WithProgress
<1>2. n.log \in Log /\ ProgressOK(o, flog, n.log) /\ o.match \in Nat
    BY DEF LeaderOK, LdrType, ProgressOK, PrType
<1>3. CASE o.match < m.index
  <2>1. ProgressOK(p1, flog, n.log) /\ p1.match = m.index /\ Repaired(p1)
    <3> HIDE DEF o
    <3> QED BY <1>2, <1>3, AcceptedProgress
  <2> HIDE DEF p1
  <2>2. Handled(n1, n, flog) /\ n1.pr = p1
      BY <2>1, LeaderProgress, HandledBy
  <2> HIDE DEF n1
  <2>3. LeaderOK(n1, flog)
      BY <2>2 DEF Handled
  <2>4. /\ Handled(commit_and_send(n1), n1, flog)
        /\ commit_and_send(n1).pr.match = n1.pr.match
        /\ Repaired(n1.pr) => Repaired(commit_and_send(n1).pr)
      BY <2>3, CommitAndSend
  <2>5. /\ Handled(send_append(n1), n1, flog)
        /\ send_append(n1).pr.match = n1.pr.match
        /\ Repaired(n1.pr) => Repaired(send_append(n1).pr)
      BY <2>3, SendAppend, HandledBy
  <2>6. Handled(n1, n1, flog)
      BY <2>3, HandledBy
  <2>7. Handled(n2, n1, flog) /\ n2.pr.match = m.index /\ Repaired(n2.pr)
      BY <2>1, <2>2, <2>4, <2>5, <2>6
  <2> HIDE DEF n2
  <2>8. Handled(n2, n, flog)
      BY <2>2, <2>7, HandledBy
  <2>9. /\ Handled(send_appends(n2), n2, flog)
        /\ send_appends(n2).pr.match = n2.pr.match
        /\ Repaired(n2.pr) => Repaired(send_appends(n2).pr)
      BY <2>8, SendAppends, HandledBy DEF Handled
  <2>10. accept_resp(n, m) = send_appends(n2)
      BY <1>1, <1>3
  <2>11. Moved(send_appends(n2).pr, n.pr)
      BY <1>3, <2>7, <2>9 DEF Moved
  <2>12. Handled(send_appends(n2), n, flog)
      BY <2>8, <2>9, HandledBy
  <2> QED BY <2>10, <2>11, <2>12
<1>4. CASE ~(o.match < m.index)
  <2>1. m.index <= o.match
      BY <1>2, <1>4
  <2>2. ProgressOK(p, flog, n.log) /\ p.match = o.match
    <3> HIDE DEF o
    <3>1. max(o.match, m.index) = o.match
        BY <1>2, <2>1 DEF max
    <3> QED BY <1>2, <2>1, <3>1, MaybeUpdate
  <2> HIDE DEF p
  <2>3. Handled(WithProgress(n, p), n, flog) /\ WithProgress(n, p).pr = p
      BY <2>2, LeaderProgress, HandledBy
  <2>4. accept_resp(n, m) = WithProgress(n, p)
      BY <1>1, <1>4
  <2> QED BY <2>2, <2>3, <2>4 DEF Moved
<1> QED BY <1>3, <1>4

(* A rejection taken for a current one.                                    *)
LEMMA RejectedProgress ==
    ASSUME NEW flog \in Log, NEW log \in Log, NEW o, ProgressOK(o, flog, log),
           NEW rejected \in Nat, NEW last \in Nat, decreases(o, rejected),
           NEW p, p = maybe_decreases_to(o, rejected, last)
    PROVE  LET q == IF p.state = "Replicate" THEN become_probe(p) ELSE p
           IN  ProgressOK(q, flog, log) /\ q.match = o.match
<1>1. o \in PrType /\ o.match \in Nat /\ o.next \in Nat /\ o.next >= 1 /\ o.next <= Len(log) + 1
      /\ Len(log) \in Nat /\ o.match <= Len(log) /\ o.pending_snapshot <= Len(log)
      /\ Agrees(flog, log, o.match)
    BY DEF ProgressOK, PrType, Log, Agrees
<1>2. CASE o.state = "Replicate"
  <2>1. p = [o EXCEPT !.next = o.match + 1]
      BY <1>2 DEF maybe_decreases_to
  <2>2. o.match + 1 \in Nat
      BY <1>1
  <2>3. p \in PrType /\ p.state = "Replicate" /\ p.match = o.match
        /\ p.pending_snapshot = o.pending_snapshot
      BY <1>1, <1>2, <2>1, <2>2, Zenon DEF PrType
  <2>4. ProgressOK(become_probe(p), flog, log) /\ become_probe(p).match = o.match
      BY <1>1, <2>3, BecomeProbe
  <2> QED BY <2>3, <2>4
<1>3. CASE o.state # "Replicate"
  <2> DEFINE x == max(min(rejected, last + 1), 1)
  <2>1. p = [o EXCEPT !.next = x, !.paused = FALSE]
      BY <1>3 DEF maybe_decreases_to
  <2>2. o.next - 1 = rejected
      BY <1>3 DEF decreases
  <2>3. x \in 1..(Len(log) + 1)
      BY <1>1, <2>2 DEF max, min
  <2> HIDE DEF x
  <2>4. x \in Nat
      BY <1>1, <2>3
  <2>5. p \in PrType /\ p.match = o.match /\ p.next = x /\ p.state = o.state /\ p.ins = o.ins
        /\ p.pending_snapshot = o.pending_snapshot
      BY <1>1, <2>1, <2>4, Zenon DEF PrType
  <2>6. ProgressOK(p, flog, log)
      BY <1>1, <1>3, <2>3, <2>5 DEF ProgressOK
  <2> QED BY <1>3, <2>5, <2>6
<1> QED BY <1>2, <1>3

LEMMA RejectResp ==
    ASSUME NEW flog \in Log, NEW n, LeaderOK(n, flog), NEW m,
           m.index \in Nat, m.reject_hint \in Nat
    PROVE  Handled(reject_resp(n, m), n, flog) /\ reject_resp(n, m).pr.match = n.pr.match
<1> DEFINE o == n.pr
           p == maybe_decreases_to(o, m.index, m.reject_hint)
           q == IF p.state = "Replicate" THEN become_probe(p) ELSE p
           r == WithProgress(n, q)
<1>1. n.log \in Log /\ ProgressOK(o, flog, n.log)
    BY DEF LeaderOK, LdrType
<1>2. CASE decreases(o, m.index)
  <2>1. reject_resp(n, m) = send_append(r)
      BY <1>2, Zenon DEF reject_resp, WithProgress
  <2>2. ProgressOK(q, flog, n.log) /\ q.match = o.match
    <3> HIDE DEF o
    <3> QED BY <1>1, <1>2, RejectedProgress
  <2> HIDE DEF q
  <2>3. Handled(r, n, flog) /\ r.pr = q
      BY <2>2, LeaderProgress, HandledBy
  <2> HIDE DEF r
  <2>4. Handled(send_append(r), r, flog) /\ send_append(r).pr.match = r.pr.match
      BY <2>3, SendAppend, HandledBy DEF Handled
  <2>5. Handled(send_append(r), n, flog)
      BY <2>3, <2>4, HandledBy
  <2> QED BY <2>1, <2>2, <2>3, <2>4, <2>5
<1>3. CASE ~decreases(o, m.index)
  <2>1. reject_resp(n, m) = n
      BY <1>3, Zenon DEF reject_resp
  <2> QED BY <2>1, HandledBy
<1> QED BY <1>2, <1>3

(* A change of paused or of recent_active only.                            *)
LEMMA SameProgress ==
    ASSUME NEW flog \in Log, NEW log \in Log, NEW p, ProgressOK(p, flog, log), NEW q \in PrType,
           q.match = p.match, q.next = p.next, q.state = p.state, q.ins = p.ins,
           q.pending_snapshot = p.pending_snapshot
    PROVE  ProgressOK(q, flog, log)
BY DEF ProgressOK, Window

LEMMA HeartbeatResp ==
    ASSUME NEW flog \in Log, NEW n, LeaderOK(n, flog)
    PROVE  Handled(heartbeat_resp(n), n, flog) /\ heartbeat_resp(n).pr.match = n.pr.match
<1> DEFINE o == n.pr
           p == [o EXCEPT !.paused = FALSE]
           q == IF p.state = "Replicate" /\ is_full(p) THEN free_first_one(p) ELSE p
           r == WithProgress(n, q)
<1>1. n.log \in Log /\ ProgressOK(o, flog, n.log) /\ o \in PrType
    BY DEF LeaderOK, LdrType, ProgressOK
<1>2. heartbeat_resp(n) = IF q.match < Len(n.log) THEN send_append(r) ELSE r
    BY Zenon DEF heartbeat_resp, WithProgress
<1>3. p \in PrType /\ p.match = o.match /\ p.next = o.next /\ p.state = o.state /\ p.ins = o.ins
      /\ p.pending_snapshot = o.pending_snapshot
    BY <1>1, Zenon DEF PrType
<1> HIDE DEF p, o
<1>4. ProgressOK(p, flog, n.log)
    BY <1>1, <1>3, SameProgress
<1>5. ProgressOK(q, flog, n.log) /\ q.match = o.match
  <2>1. CASE p.state = "Replicate" /\ is_full(p)
    <3>1. q = free_to(p, p.start)
        BY <2>1 DEF free_first_one
    <3>2. p.match \in Nat /\ p.next \in Nat /\ p.start \in Nat /\ Len(p.ins) \in Nat
        BY <1>3 DEF PrType
    <3>3. p.match < p.next /\ Len(p.ins) <= MaxInflight /\ InOrder(p.ins, p.match, p.next)
        BY <1>4, <2>1 DEF ProgressOK, Window
    <3> HIDE DEF q
    <3>4. /\ q \in PrType /\ q.match = p.match /\ q.next = p.next /\ q.state = "Replicate"
          /\ q.pending_snapshot = p.pending_snapshot /\ Len(q.ins) <= Len(p.ins)
          /\ InOrder(q.ins, p.match, p.next)
        BY <1>3, <2>1, <3>1, <3>2, <3>3, FreeTo
    <3>5. Len(q.ins) <= MaxInflight
      <4>1. Len(q.ins) \in Nat
          BY <3>4 DEF PrType
      <4> QED BY <3>2, <3>3, <3>4, <4>1, ReplicationAssumption
    <3>6. Window(q)
        BY <3>3, <3>4, <3>5 DEF Window
    <3> QED BY <1>3, <1>4, <3>3, <3>4, <3>6 DEF ProgressOK
  <2>2. CASE ~(p.state = "Replicate" /\ is_full(p))
      BY <1>3, <1>4, <2>2
  <2> QED BY <2>1, <2>2
<1> HIDE DEF q
<1>6. Handled(r, n, flog) /\ r.pr = q
    BY <1>5, LeaderProgress, HandledBy
<1> HIDE DEF r
<1>7. Handled(send_append(r), r, flog) /\ send_append(r).pr.match = r.pr.match
    BY <1>6, SendAppend, HandledBy DEF Handled
<1>8. Handled(send_append(r), n, flog)
    BY <1>6, <1>7, HandledBy
<1> QED BY <1>2, <1>5, <1>6, <1>7, <1>8 DEF o

LEMMA StepLeader ==
    ASSUME NEW flog \in Log, NEW n0, LeaderOK(n0, flog), NEW m \in Back(flog, n0.log)
    PROVE  Handled(step_leader(n0, m), n0, flog) /\ Moved(step_leader(n0, m).pr, n0.pr)
<1> DEFINE p == [n0.pr EXCEPT !.recent_active = TRUE]
           n == WithProgress(n0, p)
<1>1. n0 \in LdrType /\ n0.log \in Log /\ ProgressOK(n0.pr, flog, n0.log) /\ n0.pr \in PrType
    BY DEF LeaderOK, LdrType, ProgressOK
<1>2. [n0 EXCEPT !.pr.recent_active = TRUE] = n
    BY <1>1, Zenon DEF WithProgress, LdrType, PrType
<1>3. p \in PrType /\ p.match = n0.pr.match /\ p.next = n0.pr.next /\ p.state = n0.pr.state
      /\ p.ins = n0.pr.ins /\ p.pending_snapshot = n0.pr.pending_snapshot
    BY <1>1, Zenon DEF PrType
<1> HIDE DEF p
<1>4. ProgressOK(p, flog, n0.log)
    BY <1>1, <1>3, SameProgress
<1>5. Handled(n, n0, flog) /\ n.pr.match = n0.pr.match
    BY <1>3, <1>4, LeaderProgress, HandledBy
<1> HIDE DEF n
<1>6. LeaderOK(n, flog) /\ n.log = n0.log
    BY <1>5 DEF Handled
<1>7. step_leader(n0, m) = CASE m.type = "MsgAppResp" /\ m.reject  -> reject_resp(n, m)
                             [] m.type = "MsgAppResp" /\ ~m.reject -> accept_resp(n, m)
                             [] m.type = "MsgHeartbeatResp"        -> heartbeat_resp(n)
    BY <1>2, Zenon DEF step_leader
<1>8. m \in BackMsg
    BY DEF Back
<1>9. CASE m.type = "MsgAppResp"
  <2>1. m.index \in Nat /\ m.reject \in BOOLEAN /\ m.reject_hint \in Nat
      BY <1>8, <1>9 DEF BackMsg
  <2>2. CASE m.reject
    <3>1. step_leader(n0, m) = reject_resp(n, m)
        BY <1>7, <1>9, <2>2
    <3>2. Handled(reject_resp(n, m), n, flog) /\ reject_resp(n, m).pr.match = n.pr.match
        BY <1>6, <2>1, RejectResp
    <3>3. Handled(reject_resp(n, m), n0, flog)
        BY <1>5, <3>2, HandledBy
    <3> QED BY <1>5, <3>1, <3>2, <3>3 DEF Moved
  <2>3. CASE ~m.reject
    <3>1. step_leader(n0, m) = accept_resp(n, m)
        BY <1>7, <1>9, <2>3
    <3>2. Agrees(flog, n.log, m.index)
        BY <1>6, <1>9, <2>3 DEF Back
    <3>3. Handled(accept_resp(n, m), n, flog) /\ Moved(accept_resp(n, m).pr, n.pr)
        BY <1>6, <2>1, <3>2, AcceptResp
    <3>4. Handled(accept_resp(n, m), n0, flog)
        BY <1>5, <3>3, HandledBy
    <3> QED BY <1>5, <3>1, <3>3, <3>4 DEF Moved
  <2> QED BY <2>2, <2>3
<1>10. CASE m.type = "MsgHeartbeatResp"
  <2>1. step_leader(n0, m) = heartbeat_resp(n)
      BY <1>7, <1>10
  <2>2. Handled(heartbeat_resp(n), n, flog) /\ heartbeat_resp(n).pr.match = n.pr.match
      BY <1>6, HeartbeatResp
  <2>3. Handled(heartbeat_resp(n), n0, flog)
      BY <1>5, <2>2, HandledBy
  <2> QED BY <1>5, <2>1, <2>2, <2>3 DEF Moved
<1>11. m.type = "MsgAppResp" \/ m.type = "MsgHeartbeatResp"
    BY <1>8 DEF BackMsg
<1> QED BY <1>9, <1>10, <1>11

(* The Ready that ends an event: the messages leave, the log may be        *)
(* compacted.                                                              *)
LEMMA ReadyLeader ==
    ASSUME NEW flog \in Log, NEW n, LeaderOK(n, flog),
           NEW r, r = maybe_trigger_snapshot([n EXCEPT !.msgs = <<>>])
    PROVE  /\ LeaderOK(r, flog) /\ r.msgs = <<>>
           /\ r.log = n.log /\ r.committed = n.committed /\ r.pr = n.pr
<1> DEFINE e == [n EXCEPT !.msgs = <<>>]
<1>1. n \in LdrType /\ n.committed \in Nat /\ n.snap \in Nat
    BY DEF LeaderOK, LdrType
<1>2. <<>> \in Seq(DownMsg) /\ <<>> \in Seq(Down(flog, n.log, n.committed))
    OBVIOUS
<1>3. e \in LdrType /\ e.log = n.log /\ e.committed = n.committed /\ e.other = n.other
      /\ e.snap = n.snap /\ e.first = n.first /\ e.pr = n.pr /\ e.msgs = <<>>
    BY <1>1, <1>2, Zenon DEF LdrType
<1> HIDE DEF e
<1>4. LeaderOK(e, flog)
    BY <1>2, <1>3 DEF LeaderOK
<1>5. CASE e.committed - e.snap <= SnapCount
  <2>1. r = e
      BY <1>5 DEF maybe_trigger_snapshot, e
  <2> QED BY <1>3, <1>4, <2>1
<1>6. CASE ~(e.committed - e.snap <= SnapCount)
  <2> DEFINE c == e.committed
             f == c - CatchUp + 1
  <2>1. r = [e EXCEPT !.snap = c, !.first = f]
      BY <1>6 DEF maybe_trigger_snapshot, e
  <2>2. c \in Nat /\ f \in Nat /\ f <= c + 1
    <3>1. e.committed \in Nat /\ e.snap \in Nat
        BY <1>1, <1>3
    <3>2. CatchUp \in Nat /\ SnapCount \in Nat /\ CatchUp <= SnapCount
        BY ReplicationAssumption
    <3> QED BY <1>6, <3>1, <3>2
  <2> HIDE DEF c, f
  <2>3. r \in LdrType /\ r.log = e.log /\ r.committed = e.committed /\ r.other = e.other
        /\ r.snap = c /\ r.first = f /\ r.pr = e.pr /\ r.msgs = e.msgs
      BY <1>3, <2>1, <2>2, Zenon DEF LdrType
  <2>4. r.snap <= r.committed /\ r.first <= r.snap + 1
      BY <2>2, <2>3 DEF c
  <2>5. LeaderOK(r, flog)
      BY <1>4, <2>3, <2>4 DEF LeaderOK
  <2> QED BY <1>3, <2>3, <2>5
<1> QED BY <1>5, <1>6

-----------------------------------------------------------------------------
(* The handlers of the follower.                                           *)

(* f2 is the follower f after a handler: it keeps what it agrees on.       *)
Kept(f2, f, log, c) ==
    /\ FollowerOK(f2, log, c)
    /\ \A i \in Nat : Agrees(f.log, log, i) => Agrees(f2.log, log, i)

LEMMA CommitTo ==
    ASSUME NEW f, NEW log \in Log, NEW c \in Nat, FollowerOK(f, log, c),
           NEW i \in Nat, i <= c, Agrees(f.log, log, i)
    PROVE  FollowerOK(commit_to(f, i), log, c) /\ commit_to(f, i).log = f.log
<1>1. f \in FolType /\ f.log \in Log /\ Len(f.log) \in Nat
    BY DEF FollowerOK, FolType, Log
<1>2. CASE i <= f.committed
  <2>1. commit_to(f, i) = f
      BY <1>2 DEF commit_to
  <2> QED BY <2>1
<1>3. CASE ~(i <= f.committed)
  <2> DEFINE g == [f EXCEPT !.committed = i]
  <2>1. ~(Len(f.log) < i)
      BY <1>1 DEF Agrees
  <2>2. commit_to(f, i) = g
      BY <1>3, <2>1 DEF commit_to
  <2>3. g \in FolType /\ g.log = f.log /\ g.committed = i /\ g.fatal = f.fatal
      BY <1>1, Zenon DEF FolType
  <2> HIDE DEF g
  <2>4. FollowerOK(g, log, c)
      BY <2>3 DEF FollowerOK
  <2> QED BY <2>2, <2>3, <2>4
<1> QED BY <1>2, <1>3

(* An append whose previous entry matches: the logs agree up to it.        *)
LEMMA PreviousMatches ==
    ASSUME NEW flog \in Log, NEW log \in Log, Matching(flog, log),
           NEW i \in Nat, i <= Len(log), log_term(flog, i) = log_term(log, i)
    PROVE  Agrees(flog, log, i)
<1>1. Len(flog) \in Nat /\ Len(log) \in Nat /\ DOMAIN flog = 1..Len(flog) /\ DOMAIN log = 1..Len(log)
    BY DEF Log
<1>2. CASE i = 0
    BY <1>1, <1>2 DEF Agrees
<1>3. CASE i # 0
  <2>1. i \in DOMAIN log
      BY <1>1, <1>3
  <2>2. log_term(log, i) = log[i] /\ log[i] # 0
    <3>1. log[i] \in 1..Term
        BY <1>1, <2>1, Elements, Zenon DEF Log
    <3>2. log[i] # 0
        BY <3>1, ReplicationAssumption
    <3> QED BY <2>1, <3>2 DEF log_term
  <2>3. i \in DOMAIN flog /\ flog[i] = log[i]
      BY <2>2 DEF log_term
  <2>4. \A j \in 1..i : flog[j] = log[j]
      BY <2>3 DEF Matching
  <2> QED BY <1>1, <2>3, <2>4 DEF Agrees
<1> QED BY <1>2, <1>3

(* The log that an append leaves where it differs: the leader's, cut off   *)
(* behind the last entry of the message.                                   *)
Splice(flog, ents, idx, ci) == SubSeq(flog, 1, idx + ci - 1) \o SubSeq(ents, ci, Len(ents))

LEMMA Spliced ==
    ASSUME NEW flog \in Log, NEW log \in Log, NEW ents \in Log, NEW idx \in Nat,
           NEW ci \in 1..Len(ents), idx + Len(ents) <= Len(log),
           Agrees(flog, log, idx + ci - 1),
           \A k \in 1..Len(ents) : ents[k] = log[idx + k],
           NEW t, t = Splice(flog, ents, idx, ci)
    PROVE  /\ t \in Log /\ Len(t) = idx + Len(ents)
           /\ \A k \in 1..(idx + Len(ents)) : t[k] = log[k]
<1> DEFINE a == idx + ci - 1
           u == SubSeq(flog, 1, a)
           v == SubSeq(ents, ci, Len(ents))
<1>1. Len(flog) \in Nat /\ Len(log) \in Nat /\ Len(ents) \in Nat /\ ci \in Nat /\ a \in Nat
      /\ a <= Len(flog) /\ 1 <= ci /\ ci <= Len(ents)
  <2>1. Len(flog) \in Nat /\ Len(log) \in Nat /\ Len(ents) \in Nat
      BY DEF Log
  <2> QED BY <2>1 DEF Agrees
<1> HIDE DEF a
<1>2. u \in Log /\ Len(u) = a /\ \A k \in 1..a : u[k] = flog[k]
  <2>1. 1 \in Nat /\ 1 <= 1 /\ 1 - 1 <= a /\ a - 1 + 1 = a
      BY <1>1
  <2>2. /\ u \in Log /\ Len(u) = a - 1 + 1
        /\ \A k \in 1..(a - 1 + 1) : u[k] = flog[1 + k - 1]
      BY <1>1, <2>1, LogPiece
  <2>3. \A k \in 1..a : 1 + k - 1 = k
      BY <1>1
  <2> QED BY <2>1, <2>2, <2>3
<1>3. v \in Log /\ Len(v) = Len(ents) - ci + 1
      /\ \A k \in 1..(Len(ents) - ci + 1) : v[k] = ents[ci + k - 1]
  <2>1. ci - 1 <= Len(ents) /\ Len(ents) <= Len(ents)
      BY <1>1
  <2> QED BY <1>1, <2>1, LogPiece
<1> HIDE DEF u, v
<1>4. t = u \o v
    BY DEF u, v, a, Splice
<1>5. /\ u \o v \in Log /\ Len(u \o v) = Len(u) + Len(v)
      /\ \A k \in 1..Len(u) : (u \o v)[k] = u[k]
      /\ \A k \in 1..Len(v) : (u \o v)[Len(u) + k] = v[k]
  <2> DEFINE S == 1..Term
  <2>1. Log = Seq(S)
      BY Zenon DEF Log
  <2> HIDE DEF S
  <2>2. u \in Seq(S) /\ v \in Seq(S)
      BY <1>2, <1>3, <2>1, Zenon
  <2>3. /\ u \o v \in Seq(S) /\ Len(u \o v) = Len(u) + Len(v)
        /\ \A k \in 1..Len(u) : (u \o v)[k] = u[k]
        /\ \A k \in 1..Len(v) : (u \o v)[Len(u) + k] = v[k]
      BY <2>2, Concatenated
  <2> QED BY <2>1, <2>3, Zenon
<1>6. t \in Log /\ Len(t) = idx + Len(ents)
  <2>1. t \in Log /\ Len(t) = Len(u) + Len(v)
      BY <1>4, <1>5
  <2>2. a + (Len(ents) - ci + 1) = idx + Len(ents)
      BY <1>1 DEF a
  <2> QED BY <1>2, <1>3, <2>1, <2>2
<1>7. ASSUME NEW k \in 1..(idx + Len(ents))
      PROVE  t[k] = log[k]
  <2>1. CASE k <= a
    <3>1. k \in 1..a
        BY <1>1, <2>1
    <3>2. t[k] = u[k]
        BY <1>2, <1>4, <1>5, <3>1
    <3>3. flog[k] = log[k]
        BY <3>1 DEF Agrees, a
    <3> QED BY <1>2, <3>1, <3>2, <3>3
  <2>2. CASE ~(k <= a)
    <3> DEFINE l == k - a
    <3>1. l \in 1..(Len(ents) - ci + 1) /\ k \in Nat /\ k = a + l
        BY <1>1, <2>2 DEF a
    <3>2. ci + l - 1 \in 1..Len(ents) /\ idx + (ci + l - 1) = k
        BY <1>1, <3>1 DEF a
    <3> HIDE DEF l
    <3>3. t[k] = v[l]
      <4>1. k = Len(u) + l /\ l \in 1..Len(v)
          BY <1>2, <1>3, <3>1
      <4>2. (u \o v)[Len(u) + l] = v[l]
          BY <1>5, <4>1
      <4> QED BY <1>4, <4>1, <4>2
    <3>4. v[l] = ents[ci + l - 1]
        BY <1>3, <3>1
    <3> QED BY <3>2, <3>3, <3>4
  <2> QED BY <2>1, <2>2
<1> QED BY <1>6, <1>7

(* maybe_append of a piece of the leader's log to a log that agrees with   *)
(* it up to the piece: it stays or becomes the leader's up to the piece's  *)
(* end, and is cut off there only if it had parted from the leader's.      *)
LEMMA MaybeAppend ==
    ASSUME NEW f, NEW log \in Log, NEW c \in Nat, FollowerOK(f, log, c),
           NEW m \in Down(f.log, log, c), m.type = "MsgApp", Agrees(f.log, log, m.index)
    PROVE  /\ Kept(maybe_append(f, m), f, log, c)
           /\ Agrees(maybe_append(f, m).log, log, m.index + Len(m.entries))
<1> DEFINE flog == f.log
           idx  == m.index
           ents == m.entries
           cs == {k \in DOMAIN ents : log_term(flog, idx + k) # ents[k]}
           ci == CHOOSE k \in cs : \A l \in cs : k <= l
           t  == Splice(flog, ents, idx, ci)
           f1 == IF cs = {} THEN f
                 ELSE IF idx + ci <= f.committed THEN [f EXCEPT !.fatal = TRUE]
                 ELSE [f EXCEPT !.log = t]
           top == idx + Len(ents)
           cm  == min(m.commit, top)
<1>1. maybe_append(f, m) = commit_to(f1, cm)
    BY Zenon DEF maybe_append, Splice
<1>2. /\ f \in FolType /\ flog \in Log /\ f.committed \in Nat /\ ~f.fatal
      /\ f.committed <= c /\ Agrees(flog, log, f.committed) /\ Matching(flog, log)
    BY DEF FollowerOK, FolType
<1>3. idx \in Nat /\ ents \in Log /\ m.commit \in Nat
    BY DEF Down, DownMsg
<1>4. top <= Len(log) /\ m.commit <= c /\ \A k \in DOMAIN ents : ents[k] = log[idx + k]
    BY DEF Down
<1>5. Len(flog) \in Nat /\ Len(log) \in Nat /\ Len(ents) \in Nat /\ DOMAIN ents = 1..Len(ents)
      /\ DOMAIN flog = 1..Len(flog) /\ \A k \in 1..Len(ents) : ents[k] # 0
  <2>1. \A k \in 1..Len(ents) : ents[k] \in 1..Term
      BY <1>3, Elements, Zenon DEF Log
  <2>2. \A k \in 1..Len(ents) : ents[k] # 0
      BY <2>1, ReplicationAssumption
  <2> QED BY <1>2, <1>3, <2>2 DEF Log
<1> HIDE DEF flog, idx, ents
<1>6. top \in Nat /\ cm \in Nat /\ cm <= c /\ cm <= top
  <2>1. top \in Nat
      BY <1>3, <1>5
  <2> HIDE DEF top
  <2> QED BY <1>3, <1>4, <2>1 DEF min
<1> HIDE DEF cm
<1>7. Agrees(flog, log, idx)
    BY DEF flog, idx
(* Up to the first difference the logs agree.                              *)
<1>8. ASSUME NEW j \in 0..Len(ents), \A k \in 1..j : k \notin cs
      PROVE  Agrees(flog, log, idx + j)
  <2>1. ASSUME NEW k \in 1..j
        PROVE  idx + k \in 1..Len(flog) /\ flog[idx + k] = log[idx + k]
    <3>1. k \in 1..Len(ents) /\ k \in Nat /\ idx + k \in Nat /\ idx + k >= 1
        BY <1>3, <1>5
    <3>2. log_term(flog, idx + k) = ents[k] /\ ents[k] # 0
        BY <1>5, <1>8, <3>1
    <3>3. idx + k \in DOMAIN flog /\ flog[idx + k] = ents[k]
        BY <3>2 DEF log_term
    <3> QED BY <1>4, <1>5, <3>1, <3>3
  <2>2. idx + j <= Len(flog) /\ idx + j <= Len(log)
    <3>1. CASE j = 0
        BY <1>3, <1>7, <3>1 DEF Agrees
    <3>2. CASE j # 0
      <4>1. idx + j \in 1..Len(flog)
          BY <2>1, <3>2
      <4> QED BY <1>3, <1>4, <1>5, <4>1
    <3> QED BY <3>1, <3>2
  <2>3. ASSUME NEW i \in 1..(idx + j)
        PROVE  flog[i] = log[i]
    <3>1. CASE i <= idx
        BY <1>3, <1>7, <3>1 DEF Agrees
    <3>2. CASE ~(i <= idx)
      <4>1. i - idx \in 1..j /\ idx + (i - idx) = i
          BY <1>3, <3>2
      <4> QED BY <2>1, <4>1
    <3> QED BY <3>1, <3>2
  <2> QED BY <2>2, <2>3 DEF Agrees
<1>9. /\ FollowerOK(f1, log, c) /\ Agrees(f1.log, log, top)
      /\ \A i \in Nat : Agrees(flog, log, i) => Agrees(f1.log, log, i)
  <2>1. CASE cs = {}
    <3>1. f1 = f
        BY <2>1
    <3>2. Agrees(flog, log, top)
      <4>1. Len(ents) \in 0..Len(ents) /\ \A k \in 1..Len(ents) : k \notin cs
          BY <1>5, <2>1
      <4> QED BY <1>8, <4>1
    <3> QED BY <3>1, <3>2 DEF flog
  <2>2. CASE cs # {}
    <3>1. ci \in cs /\ \A l \in cs : ci <= l
      <4>1. cs \in SUBSET Nat
          BY <1>5
      <4>2. \E k \in cs : \A l \in cs : k <= l
        <5> HIDE DEF cs
        <5> QED BY <2>2, <4>1, LeastElement
      <4> HIDE DEF cs
      <4> QED BY <4>2
    <3> HIDE DEF ci
    <3>2. ci \in 1..Len(ents) /\ ci \in Nat /\ log_term(flog, idx + ci) # ents[ci]
        BY <1>5, <3>1
    <3>3. Agrees(flog, log, idx + ci - 1)
      <4>1. ci - 1 \in 0..Len(ents) /\ \A k \in 1..(ci - 1) : ~(ci <= k)
          BY <1>5, <3>2
      <4>2. \A k \in 1..(ci - 1) : k \notin cs
          BY <3>1, <4>1
      <4>3. Agrees(flog, log, idx + (ci - 1))
          BY <1>8, <4>1, <4>2
      <4>4. idx + (ci - 1) = idx + ci - 1
          BY <1>3, <3>2
      <4> QED BY <4>3, <4>4
    (* What agrees ends before the difference.                             *)
    <3>4. ASSUME NEW i \in Nat, Agrees(flog, log, i)
          PROVE  i < idx + ci
      <4>1. SUFFICES ASSUME ~(i < idx + ci) PROVE FALSE
          OBVIOUS
      <4>2. idx + ci \in 1..i /\ idx + ci \in 1..Len(flog)
          BY <1>3, <1>5, <3>2, <3>4, <4>1 DEF Agrees
      <4>3. flog[idx + ci] = log[idx + ci]
          BY <3>4, <4>2 DEF Agrees
      <4>4. log_term(flog, idx + ci) = flog[idx + ci]
          BY <1>5, <4>2 DEF log_term
      <4>5. ents[ci] = log[idx + ci]
          BY <1>4, <1>5, <3>2
      <4> QED BY <3>2, <4>3, <4>4, <4>5
    <3>5. ~(idx + ci <= f.committed)
      <4>1. f.committed < idx + ci
          BY <1>2, <3>4
      <4> QED BY <1>2, <1>3, <3>2, <4>1
    <3>6. f1 = [f EXCEPT !.log = t]
        BY <2>2, <3>5
    <3>7. t \in Log /\ Len(t) = top /\ \A k \in 1..top : t[k] = log[k]
      <4>1. \A k \in 1..Len(ents) : ents[k] = log[idx + k]
          BY <1>4, <1>5
      <4>2. t = Splice(flog, ents, idx, ci)
          BY Zenon
      <4>3. idx + Len(ents) <= Len(log)
          BY <1>4
      <4>5. flog \in Log /\ log \in Log /\ ents \in Log /\ idx \in Nat
          BY <1>2, <1>3
      <4>6. ci \in 1..Len(ents)
          BY <3>2
      <4> HIDE DEF t, flog
      <4>4. /\ t \in Log /\ Len(t) = idx + Len(ents)
            /\ \A k \in 1..(idx + Len(ents)) : t[k] = log[k]
          BY <3>3, <4>1, <4>2, <4>3, <4>5, <4>6, Spliced
      <4> QED BY <4>4
    <3> HIDE DEF t, f1, top
    <3>8. f1 \in FolType /\ f1.log = t /\ f1.committed = f.committed /\ f1.fatal = f.fatal
        BY <1>2, <3>6, <3>7, Zenon DEF FolType
    <3>9. \A i \in Nat : i <= top => Agrees(t, log, i)
        BY <1>4, <1>5, <1>6, <3>7 DEF Agrees
    <3>10. ASSUME NEW i \in Nat, Agrees(flog, log, i)
           PROVE  Agrees(t, log, i)
      <4>1. i < idx + ci /\ idx + ci <= top
          BY <1>3, <1>5, <3>2, <3>4, <3>10 DEF top
      <4>2. i <= top
          BY <1>3, <1>6, <3>2, <4>1
      <4> QED BY <3>9, <4>2
    <3>11. Matching(t, log)
      <4>1. DOMAIN t = 1..top /\ \A k \in 1..top : ~(k > Len(log))
          BY <1>4, <1>5, <1>6, <3>7 DEF Log
      <4>2. \A k \in 1..top : \A j \in 1..k : j \in 1..top
          BY <1>6
      <4> QED BY <3>7, <4>1, <4>2 DEF Matching
    <3>12. Agrees(t, log, top)
        BY <1>6, <3>9
    <3>13. FollowerOK(f1, log, c)
        BY <1>2, <3>8, <3>10, <3>11 DEF FollowerOK
    <3> QED BY <3>8, <3>10, <3>12, <3>13
  <2> QED BY <2>1, <2>2
<1> HIDE DEF f1, top
<1>10. f1.log \in Log
    BY <1>9 DEF FollowerOK, FolType
<1>11. Agrees(f1.log, log, cm)
  <2>1. cm \in 0..top
      BY <1>6
  <2> QED BY <1>6, <1>9, <1>10, <2>1, AgreesLess
<1>12. FollowerOK(commit_to(f1, cm), log, c) /\ commit_to(f1, cm).log = f1.log
    BY <1>6, <1>9, <1>11, CommitTo
<1> QED BY <1>1, <1>9, <1>12 DEF Kept, flog, top, idx, ents

LEMMA Pair == \A a, b : <<a, b>>[1] = a /\ <<a, b>>[2] = b
OBVIOUS

LEMMA StepFollower ==
    ASSUME NEW f, NEW log \in Log, NEW c \in Nat, FollowerOK(f, log, c),
           NEW m \in Down(f.log, log, c)
    PROVE  /\ Kept(step_follower(f, m)[1], f, log, c)
           /\ step_follower(f, m)[2] \in Back(step_follower(f, m)[1].log, log)
<1>1. /\ f \in FolType /\ f.log \in Log /\ f.committed \in Nat /\ Agrees(f.log, log, f.committed)
      /\ Matching(f.log, log) /\ Len(f.log) \in Nat /\ Len(log) \in Nat
    BY DEF FollowerOK, FolType, Log
<1>2. m \in DownMsg
    BY DEF Down
<1>3. Kept(f, f, log, c)
    BY DEF Kept
<1>4. ASSUME NEW flog, NEW i \in Nat, Agrees(flog, log, i)
      PROVE  AppResp(i, FALSE, 0) \in Back(flog, log)
    BY <1>4 DEF AppResp, Back, BackMsg
<1>5. ASSUME NEW i \in Nat
      PROVE  AppResp(i, TRUE, Len(f.log)) \in Back(f.log, log)
    BY <1>1 DEF AppResp, Back, BackMsg
<1>6. CASE m.type = "MsgApp"
  <2>1. m.index \in Nat /\ m.entries \in Log /\ Len(m.entries) \in Nat
      BY <1>2, <1>6 DEF DownMsg, Log
  <2>2. m.index + Len(m.entries) <= Len(log) /\ m.log_term = log_term(log, m.index)
      BY <1>6 DEF Down
  <2>3. CASE m.index < f.committed
    <3>1. ~(m.index >= f.committed)
        BY <1>1, <2>1, <2>3
    <3>2. step_follower(f, m) = <<f, AppResp(f.committed, FALSE, 0)>>
        BY <1>6, <2>3, <3>1, Zenon DEF step_follower
    <3>3. AppResp(f.committed, FALSE, 0) \in Back(f.log, log)
        BY <1>1, <1>4
    <3> QED BY <1>3, <3>2, <3>3, Pair, Zenon
  <2>4. CASE ~(m.index < f.committed) /\ log_term(f.log, m.index) = m.log_term
    <3>1. step_follower(f, m) = <<maybe_append(f, m), AppResp(m.index + Len(m.entries), FALSE, 0)>>
      <4>1. m.index >= f.committed
          BY <1>1, <2>1, <2>4
      <4> QED BY <1>6, <2>4, <4>1, Zenon DEF step_follower
    <3>2. Agrees(f.log, log, m.index)
      <4>1. m.index <= Len(log)
          BY <1>1, <2>1, <2>2
      <4> QED BY <1>1, <2>1, <2>2, <2>4, <4>1, PreviousMatches
    <3> DEFINE f1 == maybe_append(f, m)
               i  == m.index + Len(m.entries)
    <3>3. Kept(f1, f, log, c) /\ Agrees(f1.log, log, i)
        BY <1>6, <3>2, MaybeAppend
    <3>4. i \in Nat
        BY <2>1
    <3> HIDE DEF f1, i
    <3>5. step_follower(f, m) = <<f1, AppResp(i, FALSE, 0)>>
        BY <3>1 DEF f1, i
    <3>6. AppResp(i, FALSE, 0) \in Back(f1.log, log)
        BY <1>4, <3>3, <3>4
    <3> QED BY <3>3, <3>5, <3>6, Pair, Zenon
  <2>5. CASE ~(m.index < f.committed) /\ log_term(f.log, m.index) # m.log_term
    <3>1. m.index >= f.committed
        BY <1>1, <2>1, <2>5
    <3>2. step_follower(f, m) = <<f, AppResp(m.index, TRUE, Len(f.log))>>
        BY <1>6, <2>5, <3>1, Zenon DEF step_follower
    <3>3. AppResp(m.index, TRUE, Len(f.log)) \in Back(f.log, log)
        BY <1>5, <2>1
    <3> QED BY <1>3, <3>2, <3>3, Pair, Zenon
  <2> QED BY <2>3, <2>4, <2>5
<1>7. CASE m.type = "MsgHeartbeat"
  <2> DEFINE f1 == commit_to(f, m.commit)
             a  == [type |-> "MsgHeartbeatResp"]
  <2>1. step_follower(f, m) = <<f1, a>>
      BY <1>7 DEF step_follower
  <2>2. m.commit \in Nat /\ m.commit <= c /\ Agrees(f.log, log, m.commit)
      BY <1>2, <1>7 DEF Down, DownMsg
  <2>3. FollowerOK(f1, log, c) /\ f1.log = f.log
      BY <2>2, CommitTo
  <2> HIDE DEF f1
  <2>4. a \in Back(f1.log, log)
      BY DEF Back, BackMsg
  <2> HIDE DEF a
  <2>5. Kept(f1, f, log, c)
      BY <2>3 DEF Kept
  <2> QED BY <2>1, <2>4, <2>5, Pair, Zenon
<1>8. CASE m.type = "MsgSnap"
  <2>1. step_follower(f, m) = <<f, AppResp(0, FALSE, 0)>>
      BY <1>8 DEF step_follower
  <2>2. Agrees(f.log, log, 0)
      BY <1>1 DEF Agrees
  <2>3. AppResp(0, FALSE, 0) \in Back(f.log, log)
      BY <1>4, <2>2
  <2> QED BY <1>3, <2>1, <2>3, Pair, Zenon
<1>9. m.type \in {"MsgApp", "MsgHeartbeat", "MsgSnap"}
    BY <1>2 DEF DownMsg
<1> QED BY <1>6, <1>7, <1>8, <1>9

-----------------------------------------------------------------------------
(* The inductive step.                                                     *)

(* The leader takes its own entry of the new term into its log.            *)
LEMMA MatchingAppend ==
    ASSUME NEW flog \in Log, NEW log \in Log, Matching(flog, log)
    PROVE  /\ Append(log, Term) \in Log /\ Len(Append(log, Term)) = Len(log) + 1
           /\ \A k \in 1..Len(log) : Append(log, Term)[k] = log[k]
           /\ Matching(flog, Append(log, Term))
<1> DEFINE t == Append(log, Term)
<1>1. Term \in Nat /\ Term \in 1..Term
    BY ReplicationAssumption
<1>2. /\ t \in Log /\ Len(t) = Len(log) + 1 /\ \A k \in 1..Len(log) : t[k] = log[k]
      /\ t[Len(log) + 1] = Term
    BY <1>1 DEF Log
<1> HIDE DEF t
<1>3. Len(log) \in Nat /\ DOMAIN flog = 1..Len(flog) /\ Len(flog) \in Nat
      /\ \A k \in 1..Len(flog) : flog[k] \in Nat
  <2>1. \A k \in 1..Len(flog) : flog[k] \in 1..Term
      BY Elements, Zenon DEF Log
  <2>2. \A k \in 1..Len(flog) : flog[k] \in Nat
      BY <1>1, <2>1
  <2> QED BY <2>2 DEF Log
<1>4. ASSUME NEW k \in DOMAIN flog
      PROVE  /\ k > Len(t) => flog[k] < Term
             /\ k <= Len(t) /\ flog[k] = t[k] => \A j \in 1..k : flog[j] = t[j]
  <2>1. /\ k > Len(log) => flog[k] < Term
        /\ k <= Len(log) /\ flog[k] = log[k] => \A j \in 1..k : flog[j] = log[j]
      BY DEF Matching
  <2>2. k \in Nat /\ k >= 1 /\ flog[k] \in Nat
      BY <1>3
  <2>3. CASE k <= Len(log)
    <3>1. \A j \in 1..k : j \in 1..Len(log)
        BY <1>3, <2>2, <2>3
    <3>2. t[k] = log[k] /\ \A j \in 1..k : t[j] = log[j]
        BY <1>2, <2>2, <3>1
    <3> QED BY <1>2, <1>3, <2>1, <2>2, <2>3, <3>2
  <2>4. CASE k > Len(log)
    <3>1. flog[k] < Term
        BY <2>1, <2>4
    <3>2. k <= Len(t) => t[k] = Term
        BY <1>2, <1>3, <2>2, <2>4
    <3> QED BY <1>1, <2>2, <3>1, <3>2
  <2> QED BY <1>3, <2>2, <2>3, <2>4
<1>5. Matching(flog, t)
    BY <1>4 DEF Matching
<1> QED BY <1>2, <1>5 DEF t

(* An event of the leader: n is the leader before its Ready.               *)
LEMMA LeaderEvent ==
    ASSUME Inv, NEW n, LeaderOK(n, fol.log), ldr.committed <= n.committed,
           Len(ldr.log) <= Len(n.log), \A k \in 1..Len(ldr.log) : n.log[k] = ldr.log[k],
           Matching(fol.log, n.log), Ready(n),
           back' \in Seq(Seq(Back(fol.log, ldr.log))), back' # <<>>
    PROVE  Inv' /\ ldr'.pr = n.pr
<1> DEFINE flog == fol.log
<1>1. /\ fol \in FolType /\ flog \in Log /\ fol.committed \in Nat /\ ~fol.fatal
      /\ fol.committed <= ldr.committed /\ Agrees(flog, ldr.log, fol.committed)
    BY DEF Inv, FollowerOK, FolType
<1>2. ldr.log \in Log /\ ldr.committed \in Nat /\ n.log \in Log /\ n.committed \in Nat
    BY DEF Inv, LeaderOK, LdrType
<1>3. ldr' = maybe_trigger_snapshot([n EXCEPT !.msgs = <<>>]) /\ down' = Put(down, n.msgs)
      /\ fol' = fol /\ saved' = saved
    BY DEF Ready
<1>4. /\ LeaderOK(ldr', flog) /\ ldr'.msgs = <<>>
      /\ ldr'.log = n.log /\ ldr'.committed = n.committed /\ ldr'.pr = n.pr
    BY <1>1, <1>3, ReadyLeader
<1>5. /\ \A i \in Nat : Agrees(flog, ldr.log, i) => Agrees(flog, n.log, i)
      /\ \A m \in Down(flog, ldr.log, ldr.committed) : m \in Down(flog, n.log, n.committed)
      /\ \A m \in Back(flog, ldr.log) : m \in Back(flog, n.log)
    BY <1>1, <1>2, LeaderGrows
<1>6. FollowerOK(fol, n.log, n.committed)
  <2>1. fol.committed <= n.committed
      BY <1>1, <1>2
  <2> QED BY <1>1, <1>5, <2>1 DEF FollowerOK
<1>7. down' \in Seq(Seq(Down(flog, n.log, n.committed))) /\ down' # <<>>
  <2>1. down \in Seq(Seq(Down(flog, ldr.log, ldr.committed))) /\ down # <<>>
      BY DEF Inv
  <2>2. down \in Seq(Seq(Down(flog, n.log, n.committed)))
      BY <1>5, <2>1, SeqOfSubset
  <2>3. n.msgs \in Seq(Down(flog, n.log, n.committed))
      BY DEF LeaderOK
  <2> QED BY <1>3, <2>1, <2>2, <2>3, PutPipe
<1>8. back' \in Seq(Seq(Back(flog, n.log)))
    BY <1>5, SeqOfSubset
<1> QED BY <1>3, <1>4, <1>6, <1>7, <1>8 DEF Inv

(* What an event that only handles something needs of the above.           *)
LEMMA HandledEvent ==
    ASSUME Inv, NEW n, Handled(n, ldr, fol.log), Ready(n),
           back' \in Seq(Seq(Back(fol.log, ldr.log))), back' # <<>>
    PROVE  Inv' /\ ldr'.pr = n.pr
<1>1. LeaderOK(n, fol.log) /\ n.log = ldr.log /\ ldr.committed <= n.committed
    BY DEF Handled
<1>2. ldr.log \in Log /\ Len(ldr.log) \in Nat
    BY DEF Inv, LeaderOK, LdrType, Log
<1>3. Len(ldr.log) <= Len(n.log) /\ \A k \in 1..Len(ldr.log) : n.log[k] = ldr.log[k]
    BY <1>1, <1>2
<1>4. Matching(fol.log, n.log)
    BY <1>1 DEF Inv, FollowerOK
<1> QED BY <1>1, <1>3, <1>4, LeaderEvent

LEMMA BackStays ==
    ASSUME Inv, UNCHANGED back
    PROVE  back' \in Seq(Seq(Back(fol.log, ldr.log))) /\ back' # <<>>
BY DEF Inv

LEMMA InvFacts ==
    ASSUME Inv
    PROVE  /\ LeaderOK(ldr, fol.log) /\ fol.log \in Log /\ ldr \in LdrType /\ ldr.log \in Log
           /\ ldr.msgs = <<>> /\ ProgressOK(ldr.pr, fol.log, ldr.log)
           /\ ldr.committed \in Nat /\ Len(ldr.log) \in Nat
BY DEF Inv, LeaderOK, LdrType, FollowerOK, FolType, Log

WithEntry(n) == [n EXCEPT !.log = Append(@, Term)]

(* The leader with one more entry, before it is sent.                      *)
LEMMA LeaderAppends ==
    ASSUME NEW flog \in Log, NEW n, LeaderOK(n, flog), Matching(flog, n.log), n.msgs = <<>>
    PROVE  /\ LeaderOK(WithEntry(n), flog) /\ WithEntry(n).committed = n.committed
           /\ WithEntry(n).log = Append(n.log, Term) /\ WithEntry(n).pr = n.pr
<1> DEFINE t == Append(n.log, Term)
           r == WithEntry(n)
<1>1. n \in LdrType /\ n.log \in Log /\ Len(n.log) \in Nat /\ n.committed \in Nat /\ n.other \in Nat
      /\ n.committed <= Len(n.log) /\ n.other <= Len(n.log) /\ ProgressOK(n.pr, flog, n.log)
      /\ n.snap <= n.committed /\ n.first <= n.snap + 1
    BY DEF LeaderOK, LdrType, Log
<1>2. t \in Log /\ Len(t) = Len(n.log) + 1 /\ \A k \in 1..Len(n.log) : t[k] = n.log[k]
    BY <1>1, MatchingAppend
<1> HIDE DEF t
<1>3. r \in LdrType /\ r.log = t /\ r.committed = n.committed /\ r.other = n.other
      /\ r.snap = n.snap /\ r.first = n.first /\ r.pr = n.pr /\ r.msgs = n.msgs
    BY <1>1, <1>2, Zenon DEF LdrType, WithEntry, t
<1> HIDE DEF r
<1>4. \A i \in Nat : Agrees(flog, n.log, i) => Agrees(flog, t, i)
  <2>1. n.committed <= n.committed /\ Len(n.log) <= Len(t)
      BY <1>1, <1>2
  <2> QED BY <1>1, <1>2, <2>1, LeaderGrows
<1>5. ProgressOK(n.pr, flog, t)
  <2>1. n.pr \in PrType /\ n.pr.match \in Nat /\ n.pr.next \in Nat /\ n.pr.pending_snapshot \in Nat
      BY <1>1 DEF ProgressOK, PrType
  <2>2. n.pr.next \in 1..(Len(t) + 1) /\ n.pr.pending_snapshot <= Len(t)
      BY <1>1, <1>2, <2>1 DEF ProgressOK
  <2>3. Agrees(flog, t, n.pr.match)
      BY <1>1, <1>4, <2>1 DEF ProgressOK
  <2> QED BY <1>1, <2>1, <2>2, <2>3 DEF ProgressOK
<1>6. r.committed <= Len(r.log) /\ r.other <= Len(r.log)
    BY <1>1, <1>2, <1>3
<1>7. r.msgs \in Seq(Down(flog, r.log, r.committed))
  <2>1. <<>> \in Seq(Down(flog, r.log, r.committed))
      OBVIOUS
  <2> QED BY <1>3, <2>1
<1>8. LeaderOK(r, flog)
    BY <1>1, <1>3, <1>5, <1>6, <1>7 DEF LeaderOK
<1> QED BY <1>3, <1>8 DEF r, t

LEMMA ProposeStep == Inv /\ Propose => Inv' /\ Moved(ldr'.pr, ldr.pr)
<1> SUFFICES ASSUME Inv, Propose PROVE Inv' /\ Moved(ldr'.pr, ldr.pr)
    OBVIOUS
<1>1. LeaderOK(ldr, fol.log) /\ fol.log \in Log /\ ldr.log \in Log /\ ldr.msgs = <<>>
      /\ ldr.committed \in Nat /\ Len(ldr.log) \in Nat
    BY InvFacts
<1>2. Matching(fol.log, ldr.log)
    BY DEF Inv, FollowerOK
<1>3. PICK r : r = WithEntry(ldr)
    OBVIOUS
<1>4. LeaderOK(r, fol.log) /\ r.committed = ldr.committed /\ r.log = Append(ldr.log, Term)
      /\ r.pr = ldr.pr
    BY <1>1, <1>2, <1>3, LeaderAppends
<1>5. PICK n : n = send_append(r)
    OBVIOUS
<1>6. LeaderOK(n, fol.log) /\ n.log = r.log /\ n.committed = r.committed
      /\ n.pr.match = r.pr.match
    BY <1>1, <1>4, <1>5, SendAppend DEF Follows
<1>7. Ready(n)
    BY <1>3, <1>5 DEF Propose, WithEntry
<1>8. /\ Len(ldr.log) <= Len(n.log) /\ \A k \in 1..Len(ldr.log) : n.log[k] = ldr.log[k]
      /\ Matching(fol.log, n.log)
  <2>1. /\ Len(n.log) = Len(ldr.log) + 1 /\ Matching(fol.log, n.log)
        /\ \A k \in 1..Len(ldr.log) : n.log[k] = ldr.log[k]
      BY <1>1, <1>2, <1>4, <1>6, MatchingAppend
  <2> QED BY <1>1, <2>1
<1>9. ldr.committed <= n.committed
    BY <1>1, <1>4, <1>6
<1>10. back' \in Seq(Seq(Back(fol.log, ldr.log))) /\ back' # <<>>
    BY BackStays DEF Propose
<1>11. Inv' /\ ldr'.pr = n.pr
    BY <1>6, <1>7, <1>8, <1>9, <1>10, LeaderEvent
<1> QED BY <1>4, <1>6, <1>11 DEF Moved

LEMMA OtherRespStep == Inv /\ OtherResp => Inv' /\ Moved(ldr'.pr, ldr.pr)
<1> SUFFICES ASSUME Inv, OtherResp PROVE Inv' /\ Moved(ldr'.pr, ldr.pr)
    OBVIOUS
<1>1. LeaderOK(ldr, fol.log) /\ fol.log \in Log /\ ldr \in LdrType /\ Len(ldr.log) \in Nat
      /\ ldr.committed \in Nat
    BY InvFacts
<1>2. ldr.other \in Nat
    BY <1>1 DEF LdrType
<1>3. PICK i \in (ldr.other + 1)..Len(ldr.log) : Ready(commit_and_send([ldr EXCEPT !.other = i]))
    BY DEF OtherResp
<1>4. i \in Nat /\ i <= Len(ldr.log)
    BY <1>1, <1>2
<1>5. PICK r : r = [ldr EXCEPT !.other = i]
    OBVIOUS
<1>6. r \in LdrType /\ r.log = ldr.log /\ r.committed = ldr.committed /\ r.other = i
      /\ r.snap = ldr.snap /\ r.first = ldr.first /\ r.pr = ldr.pr /\ r.msgs = ldr.msgs
    BY <1>1, <1>4, <1>5, Zenon DEF LdrType
<1>7. LeaderOK(r, fol.log)
    BY <1>1, <1>4, <1>6 DEF LeaderOK
<1>8. PICK n : n = commit_and_send(r)
    OBVIOUS
<1>9. Handled(n, r, fol.log) /\ n.pr.match = r.pr.match
    BY <1>1, <1>7, <1>8, CommitAndSend
<1>10. Handled(n, ldr, fol.log)
    BY <1>6, <1>9 DEF Handled
<1>11. Ready(n)
    BY <1>3, <1>5, <1>8
<1>12. back' \in Seq(Seq(Back(fol.log, ldr.log))) /\ back' # <<>>
    BY BackStays DEF OtherResp
<1>13. Inv' /\ ldr'.pr = n.pr
    BY <1>10, <1>11, <1>12, HandledEvent
<1> QED BY <1>6, <1>9, <1>13 DEF Moved

LEMMA BeatStep == Inv /\ Beat => Inv' /\ Moved(ldr'.pr, ldr.pr)
<1> SUFFICES ASSUME Inv, Beat PROVE Inv' /\ Moved(ldr'.pr, ldr.pr)
    OBVIOUS
<1>1. LeaderOK(ldr, fol.log) /\ fol.log \in Log /\ ldr \in LdrType /\ ldr.log \in Log
      /\ ldr.committed \in Nat /\ ProgressOK(ldr.pr, fol.log, ldr.log)
    BY InvFacts
<1>2. PICK hb : hb = [type |-> "MsgHeartbeat", commit |-> heartbeat_commit(ldr)]
    OBVIOUS
<1>3. hb \in Down(fol.log, ldr.log, ldr.committed)
  <2>1. ldr.pr.match \in Nat /\ Agrees(fol.log, ldr.log, ldr.pr.match)
      BY <1>1 DEF ProgressOK, PrType
  <2>2. PICK c : c = heartbeat_commit(ldr)
      OBVIOUS
  <2>3. c \in 0..ldr.pr.match /\ c <= ldr.committed /\ c \in Nat
      BY <1>1, <2>1, <2>2 DEF heartbeat_commit, min
  <2>4. Agrees(fol.log, ldr.log, c)
      BY <1>1, <2>1, <2>3, AgreesLess
  <2>5. hb = [type |-> "MsgHeartbeat", commit |-> c]
      BY <1>2, <2>2
  <2>6. hb \in DownMsg /\ hb.type = "MsgHeartbeat" /\ hb.commit = c
      BY <2>3, <2>5 DEF DownMsg
  <2> QED BY <2>3, <2>4, <2>6 DEF Down
<1>4. PICK n : n = WithMsgs(ldr, ldr.pr, <<hb>>)
    OBVIOUS
<1>5. <<hb>> \in Seq(Down(fol.log, ldr.log, ldr.committed))
    BY <1>3
<1>6. Handled(n, ldr, fol.log) /\ n.pr = ldr.pr
  <2>1. Handled(n, ldr, fol.log)
      BY <1>1, <1>4, <1>5, LeaderUpdate, HandledBy
  <2>2. n.pr = ldr.pr
      BY <1>1, <1>4, Zenon DEF WithMsgs, LdrType
  <2> QED BY <2>1, <2>2
<1>7. n = [ldr EXCEPT !.msgs = <<hb>>]
    BY <1>1, <1>4, Zenon DEF WithMsgs, LdrType
<1>8. Ready(n)
    BY <1>2, <1>7 DEF Beat
<1>9. back' \in Seq(Seq(Back(fol.log, ldr.log))) /\ back' # <<>>
    BY BackStays DEF Beat
<1>10. Inv' /\ ldr'.pr = n.pr
    BY <1>6, <1>8, <1>9, HandledEvent
<1> QED BY <1>6, <1>10 DEF Moved

LEMMA RecvRespStep ==
    ASSUME NEW k \in 1..2
    PROVE  Inv /\ RecvResp(k) => Inv' /\ Moved(ldr'.pr, ldr.pr)
<1> SUFFICES ASSUME Inv, RecvResp(k) PROVE Inv' /\ Moved(ldr'.pr, ldr.pr)
    OBVIOUS
<1>1. LeaderOK(ldr, fol.log) /\ fol.log \in Log
    BY InvFacts
<1>2. back \in Seq(Seq(Back(fol.log, ldr.log))) /\ back # <<>>
    BY DEF Inv
<1>3. k \in DOMAIN back /\ back[k] # <<>> /\ back' = Taken(back, k)
    BY DEF RecvResp, LeaderReads
<1>4. /\ back' \in Seq(Seq(Back(fol.log, ldr.log))) /\ back' # <<>>
      /\ Next1(back, k) \in Back(fol.log, ldr.log)
    BY <1>2, <1>3, TakenPipe
<1>5. PICK m : m = Next1(back, k)
    OBVIOUS
<1>6. PICK n : n = step_leader(ldr, m)
    OBVIOUS
<1>7. Handled(n, ldr, fol.log) /\ Moved(n.pr, ldr.pr)
    BY <1>1, <1>4, <1>5, <1>6, StepLeader
<1>8. Ready(n)
    BY <1>5, <1>6 DEF RecvResp
<1>9. Inv' /\ ldr'.pr = n.pr
    BY <1>4, <1>7, <1>8, HandledEvent
<1> QED BY <1>7, <1>9

LEMMA ReportUnreachableStep == Inv /\ ReportUnreachable => Inv' /\ Moved(ldr'.pr, ldr.pr)
<1> SUFFICES ASSUME Inv, ReportUnreachable PROVE Inv' /\ Moved(ldr'.pr, ldr.pr)
    OBVIOUS
<1>1. LeaderOK(ldr, fol.log) /\ fol.log \in Log /\ ldr \in LdrType /\ ldr.log \in Log
      /\ ProgressOK(ldr.pr, fol.log, ldr.log)
    BY InvFacts
<1>2. PICK q : q = become_probe(ldr.pr)
    OBVIOUS
<1>3. ProgressOK(q, fol.log, ldr.log) /\ q.match = ldr.pr.match
    BY <1>1, <1>2, BecomeProbe DEF ProgressOK
<1>4. PICK n : n = WithProgress(ldr, q)
    OBVIOUS
<1>5. Handled(n, ldr, fol.log) /\ n.pr = q
    BY <1>1, <1>3, <1>4, LeaderProgress, HandledBy
<1>6. n = [ldr EXCEPT !.pr = become_probe(@)]
    BY <1>1, <1>2, <1>4, Zenon DEF WithProgress, LdrType
<1>7. Ready(n)
    BY <1>6 DEF ReportUnreachable
<1>8. back' \in Seq(Seq(Back(fol.log, ldr.log))) /\ back' # <<>>
    BY BackStays DEF ReportUnreachable
<1>9. Inv' /\ ldr'.pr = n.pr
    BY <1>5, <1>7, <1>8, HandledEvent
<1> QED BY <1>3, <1>5, <1>9 DEF Moved

LEMMA ReportSnapshotStep == Inv /\ ReportSnapshot => Inv' /\ Moved(ldr'.pr, ldr.pr)
<1> SUFFICES ASSUME Inv, ReportSnapshot PROVE Inv' /\ Moved(ldr'.pr, ldr.pr)
    OBVIOUS
<1>1. LeaderOK(ldr, fol.log) /\ fol.log \in Log /\ ldr \in LdrType /\ ldr.log \in Log
      /\ ProgressOK(ldr.pr, fol.log, ldr.log) /\ Len(ldr.log) \in Nat
    BY InvFacts
<1>2. PICK failed \in BOOLEAN :
        Ready([ldr EXCEPT !.pr =
            [become_probe(IF failed THEN [ldr.pr EXCEPT !.pending_snapshot = 0] ELSE ldr.pr)
                EXCEPT !.paused = TRUE]])
    BY Zenon DEF ReportSnapshot
<1>3. PICK p : p = IF failed THEN [ldr.pr EXCEPT !.pending_snapshot = 0] ELSE ldr.pr
    OBVIOUS
<1>4. p \in PrType /\ p.match = ldr.pr.match
      /\ (p.pending_snapshot = 0 \/ p.pending_snapshot = ldr.pr.pending_snapshot)
  <2>1. 0 \in Nat /\ ldr.pr \in PrType
      BY <1>1 DEF ProgressOK
  <2> QED BY <1>3, <2>1, Zenon DEF PrType
<1>5. ProgressOK(become_probe(p), fol.log, ldr.log) /\ become_probe(p).match = p.match
  <2>1. Agrees(fol.log, ldr.log, p.match) /\ p.pending_snapshot <= Len(ldr.log)
      BY <1>1, <1>4 DEF ProgressOK
  <2> QED BY <1>1, <1>4, <2>1, BecomeProbe
<1>6. PICK b : b = become_probe(p)
    OBVIOUS
<1>7. PICK q : q = [b EXCEPT !.paused = TRUE]
    OBVIOUS
<1>8. ProgressOK(q, fol.log, ldr.log) /\ q.match = b.match
  <2>1. b \in PrType
      BY <1>5, <1>6 DEF ProgressOK
  <2>2. q \in PrType /\ q.match = b.match /\ q.next = b.next /\ q.state = b.state /\ q.ins = b.ins
        /\ q.pending_snapshot = b.pending_snapshot
      BY <1>7, <2>1, Zenon DEF PrType
  <2> QED BY <1>1, <1>5, <1>6, <2>2, SameProgress
<1>9. PICK n : n = WithProgress(ldr, q)
    OBVIOUS
<1>10. Handled(n, ldr, fol.log) /\ n.pr = q
    BY <1>1, <1>8, <1>9, LeaderProgress, HandledBy
<1>11. Ready(n)
    BY <1>2, <1>3, <1>6, <1>7, <1>9 DEF WithProgress
<1>12. back' \in Seq(Seq(Back(fol.log, ldr.log))) /\ back' # <<>>
    BY BackStays DEF ReportSnapshot
<1>13. Inv' /\ ldr'.pr = n.pr
    BY <1>10, <1>11, <1>12, HandledEvent
<1> QED BY <1>4, <1>5, <1>6, <1>8, <1>10, <1>13 DEF Moved

LEMMA RecvAppStep ==
    ASSUME NEW k \in 1..2
    PROVE  Inv /\ RecvApp(k) => Inv' /\ Moved(ldr'.pr, ldr.pr)
<1> SUFFICES ASSUME Inv, RecvApp(k) PROVE Inv' /\ Moved(ldr'.pr, ldr.pr)
    OBVIOUS
<1>1. LeaderOK(ldr, fol.log) /\ fol.log \in Log /\ ldr \in LdrType /\ ldr.log \in Log
      /\ ldr.committed \in Nat /\ Len(ldr.log) \in Nat
    BY InvFacts
<1>2. /\ FollowerOK(fol, ldr.log, ldr.committed) /\ ldr.msgs = <<>>
      /\ down \in Seq(Seq(Down(fol.log, ldr.log, ldr.committed)))
      /\ back \in Seq(Seq(Back(fol.log, ldr.log))) /\ back # <<>>
    BY DEF Inv
<1>3. k \in DOMAIN down /\ down[k] # <<>> /\ down' = Taken(down, k)
    BY DEF RecvApp, FollowerReads
<1>4. /\ down' \in Seq(Seq(Down(fol.log, ldr.log, ldr.committed))) /\ down' # <<>>
      /\ Next1(down, k) \in Down(fol.log, ldr.log, ldr.committed)
    BY <1>2, <1>3, TakenPipe
<1>5. PICK m : m = Next1(down, k)
    OBVIOUS
<1>6. PICK a : a = step_follower(fol, m)
    OBVIOUS
<1>7. PICK f : f = a[1]
    OBVIOUS
<1>8. PICK x : x = a[2]
    OBVIOUS
<1>9. fol' = f /\ back' = Put(back, <<x>>) /\ UNCHANGED ldr
    BY <1>5, <1>6, <1>7, <1>8 DEF RecvApp
<1>10. Kept(f, fol, ldr.log, ldr.committed) /\ x \in Back(f.log, ldr.log)
    BY <1>1, <1>2, <1>4, <1>5, <1>6, <1>7, <1>8, StepFollower
<1>11. f.log \in Log /\ FollowerOK(f, ldr.log, ldr.committed)
       /\ \A i \in Nat : Agrees(fol.log, ldr.log, i) => Agrees(f.log, ldr.log, i)
    BY <1>10 DEF Kept, FollowerOK, FolType
<1>12. /\ \A m1 \in Down(fol.log, ldr.log, ldr.committed) : m1 \in Down(f.log, ldr.log, ldr.committed)
       /\ \A m1 \in Back(fol.log, ldr.log) : m1 \in Back(f.log, ldr.log)
  <2>1. ldr.committed <= ldr.committed /\ Len(ldr.log) <= Len(ldr.log)
        /\ \A j \in 1..Len(ldr.log) : ldr.log[j] = ldr.log[j]
      BY <1>1
  <2> QED BY <1>1, <1>11, <2>1, UnderWayStays
<1>13. LeaderOK(ldr, f.log)
  <2>1. ProgressOK(ldr.pr, fol.log, ldr.log) /\ ldr.pr.match \in Nat
      BY <1>1 DEF LeaderOK, ProgressOK, PrType
  <2>2. ProgressOK(ldr.pr, f.log, ldr.log)
      BY <1>11, <2>1 DEF ProgressOK
  <2>3. <<>> \in Seq(Down(f.log, ldr.log, ldr.committed))
      OBVIOUS
  <2> QED BY <1>1, <1>2, <2>2, <2>3 DEF LeaderOK
<1>14. down' \in Seq(Seq(Down(f.log, ldr.log, ldr.committed)))
    BY <1>4, <1>12, SeqOfSubset
<1>15. back' \in Seq(Seq(Back(f.log, ldr.log))) /\ back' # <<>>
  <2>1. back \in Seq(Seq(Back(f.log, ldr.log)))
      BY <1>2, <1>12, SeqOfSubset
  <2>2. <<x>> \in Seq(Back(f.log, ldr.log))
      BY <1>10
  <2> QED BY <1>2, <1>9, <2>1, <2>2, PutPipe
<1>16. saved' \in Nat
  <2>1. saved' = IF f.log = fol.log THEN saved ELSE f.committed
      BY <1>5, <1>6, <1>7 DEF RecvApp
  <2>2. saved \in Nat /\ f.committed \in Nat
      BY <1>11 DEF Inv, FollowerOK, FolType
  <2> QED BY <2>1, <2>2
<1>17. Moved(ldr'.pr, ldr.pr)
    BY <1>9 DEF Moved
<1> QED BY <1>2, <1>4, <1>9, <1>11, <1>13, <1>14, <1>15, <1>16, <1>17 DEF Inv

LEMMA BreakStep == Inv /\ (BreakDown \/ BreakBack) => Inv' /\ Moved(ldr'.pr, ldr.pr)
<1> SUFFICES ASSUME Inv, BreakDown \/ BreakBack PROVE Inv' /\ Moved(ldr'.pr, ldr.pr)
    OBVIOUS
<1>1. /\ down \in Seq(Seq(Down(fol.log, ldr.log, ldr.committed))) /\ down # <<>>
      /\ back \in Seq(Seq(Back(fol.log, ldr.log))) /\ back # <<>>
    BY DEF Inv
<1>2. UNCHANGED <<ldr, fol, saved>>
    BY DEF BreakDown, BreakBack
<1>3. down' \in Seq(Seq(Down(fol.log, ldr.log, ldr.committed))) /\ down' # <<>>
    BY <1>1, ReconnectedPipe DEF BreakDown, BreakBack
<1>4. back' \in Seq(Seq(Back(fol.log, ldr.log))) /\ back' # <<>>
    BY <1>1, ReconnectedPipe DEF BreakDown, BreakBack
<1> QED BY <1>2, <1>3, <1>4 DEF Inv, Moved

(* The follower comes back with a commit index that it once had.           *)
LEMMA RestartStep == Inv /\ Restart => Inv' /\ Moved(ldr'.pr, ldr.pr)
<1> SUFFICES ASSUME Inv, Restart PROVE Inv' /\ Moved(ldr'.pr, ldr.pr)
    OBVIOUS
<1>1. /\ back \in Seq(Seq(Back(fol.log, ldr.log))) /\ back # <<>>
      /\ FollowerOK(fol, ldr.log, ldr.committed) /\ saved \in Nat
    BY DEF Inv
<1>2. ldr.log \in Log /\ ldr.committed \in Nat
    BY InvFacts
<1>3. fol \in FolType /\ fol.log \in Log /\ fol.committed \in Nat /\ fol.committed <= ldr.committed
    BY <1>1 DEF FollowerOK, FolType
<1>4. PICK c \in saved..fol.committed : fol' = [fol EXCEPT !.committed = c] /\ saved' = c
    BY DEF Restart
<1>5. c \in Nat /\ c \in 0..fol.committed /\ c <= ldr.committed /\ saved' \in Nat
    BY <1>1, <1>2, <1>3, <1>4
<1>6. fol' \in FolType /\ fol'.log = fol.log /\ fol'.committed = c /\ fol'.fatal = fol.fatal
    BY <1>3, <1>4, <1>5, Zenon DEF FolType
<1>7. Agrees(fol.log, ldr.log, c)
    BY <1>1, <1>2, <1>3, <1>5, AgreesLess DEF FollowerOK
<1>8. FollowerOK(fol', ldr.log, ldr.committed)
    BY <1>1, <1>5, <1>6, <1>7 DEF FollowerOK
<1>9. down' \in Seq(Seq(Down(fol.log, ldr.log, ldr.committed))) /\ down' # <<>>
    BY EmptyPipeOK DEF Restart
<1>10. back' \in Seq(Seq(Back(fol.log, ldr.log))) /\ back' # <<>>
    BY <1>1, ReconnectedPipe DEF Restart
<1>11. ldr' = ldr
    BY DEF Restart
<1> QED BY <1>5, <1>6, <1>8, <1>9, <1>10, <1>11 DEF Inv, Moved

-----------------------------------------------------------------------------
(* The initial states: the election just won.                              *)

LEMMA InitialLogs ==
    ASSUME NEW flog \in FollowerLogs
    PROVE  /\ flog \in Log /\ LeaderLog \in Log /\ Matching(flog, LeaderLog)
           /\ Committed \in Nat /\ Committed <= Len(LeaderLog)
<1>1. Term \in Nat /\ Term # 0
    BY ReplicationAssumption
<1> DEFINE D == 1..(Term - 1)
           E == 1..Term
<1>2. flog \in Seq(D) /\ LeaderLog \in Seq(D)
    BY ReplicationAssumption
<1>3. (\A x \in D : x \in E) /\ \A x \in D : x < Term
    BY <1>1
<1>4. Log = Seq(E)
    BY Zenon DEF Log
<1> HIDE DEF D, E
<1>5. flog \in Log /\ LeaderLog \in Log
    BY <1>2, <1>3, <1>4, SeqOfSubset
<1>6. /\ Len(flog) \in Nat /\ DOMAIN flog = 1..Len(flog)
      /\ Len(LeaderLog) \in Nat /\ DOMAIN LeaderLog = 1..Len(LeaderLog)
      /\ \A k \in 1..Len(flog) : flog[k] \in D
    BY <1>2, Elements
<1>7. \A k \in DOMAIN flog \cap DOMAIN LeaderLog :
          flog[k] = LeaderLog[k] => \A j \in 1..k : flog[j] = LeaderLog[j]
    BY ReplicationAssumption
<1>8. ASSUME NEW k \in DOMAIN flog
      PROVE  /\ k > Len(LeaderLog) => flog[k] < Term
             /\ k <= Len(LeaderLog) /\ flog[k] = LeaderLog[k] => \A j \in 1..k : flog[j] = LeaderLog[j]
  <2>1. flog[k] < Term
      BY <1>3, <1>6
  <2>2. k <= Len(LeaderLog) => k \in DOMAIN flog \cap DOMAIN LeaderLog
      BY <1>6
  <2> QED BY <1>7, <2>1, <2>2
<1>9. Matching(flog, LeaderLog)
    BY <1>8 DEF Matching
<1>10. Committed \in Nat /\ Committed <= Len(LeaderLog)
    BY <1>6, ReplicationAssumption
<1> QED BY <1>5, <1>9, <1>10

LEMMA InitInv == Init => Inv
<1> SUFFICES ASSUME Init PROVE Inv
    OBVIOUS
<1>1. PICK flog \in FollowerLogs : fol = [log |-> flog, committed |-> 0, fatal |-> FALSE]
    BY DEF Init
<1>2. /\ flog \in Log /\ LeaderLog \in Log /\ Matching(flog, LeaderLog)
      /\ Committed \in Nat /\ Committed <= Len(LeaderLog)
    BY InitialLogs
<1>3. Len(LeaderLog) \in Nat /\ Len(flog) \in Nat
    BY <1>2 DEF Log
<1> DEFINE log == Append(LeaderLog, Term)
           pr  == NewProgress(Len(LeaderLog) + 1)
           e   == [log |-> log, first |-> 1, snap |-> 0, committed |-> Committed, other |-> 0,
                   pr |-> pr, msgs |-> <<>>]
           n   == send_append(e)
<1>4. log \in Log /\ Len(log) = Len(LeaderLog) + 1 /\ Matching(flog, log)
    BY <1>2, MatchingAppend
<1>5. Elected = n
    BY Zenon DEF Elected
<1> HIDE DEF log
<1>6. Agrees(flog, log, 0)
    BY <1>3, <1>4 DEF Agrees
<1>7. ProgressOK(pr, flog, log)
  <2>1. pr \in PrType /\ pr.match = 0 /\ pr.next = Len(LeaderLog) + 1 /\ pr.state = "Probe"
        /\ pr.pending_snapshot = 0
      BY <1>3 DEF NewProgress, PrType
  <2> HIDE DEF pr
  <2> QED BY <1>3, <1>4, <1>6, <2>1 DEF ProgressOK
<1> HIDE DEF pr
<1>8. LeaderOK(e, flog)
  <2>1. pr \in PrType
      BY <1>7 DEF ProgressOK
  <2>2. e \in LdrType /\ e.log = log /\ e.committed = Committed /\ e.other = 0 /\ e.snap = 0
        /\ e.first = 1 /\ e.pr = pr /\ e.msgs = <<>>
    <3>1. <<>> \in Seq(DownMsg) /\ 0 \in Nat /\ 1 \in Nat
        OBVIOUS
    <3> QED BY <1>2, <1>4, <2>1, <3>1, Zenon DEF LdrType
  <2> HIDE DEF e
  <2>3. e.msgs \in Seq(Down(flog, e.log, e.committed))
    <3>1. <<>> \in Seq(Down(flog, e.log, e.committed))
        OBVIOUS
    <3> QED BY <2>2, <3>1
  <2> QED BY <1>2, <1>3, <1>4, <1>7, <2>2, <2>3 DEF LeaderOK
<1>9. e.log = log /\ e.committed = Committed
    OBVIOUS
<1> HIDE DEF e
<1>10. LeaderOK(n, flog) /\ n.log = log /\ n.committed = Committed
    BY <1>2, <1>8, <1>9, SendAppend DEF Follows
<1> HIDE DEF n
<1>11. n \in LdrType /\ n.msgs \in Seq(Down(flog, log, Committed))
    BY <1>10 DEF LeaderOK
<1>12. LeaderOK(ldr, flog) /\ ldr.msgs = <<>> /\ ldr.log = log /\ ldr.committed = Committed
  <2>1. <<>> \in Seq(Down(flog, n.log, n.committed)) /\ ProgressOK(n.pr, flog, n.log)
      BY <1>10 DEF LeaderOK
  <2>2. PICK r : r = WithMsgs(n, n.pr, <<>>)
      OBVIOUS
  <2>3. Follows(r, n, flog)
      BY <1>2, <1>10, <2>1, <2>2, LeaderUpdate
  <2>4. ldr = r /\ r.msgs = <<>>
    <3>1. ldr = [n EXCEPT !.msgs = <<>>]
        BY <1>5 DEF Init
    <3> QED BY <1>11, <2>2, <3>1, Zenon DEF WithMsgs, LdrType
  <2> QED BY <1>10, <2>3, <2>4 DEF Follows
<1>13. fol.log = flog /\ FollowerOK(fol, log, Committed)
  <2>1. fol \in FolType /\ fol.log = flog /\ fol.committed = 0 /\ fol.fatal = FALSE
      BY <1>1, <1>2 DEF FolType
  <2> QED BY <1>2, <1>4, <1>6, <2>1 DEF FollowerOK
<1>14. down \in Seq(Seq(Down(flog, log, Committed))) /\ down # <<>>
  <2>1. down = Put(EmptyPipe, n.msgs)
      BY <1>5 DEF Init
  <2> QED BY <1>11, <2>1, EmptyPipeOK, PutPipe
<1>15. back \in Seq(Seq(Back(flog, log))) /\ back # <<>>
    BY EmptyPipeOK DEF Init
<1>16. saved \in Nat
    BY DEF Init
<1> QED BY <1>12, <1>13, <1>14, <1>15, <1>16 DEF Inv

LEMMA InvStep == Inv /\ [Next]_vars => Inv' /\ Moved(ldr'.pr, ldr.pr)
<1> SUFFICES ASSUME Inv, [Next]_vars PROVE Inv' /\ Moved(ldr'.pr, ldr.pr)
    OBVIOUS
<1>1. CASE Propose
    BY <1>1, ProposeStep
<1>2. CASE OtherResp
    BY <1>2, OtherRespStep
<1>3. CASE Beat
    BY <1>3, BeatStep
<1>4. CASE \E k \in 1..2 : RecvResp(k) \/ RecvApp(k)
    BY <1>4, RecvRespStep, RecvAppStep
<1>5. CASE ReportUnreachable
    BY <1>5, ReportUnreachableStep
<1>6. CASE ReportSnapshot
    BY <1>6, ReportSnapshotStep
<1>7. CASE BreakDown \/ BreakBack
    BY <1>7, BreakStep
<1>8. CASE Restart
    BY <1>8, RestartStep
<1>9. CASE UNCHANGED vars
    BY <1>9 DEF vars, Inv, Moved
<1> QED BY <1>1, <1>2, <1>3, <1>4, <1>5, <1>6, <1>7, <1>8, <1>9 DEF Next

(* Whatever is lost, delayed or restarted, everything under way, the       *)
(* progress of the follower and its log keep the invariant above.          *)
THEOREM Invariance == Spec => []Inv
BY InitInv, InvStep, PTL DEF Spec

-----------------------------------------------------------------------------
(* What follows from it.                                                   *)

(* For all logs and bounds: the follower commits only what the leader has  *)
(* committed at that index, never runs past its log, and holds whatever    *)
(* the leader counts as its match, so that the leader's commit rule counts *)
(* what is there (handle_append_entries, RaftLog::maybe_append, commit_to, *)
(* Progress::maybe_update, Raft::maybe_commit).                            *)
THEOREM Agreement == Spec => []FollowerAgrees
<1>1. Inv => FollowerAgrees
  <2> SUFFICES ASSUME Inv PROVE FollowerAgrees
      OBVIOUS
  <2>1. /\ ~fol.fatal /\ fol.committed <= ldr.committed
        /\ Agrees(fol.log, ldr.log, fol.committed)
      BY DEF Inv, FollowerOK
  <2>2. Agrees(fol.log, ldr.log, ldr.pr.match)
      BY DEF Inv, LeaderOK, ProgressOK
  <2>3. max(fol.committed, ldr.pr.match) \in {fol.committed, ldr.pr.match}
      BY DEF max
  <2>4. \A k \in 1..max(fol.committed, ldr.pr.match) : fol.log[k] = ldr.log[k]
      BY <2>1, <2>2, <2>3 DEF Agrees
  <2>5. ldr.pr.match <= Len(fol.log)
      BY <2>2 DEF Agrees
  <2> QED BY <2>1, <2>4, <2>5 DEF FollowerAgrees
<1> QED BY <1>1, Invariance, PTL

(* For all window sizes: in state Replicate the window holds no more than  *)
(* max_inflight_msgs indexes, in increasing order, each beyond match and   *)
(* below next, and next never runs past the log (InFlights::add, free_to,  *)
(* free_first_one, Progress::optimistic_update, maybe_update).             *)
THEOREM WindowOrder == Spec => []WindowInOrder
<1>1. Inv => WindowInOrder
  <2> SUFFICES ASSUME Inv, ldr.pr.state = "Replicate"
               PROVE  /\ ldr.pr.match < ldr.pr.next
                      /\ ldr.pr.next <= Len(ldr.log) + 1
                      /\ Len(ldr.pr.ins) <= MaxInflight
                      /\ \A k \in DOMAIN ldr.pr.ins :
                            ldr.pr.match < ldr.pr.ins[k] /\ ldr.pr.ins[k] < ldr.pr.next
                      /\ \A k, l \in DOMAIN ldr.pr.ins : k < l => ldr.pr.ins[k] < ldr.pr.ins[l]
      BY Zenon DEF WindowInOrder
  <2>1. ProgressOK(ldr.pr, fol.log, ldr.log) /\ Len(ldr.log) \in Nat
      BY InvFacts
  <2>2. DOMAIN ldr.pr.ins = 1..Len(ldr.pr.ins)
      BY <2>1, Elements DEF ProgressOK, PrType
  <2>3. Window(ldr.pr) /\ ldr.pr.next <= Len(ldr.log) + 1
      BY <2>1 DEF ProgressOK
  <2> QED BY <2>2, <2>3 DEF Window, InOrder
<1> QED BY <1>1, Invariance, PTL

(* For all logs, windows and thresholds, and whatever rejections came late: *)
(* match never goes back, and an acknowledgement that moves it leaves next  *)
(* beyond it and no peer waiting for a snapshot it has overtaken            *)
(* (Progress::maybe_update, become_replicate, become_probe,                 *)
(* need_snapshot_abort, and maybe_send_append, which asks for a snapshot    *)
(* only when next has been compacted away).                                 *)
THEOREM AcksRepair == Spec => AckRepairs
<1>1. Moved(ldr'.pr, ldr.pr) =>
        (ldr'.pr.match # ldr.pr.match => ldr.pr.match < ldr'.pr.match /\ Repaired(ldr'.pr))
    BY DEF Moved
<1>2. Inv /\ [Next]_vars =>
        [ldr'.pr.match # ldr.pr.match => ldr.pr.match < ldr'.pr.match /\ Repaired(ldr'.pr)]_vars
    BY <1>1, InvStep
<1> QED BY <1>2, Invariance, PTL DEF Spec, AckRepairs

=============================================================================
