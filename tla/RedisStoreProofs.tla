-------------------------- MODULE RedisStoreProofs --------------------------
(***************************************************************************)
(* Theorems about module RedisStore: for any number of clients, requests,  *)
(* keys, committed entries and restarts, the map is the applied log, a     *)
(* snapshot is the map of its index, no request is answered twice and an   *)
(* assignment is answered with OK only once it is committed and applied.   *)
(***************************************************************************)
EXTENDS RedisStore, SetInduction, SequenceTheorems, TLAPS

-----------------------------------------------------------------------------
(* Types.                                                                  *)

MapType == [Key -> Value \cup {NoValue}]

RequestId == 0..(MaxRequests - 1)

(* Entries; those that were proposed here carry an id of this server.      *)
EntryType == [node : {"self", "other", "none"}, id : Nat, cmd : CommandType, req : Nat]

Entry == {e \in EntryType : e.node = "self" => e.id \in RequestId}

OwnEntry == {e \in Entry : e.node = "self"}

Status == {"accepted", "dropped"}

ClosureType ==
    [kind : Status, commit : OwnEntry, map : MapType]
      \cup [kind : {"read_commit", "get_snapshot", "recover"}, commit : Entry, map : MapType]

ReplyType == [req : Nat, text : {"OK", "ERR", "reply"}]

SessionType ==
    {s \in [buffer : Seq(ReplyType), writing : Nat, broken : BOOLEAN, quit : BOOLEAN] :
        s.writing <= Len(s.buffer)}

RequestType == [session : Session, cmd : CommandType]

SnapshotType == [index : Nat, map : MapType]

TypeInv ==
    /\ key_values \in MapType
    /\ request \in Seq(RequestType) /\ Len(request) <= MaxRequests
    /\ pending \in [RequestId -> 0..Len(request)]
    /\ next_request_id \in 0..Len(request)
    /\ redis_queue \in Seq(ClosureType)
    /\ raft_queue \in Seq(OwnEntry)
    /\ waiting \in BOOLEAN
    /\ applied_index \in Nat
    /\ snapshot \in SnapshotType /\ start \in SnapshotType
    /\ log \in Seq(Entry) /\ proposed \in SUBSET OwnEntry
    /\ session \in [Session -> SessionType]
    /\ received \in [Session -> Seq(ReplyType)]
    /\ restarts \in Nat

-----------------------------------------------------------------------------
(* The map and its snapshots.                                              *)

(* The request for the data of a snapshot is the last closure of the redis *)
(* thread, and the raft thread waits for it.                               *)
SnapshotLast ==
    \A k \in DOMAIN redis_queue :
        redis_queue[k].kind = "get_snapshot" => waiting /\ k = Len(redis_queue)

StoreInv ==
    /\ start.index <= applied_index /\ snapshot.index <= applied_index
    /\ applied_index <= Len(log)
    /\ SnapshotLast
    /\ StoreIsApplied

-----------------------------------------------------------------------------
(* The answers, as a function R of the connection.                         *)

AllReplies == [c \in Session |-> Replies(c)]

AnsweredIn(R, c, r, text) == \E i \in DOMAIN R[c] : R[c][i] = Reply(r, text)

(* A request of pending_requests_ has its own id and no answer yet.        *)
AnswerGood(R, pend, next, reqs, fresh) ==
    /\ \A c \in Session : \A i \in DOMAIN R[c] : R[c][i].req \in 1..Len(reqs)
    /\ \A c \in Session : \A i, j \in DOMAIN R[c] : i # j => R[c][i].req # R[c][j].req
    /\ \A id \in RequestId : pend[id] # None =>
          /\ id < next
          /\ \A c \in Session : \A i \in DOMAIN R[c] : R[c][i].req # pend[id]
          /\ \A id2 \in RequestId : pend[id2] = pend[id] => id2 = id
    /\ fresh => \A r \in DOMAIN reqs :
          reqs[r].cmd.keys # {} =>
            \/ \E id \in RequestId : pend[id] = r
            \/ \E text \in {"OK", "ERR"} : AnsweredIn(R, reqs[r].session, r, text)

AnswerInv == AnswerGood(AllReplies, pending, next_request_id, request, restarts = 0)

-----------------------------------------------------------------------------
(* The writes of this server, as long as it was not restarted.             *)

(* The entry e is the write of its request, and its id still stands for    *)
(* that request or for none.                                               *)
Mine(e, pend, next, reqs) ==
    /\ e.req \in DOMAIN reqs
    /\ e.cmd = reqs[e.req].cmd
    /\ e.id < next
    /\ pend[e.id] \in {None, e.req}

MineGood(rq, prop, l, queue, pend, next, reqs) ==
    /\ \A k \in DOMAIN rq : Mine(rq[k], pend, next, reqs)
    /\ \A e \in prop : Mine(e, pend, next, reqs)
    /\ \A k \in DOMAIN l :
          IF l[k].node = "self" THEN Mine(l[k], pend, next, reqs) ELSE l[k].req = None
    /\ \A k \in DOMAIN queue : queue[k].kind \in Status => Mine(queue[k].commit, pend, next, reqs)

(* A write is in one place between its proposal and its commit.            *)
OnePlace(rq, prop, l) ==
    /\ \A j, k \in DOMAIN rq : rq[j].req = rq[k].req => j = k
    /\ \A k \in DOMAIN rq : \A e \in prop : rq[k].req # e.req
    /\ \A k \in DOMAIN rq : \A i \in DOMAIN l : rq[k].req # l[i].req
    /\ \A d, e \in prop : d.req = e.req => d = e
    /\ \A e \in prop : \A i \in DOMAIN l : e.req # l[i].req
    /\ \A i, j \in DOMAIN l : l[i].req = l[j].req /\ l[i].req # None => i = j

(* What read_commit has been posted for, each entry once.                  *)
ReadsGood(queue, l, n) ==
    /\ \A k \in DOMAIN queue : queue[k].kind = "read_commit" =>
          \E i \in 1..n : queue[k].commit = l[i]
    /\ \A j, k \in DOMAIN queue :
          /\ queue[j].kind = "read_commit" /\ queue[k].kind = "read_commit"
          /\ queue[j].commit.req = queue[k].commit.req /\ queue[j].commit.req # None
          => j = k

OkGood(R, reqs, queue, l, n) ==
    \A r \in DOMAIN reqs :
        reqs[r].cmd.op = "set" /\ AnsweredIn(R, reqs[r].session, r, "OK") =>
          /\ \E i \in 1..n : l[i].req = r
          /\ \A k \in DOMAIN queue : queue[k].kind = "read_commit" => queue[k].commit.req # r

OwnInv ==
    restarts = 0 =>
        /\ MineGood(raft_queue, proposed, log, redis_queue, pending, next_request_id, request)
        /\ OnePlace(raft_queue, proposed, log)
        /\ ReadsGood(redis_queue, log, applied_index)
        /\ OkGood(AllReplies, request, redis_queue, log, applied_index)

Inv == TypeInv /\ StoreInv /\ AnswerInv /\ OwnInv


-----------------------------------------------------------------------------
(* Effects, a recursive function over a queue.                             *)

Rounds(f, kv, q, i) ==
    f = [k \in 0..i |-> IF k = 0 THEN kv ELSE effect(f[k - 1], q[k])]

LEMMA RoundsExist ==
    ASSUME NEW kv, NEW q, NEW i \in Nat
    PROVE  \E f : Rounds(f, kv, q, i)
<1> DEFINE S == {j \in Nat : \E f : Rounds(f, kv, q, j)}
<1>1. 0 \in S
  <2> DEFINE f == [k \in 0..0 |-> kv]
  <2>1. f = [k \in 0..0 |-> IF k = 0 THEN kv ELSE effect(f[k - 1], q[k])]
      OBVIOUS
  <2> HIDE DEF f
  <2> QED BY <2>1 DEF Rounds
<1>2. ASSUME NEW j \in Nat, j \in S
      PROVE  j + 1 \in S
  <2>1. PICK g : Rounds(g, kv, q, j)
      BY <1>2
  <2> DEFINE f == [k \in 0..(j + 1) |-> IF k = 0 THEN kv ELSE effect(g[k - 1], q[k])]
  <2>2. ASSUME NEW k \in 0..j
        PROVE  f[k] = g[k]
    <3>1. g = [l \in 0..j |-> IF l = 0 THEN kv ELSE effect(g[l - 1], q[l])]
        BY <2>1, Zenon DEF Rounds
    <3>2. g[k] = IF k = 0 THEN kv ELSE effect(g[k - 1], q[k])
        BY <3>1, Zenon
    <3>3. k \in 0..(j + 1)
        OBVIOUS
    <3>4. f[k] = IF k = 0 THEN kv ELSE effect(g[k - 1], q[k])
        BY <3>3, Zenon
    <3> QED BY <3>2, <3>4, Zenon
  <2>3. ASSUME NEW k \in 0..(j + 1), k # 0
        PROVE  f[k - 1] = g[k - 1]
    <3>1. k - 1 \in 0..j
        BY <2>3
    <3> QED BY <2>2, <3>1, Zenon
  <2>4. f = [k \in 0..(j + 1) |-> IF k = 0 THEN kv ELSE effect(f[k - 1], q[k])]
    <3>1. ASSUME NEW k \in 0..(j + 1)
          PROVE  (IF k = 0 THEN kv ELSE effect(g[k - 1], q[k]))
                   = (IF k = 0 THEN kv ELSE effect(f[k - 1], q[k]))
        BY <2>3, Zenon
    <3> QED BY <3>1, Zenon
  <2> HIDE DEF f
  <2>5. \E h : Rounds(h, kv, q, j + 1)
      BY <2>4 DEF Rounds
  <2> QED BY <2>5
<1>3. \A j \in Nat : j \in S
  <2> HIDE DEF S
  <2> QED BY <1>1, <1>2, NatSetInduction
<1> QED BY <1>3

(* f takes the map kv through the closures of q, one after the other.      *)
Chain(f, kv, q) ==
    /\ f[0] = kv
    /\ \A j \in Nat : j < Len(q) => f[j + 1] = effect(f[j], q[j + 1])

LEMMA EffectsChain ==
    ASSUME NEW kv, NEW q, Len(q) \in Nat
    PROVE  \E f : Chain(f, kv, q) /\ Effects(kv, q) = f[Len(q)]
<1> DEFINE N == Len(q)
           f == CHOOSE g : Rounds(g, kv, q, N)
<1>1. Rounds(f, kv, q, N)
    BY RoundsExist, Zenon
<1>2. Effects(kv, q) = f[Len(q)]
    BY Zenon DEF Effects, Rounds
<1> HIDE DEF f
<1>3. f = [k \in 0..N |-> IF k = 0 THEN kv ELSE effect(f[k - 1], q[k])]
    BY <1>1, Zenon DEF Rounds
<1>4. \A k \in 0..N : f[k] = IF k = 0 THEN kv ELSE effect(f[k - 1], q[k])
    BY <1>3, Zenon
<1>5. f[0] = kv
  <2>1. 0 \in 0..N
      OBVIOUS
  <2> QED BY <1>4, <2>1, Zenon
<1>6. ASSUME NEW j \in Nat, j < Len(q)
      PROVE  f[j + 1] = effect(f[j], q[j + 1])
  <2>1. j + 1 \in 0..N /\ j + 1 # 0 /\ (j + 1) - 1 = j
      BY <1>6
  <2>2. f[j + 1] = effect(f[(j + 1) - 1], q[j + 1])
      BY <1>4, <2>1, Zenon
  <2> QED BY <2>1, <2>2, Zenon
<1> QED BY <1>2, <1>5, <1>6 DEF Chain

LEMMA EffectsOf ==
    ASSUME NEW kv, NEW q, Len(q) \in Nat, NEW f, Chain(f, kv, q)
    PROVE  Effects(kv, q) = f[Len(q)]
<1>1. PICK g : Chain(g, kv, q) /\ Effects(kv, q) = g[Len(q)]
    BY EffectsChain
<1> DEFINE S == {j \in Nat : j <= Len(q) => f[j] = g[j]}
<1>2. 0 \in S
    BY <1>1 DEF Chain
<1>3. ASSUME NEW j \in Nat, j \in S
      PROVE  j + 1 \in S
  <2>1. CASE j + 1 <= Len(q)
    <3>1. f[j] = g[j] /\ j < Len(q)
        BY <1>3, <2>1
    <3>2. f[j + 1] = effect(f[j], q[j + 1]) /\ g[j + 1] = effect(g[j], q[j + 1])
        BY <1>1, <3>1, Zenon DEF Chain
    <3> QED BY <3>1, <3>2
  <2>2. CASE ~(j + 1 <= Len(q))
      BY <2>2
  <2> QED BY <2>1, <2>2
<1>4. \A j \in Nat : j \in S
  <2> HIDE DEF S
  <2> QED BY <1>2, <1>3, NatSetInduction
<1> QED BY <1>1, <1>4

LEMMA EffectsEmpty ==
    ASSUME NEW kv, NEW q, Len(q) = 0
    PROVE  Effects(kv, q) = kv
<1>1. PICK f : Chain(f, kv, q) /\ Effects(kv, q) = f[Len(q)]
    BY EffectsChain
<1> QED BY <1>1 DEF Chain

LEMMA ConcatAppend ==
    ASSUME NEW S, NEW x \in Seq(S), NEW y \in Seq(S), NEW z \in S
    PROVE  x \o Append(y, z) = Append(x \o y, z)
OBVIOUS

LEMMA EffectsAppend ==
    ASSUME NEW kv, NEW S, NEW q \in Seq(S), NEW c \in S
    PROVE  Effects(kv, Append(q, c)) = effect(Effects(kv, q), c)
<1> DEFINE p == Append(q, c)
           N == Len(q)
<1>1. N \in Nat /\ Len(p) = N + 1 /\ p[N + 1] = c /\ \A k \in 1..N : p[k] = q[k]
    OBVIOUS
<1> HIDE DEF p
<1>2. PICK f : Chain(f, kv, p) /\ Effects(kv, p) = f[Len(p)]
    BY <1>1, EffectsChain
<1>3. Chain(f, kv, q)
  <2>1. ASSUME NEW j \in Nat, j < Len(q)
        PROVE  f[j + 1] = effect(f[j], q[j + 1])
    <3>1. j < Len(p) /\ p[j + 1] = q[j + 1]
        BY <1>1, <2>1
    <3>2. f[j + 1] = effect(f[j], p[j + 1])
        BY <1>2, <3>1, Zenon DEF Chain
    <3> QED BY <3>1, <3>2, Zenon
  <2> QED BY <1>2, <2>1 DEF Chain
<1>4. Effects(kv, q) = f[N]
    BY <1>3, EffectsOf
<1>5. f[N + 1] = effect(f[N], p[N + 1])
  <2>1. N < Len(p)
      BY <1>1
  <2> QED BY <1>1, <1>2, <2>1, Zenon DEF Chain
<1>6. Effects(kv, p) = effect(Effects(kv, q), c)
  <2> HIDE DEF N
  <2> QED BY <1>1, <1>2, <1>4, <1>5, Zenon
<1> QED BY <1>6 DEF p

LEMMA EffectsHead ==
    ASSUME NEW kv, NEW S, NEW q \in Seq(S), q # <<>>
    PROVE  Effects(kv, q) = Effects(effect(kv, Head(q)), Tail(q))
<1> DEFINE t == Tail(q)
<1>1. /\ Len(q) \in Nat /\ Len(q) > 0 /\ Len(t) = Len(q) - 1 /\ Head(q) = q[1]
      /\ \A k \in 1..Len(t) : t[k] = q[k + 1]
    OBVIOUS
<1>2. PICK f : Chain(f, kv, q) /\ Effects(kv, q) = f[Len(q)]
    BY EffectsChain
<1> DEFINE g == [j \in Nat |-> f[j + 1]]
<1> HIDE DEF t
<1>3. Chain(g, effect(kv, Head(q)), t)
  <2>1. g[0] = effect(kv, Head(q))
    <3>1. 0 + 1 = 1 /\ 0 < Len(q) /\ 0 \in Nat
        BY <1>1
    <3>2. f[1] = effect(f[0], q[1])
        BY <1>2, <3>1, Zenon DEF Chain
    <3>3. g[0] = f[1]
        BY <3>1, Zenon
    <3> QED BY <1>1, <1>2, <3>2, <3>3, Zenon DEF Chain
  <2>2. ASSUME NEW j \in Nat, j < Len(t)
        PROVE  g[j + 1] = effect(g[j], t[j + 1])
    <3>1. j + 1 \in Nat /\ j + 1 < Len(q) /\ t[j + 1] = q[(j + 1) + 1]
        BY <1>1, <2>2
    <3>2. f[(j + 1) + 1] = effect(f[j + 1], q[(j + 1) + 1])
        BY <1>2, <3>1, Zenon DEF Chain
    <3>3. g[j + 1] = f[(j + 1) + 1] /\ g[j] = f[j + 1]
        BY <3>1, Zenon
    <3> QED BY <3>1, <3>2, <3>3, Zenon
  <2> QED BY <2>1, <2>2, Zenon DEF Chain
<1>4. g[Len(t)] = f[Len(q)]
  <2>1. Len(t) \in Nat /\ Len(t) + 1 = Len(q)
      BY <1>1
  <2> QED BY <2>1, Zenon
<1> HIDE DEF g
<1>5. Effects(effect(kv, Head(q)), t) = g[Len(t)]
    BY <1>1, <1>3, EffectsOf
<1> QED BY <1>2, <1>4, <1>5 DEF t

-----------------------------------------------------------------------------
(* publish_entries, for a log l whose first a entries are applied.         *)

Posts(p, l, a, n) ==
    p = [i \in a..n |-> IF i = a THEN <<>>
                        ELSE IF l[i] = NoOp THEN p[i - 1]
                        ELSE Append(p[i - 1], read_commit(l[i]))]

LEMMA PostsExist ==
    ASSUME NEW l, NEW a \in Nat, NEW n \in Nat, a <= n
    PROVE  \E p : Posts(p, l, a, n)
<1> DEFINE S == {d \in Nat : \E p : Posts(p, l, a, a + d)}
           Step(p, i) == IF i = a THEN <<>>
                         ELSE IF l[i] = NoOp THEN p[i - 1]
                         ELSE Append(p[i - 1], read_commit(l[i]))
<1>1. 0 \in S
  <2> DEFINE p == [i \in a..(a + 0) |-> <<>>]
  <2>1. ASSUME NEW i \in a..(a + 0)
        PROVE  i = a
      OBVIOUS
  <2>2. p = [i \in a..(a + 0) |-> Step(p, i)]
      BY <2>1, Zenon
  <2> HIDE DEF p
  <2> QED BY <2>2, Zenon DEF Posts
<1>2. ASSUME NEW d \in Nat, d \in S
      PROVE  d + 1 \in S
  <2>1. PICK g : Posts(g, l, a, a + d)
      BY <1>2
  <2> DEFINE p == [i \in a..(a + (d + 1)) |-> Step(g, i)]
  <2>2. ASSUME NEW i \in a..(a + d)
        PROVE  p[i] = g[i]
    <3>1. g = [j \in a..(a + d) |-> Step(g, j)]
        BY <2>1, Zenon DEF Posts
    <3>2. g[i] = Step(g, i)
      <4> HIDE DEF Step
      <4> QED BY <3>1, Zenon
    <3>3. i \in a..(a + (d + 1))
        OBVIOUS
    <3>4. p[i] = Step(g, i)
      <4> HIDE DEF Step
      <4> QED BY <3>3, Zenon
    <3> QED BY <3>2, <3>4, Zenon
  <2>3. ASSUME NEW i \in a..(a + (d + 1)), i # a
        PROVE  p[i - 1] = g[i - 1]
    <3>1. i - 1 \in a..(a + d)
        BY <2>3
    <3> QED BY <2>2, <3>1, Zenon
  <2>4. p = [i \in a..(a + (d + 1)) |-> Step(p, i)]
    <3>1. ASSUME NEW i \in a..(a + (d + 1))
          PROVE  Step(g, i) = Step(p, i)
        BY <2>3, Zenon
    <3> HIDE DEF Step
    <3> QED BY <3>1, Zenon
  <2> HIDE DEF p
  <2>5. \E q : Posts(q, l, a, a + (d + 1))
      BY <2>4, Zenon DEF Posts
  <2>6. d + 1 \in Nat
      OBVIOUS
  <2> QED BY <2>5, <2>6, Zenon
<1>3. \A d \in Nat : d \in S
  <2> HIDE DEF S
  <2> QED BY <1>1, <1>2, NatSetInduction
<1>4. n - a \in Nat /\ a + (n - a) = n
    OBVIOUS
<1> QED BY <1>3, <1>4

(* p[i] is what is posted for the entries up to i.                         *)
Posted(p, l, a, n) ==
    /\ p[a] = <<>>
    /\ \A i \in a..(n - 1) :
          p[i + 1] = IF l[i + 1] = NoOp THEN p[i] ELSE Append(p[i], read_commit(l[i + 1]))

LEMMA PublishEntries ==
    ASSUME NEW n \in Nat, applied_index \in Nat, applied_index <= n
    PROVE  \E p : Posted(p, log, applied_index, n) /\ publish_entries(n) = p[n]
<1> DEFINE a == applied_index
           p == CHOOSE q : Posts(q, log, a, n)
<1>1. Posts(p, log, a, n)
    BY PostsExist, Zenon
<1>2. publish_entries(n) = p[n]
    BY Zenon DEF publish_entries, Posts
<1> HIDE DEF p
<1>3. \A i \in a..n : p[i] = IF i = a THEN <<>>
                             ELSE IF log[i] = NoOp THEN p[i - 1]
                             ELSE Append(p[i - 1], read_commit(log[i]))
    BY <1>1, Zenon DEF Posts
<1>4. p[a] = <<>>
  <2>1. a \in a..n
      OBVIOUS
  <2> QED BY <1>3, <2>1, Zenon
<1>5. ASSUME NEW i \in a..(n - 1)
      PROVE  p[i + 1] = IF log[i + 1] = NoOp THEN p[i] ELSE Append(p[i], read_commit(log[i + 1]))
  <2>1. i + 1 \in a..n /\ i + 1 # a /\ (i + 1) - 1 = i
      OBVIOUS
  <2> QED BY <1>3, <2>1, Zenon
<1> QED BY <1>2, <1>4, <1>5, Zenon DEF Posted

LEMMA ReadCommitType ==
    ASSUME NEW e \in Entry
    PROVE  read_commit(e) \in ClosureType
<1>1. EmptyMap \in MapType
    BY Zenon DEF EmptyMap, MapType
<1> QED BY <1>1, Zenon DEF read_commit, Closure, ClosureType

LEMMA NoOpEntry == NoOp \in Entry /\ NoOp.node = "none" /\ NoOp.req = None /\ NoOp.cmd \in CommandType
<1>1. NoOp.cmd \in CommandType
    BY Zenon DEF NoOp, Commit, DelCommand, CommandType
<1>2. NoOp \in EntryType
  <2>1. 0 \in Nat
      OBVIOUS
  <2> QED BY <1>1, <2>1, Zenon DEF NoOp, Commit, EntryType, None
<1>3. NoOp.node = "none" /\ NoOp.req = None
    BY Zenon DEF NoOp, Commit
<1> QED BY <1>1, <1>2, <1>3 DEF Entry

(* Each closure of q is that of an entry between a and m, in the order of  *)
(* the log.                                                                *)
ReadsOf(q, l, a, m) ==
    /\ q \in Seq(ClosureType)
    /\ \A k \in DOMAIN q : \E i \in (a + 1)..m : q[k] = read_commit(l[i])
    /\ \A j, k \in DOMAIN q : j < k =>
         \E h, i \in (a + 1)..m :
             h < i /\ q[j] = read_commit(l[h]) /\ q[k] = read_commit(l[i])

LEMMA PostedReads ==
    ASSUME NEW l \in Seq(Entry), NEW a \in Nat, NEW n \in Nat, a <= n, n <= Len(l),
           NEW p, Posted(p, l, a, n)
    PROVE  ReadsOf(p[n], l, a, n)
<1> DEFINE S == {d \in Nat : a + d <= n => ReadsOf(p[a + d], l, a, a + d)}
<1>1. 0 \in S
  <2>1. p[a] = <<>> /\ a + 0 = a
      BY DEF Posted
  <2>2. <<>> \in Seq(ClosureType) /\ DOMAIN <<>> = {}
      OBVIOUS
  <2>3. ReadsOf(p[a], l, a, a)
      BY <2>1, <2>2, Zenon DEF ReadsOf
  <2> QED BY <2>1, <2>3
<1>2. ASSUME NEW d \in Nat, d \in S
      PROVE  d + 1 \in S
  <2> DEFINE m == a + d
  <2> SUFFICES ASSUME m + 1 <= n
               PROVE  ReadsOf(p[m + 1], l, a, m + 1)
    <3>1. a + (d + 1) = m + 1 /\ d + 1 \in Nat
        OBVIOUS
    <3> QED BY <3>1
  <2>1. ReadsOf(p[m], l, a, m) /\ m \in Nat
      BY <1>2
  <2>2. m \in a..(n - 1) /\ m + 1 \in DOMAIN l /\ l[m + 1] \in Entry
      BY <2>1
  <2>3. p[m + 1] = IF l[m + 1] = NoOp THEN p[m] ELSE Append(p[m], read_commit(l[m + 1]))
      BY <2>2, Zenon DEF Posted
  <2>4. CASE l[m + 1] = NoOp
    <3>1. p[m + 1] = p[m] /\ \A i \in (a + 1)..m : i \in (a + 1)..(m + 1)
        BY <2>1, <2>3, <2>4
    <3> DEFINE q == p[m]
    <3>2. /\ q \in Seq(ClosureType)
          /\ \A k \in DOMAIN q : \E i \in (a + 1)..m : q[k] = read_commit(l[i])
          /\ \A j, k \in DOMAIN q : j < k =>
               \E h, i \in (a + 1)..m :
                   h < i /\ q[j] = read_commit(l[h]) /\ q[k] = read_commit(l[i])
        BY <2>1, Zenon DEF ReadsOf
    <3>3. p[m + 1] = q
        BY <3>1
    <3> HIDE DEF m, q
    <3>4. \A k \in DOMAIN q : \E i \in (a + 1)..(m + 1) : q[k] = read_commit(l[i])
        BY <3>1, <3>2, Zenon
    <3>5. ASSUME NEW j \in DOMAIN q, NEW k \in DOMAIN q, j < k
          PROVE  \E h, i \in (a + 1)..(m + 1) :
                     h < i /\ q[j] = read_commit(l[h]) /\ q[k] = read_commit(l[i])
      <4>1. PICK h \in (a + 1)..m, i \in (a + 1)..m :
                 h < i /\ q[j] = read_commit(l[h]) /\ q[k] = read_commit(l[i])
          BY <3>2, <3>5
      <4> QED BY <3>1, <4>1, Zenon
    <3>6. ReadsOf(q, l, a, m + 1)
        BY <3>2, <3>4, <3>5, Zenon DEF ReadsOf
    <3> QED BY <3>3, <3>6, Zenon
  <2>5. CASE l[m + 1] # NoOp
    <3> DEFINE c == read_commit(l[m + 1])
               q == p[m]
    <3>1. c \in ClosureType
        BY <2>2, ReadCommitType
    <3>2. p[m + 1] = Append(q, c) /\ q \in Seq(ClosureType)
        BY <2>1, <2>3, <2>5 DEF ReadsOf
    <3> HIDE DEF c
    <3>3. /\ p[m + 1] \in Seq(ClosureType)
          /\ DOMAIN p[m + 1] = 1..(Len(q) + 1)
          /\ DOMAIN q = 1..Len(q) /\ Len(q) \in Nat
          /\ \A k \in 1..Len(q) : p[m + 1][k] = q[k]
          /\ p[m + 1][Len(q) + 1] = c
        BY <3>1, <3>2
    <3>4. \A i \in (a + 1)..m : i \in (a + 1)..(m + 1) /\ i < m + 1
        BY <2>1
    <3>5. m + 1 \in (a + 1)..(m + 1)
        BY <2>1
    <3>6. \A k \in DOMAIN q : \E i \in (a + 1)..m : q[k] = read_commit(l[i])
        BY <2>1, Zenon DEF ReadsOf
    <3>7. \A j, k \in DOMAIN q : j < k =>
             \E h, i \in (a + 1)..m :
                 h < i /\ q[j] = read_commit(l[h]) /\ q[k] = read_commit(l[i])
        BY <2>1, Zenon DEF ReadsOf
    <3> HIDE DEF m, q
    <3>8. ASSUME NEW k \in DOMAIN p[m + 1]
          PROVE  \E i \in (a + 1)..(m + 1) : p[m + 1][k] = read_commit(l[i])
      <4>1. CASE k \in 1..Len(q)
          BY <3>3, <3>4, <3>6, <4>1, Zenon
      <4>2. CASE k = Len(q) + 1
          BY <3>3, <3>5, <4>2, Zenon DEF c
      <4> QED BY <3>3, <4>1, <4>2
    <3>9. ASSUME NEW j \in DOMAIN p[m + 1], NEW k \in DOMAIN p[m + 1], j < k
          PROVE  \E h, i \in (a + 1)..(m + 1) :
                     h < i /\ p[m + 1][j] = read_commit(l[h]) /\ p[m + 1][k] = read_commit(l[i])
      <4>1. j \in 1..Len(q)
          BY <3>3, <3>9
      <4>2. CASE k \in 1..Len(q)
        <5>1. PICK h \in (a + 1)..m, i \in (a + 1)..m :
                   h < i /\ q[j] = read_commit(l[h]) /\ q[k] = read_commit(l[i])
            BY <3>3, <3>7, <3>9, <4>1, <4>2
        <5> QED BY <3>3, <3>4, <4>1, <4>2, <5>1, Zenon
      <4>3. CASE k = Len(q) + 1
        <5>1. PICK h \in (a + 1)..m : q[j] = read_commit(l[h])
            BY <3>3, <3>6, <4>1, Zenon
        <5> QED BY <3>3, <3>4, <3>5, <4>1, <4>3, <5>1, Zenon DEF c
      <4> QED BY <3>3, <4>2, <4>3
    <3> QED BY <3>3, <3>8, <3>9, Zenon DEF ReadsOf
  <2> QED BY <2>4, <2>5
<1>3. \A d \in Nat : d \in S
  <2> HIDE DEF S
  <2> QED BY <1>1, <1>2, NatSetInduction
<1>4. PICK d \in Nat : a + d = n
  <2>1. n - a \in Nat /\ a + (n - a) = n
      OBVIOUS
  <2> QED BY <2>1
<1>5. a + d <= n
    BY <1>4
<1>6. ReadsOf(p[a + d], l, a, a + d)
    BY <1>3, <1>5, Zenon
<1> QED BY <1>4, <1>6, Zenon

-----------------------------------------------------------------------------
(* The committed entries, replayed.                                        *)

LEMMA ApplyType ==
    ASSUME NEW kv \in MapType, NEW cmd \in CommandType
    PROVE  apply(kv, cmd) \in MapType
BY DEF apply, MapType, CommandType

LEMMA ReadEffect ==
    ASSUME NEW kv, NEW e
    PROVE  effect(kv, read_commit(e)) = apply(kv, e.cmd)
<1>1. read_commit(e).kind = "read_commit" /\ read_commit(e).commit = e
    BY Zenon DEF read_commit, Closure
<1> QED BY <1>1 DEF effect

LEMMA EffectType ==
    ASSUME NEW kv \in MapType, NEW c \in ClosureType
    PROVE  effect(kv, c) \in MapType
<1>1. c.commit \in Entry /\ c.map \in MapType
    BY Zenon DEF ClosureType, OwnEntry
<1>2. c.commit.cmd \in CommandType
    BY <1>1, Zenon DEF Entry, EntryType
<1>3. apply(kv, c.commit.cmd) \in MapType
    BY <1>2, ApplyType
<1> QED BY <1>1, <1>3 DEF effect

LEMMA EffectsType ==
    ASSUME NEW kv \in MapType, NEW q \in Seq(ClosureType)
    PROVE  Effects(kv, q) \in MapType
<1>1. PICK f : Chain(f, kv, q) /\ Effects(kv, q) = f[Len(q)]
    BY EffectsChain
<1> DEFINE S == {j \in Nat : j <= Len(q) => f[j] \in MapType}
<1>2. 0 \in S
    BY <1>1 DEF Chain
<1>3. ASSUME NEW j \in Nat, j \in S
      PROVE  j + 1 \in S
  <2> SUFFICES ASSUME j + 1 <= Len(q) PROVE f[j + 1] \in MapType
      OBVIOUS
  <2>1. f[j] \in MapType /\ j < Len(q) /\ q[j + 1] \in ClosureType
      BY <1>3
  <2>2. f[j + 1] = effect(f[j], q[j + 1])
      BY <1>1, <2>1, Zenon DEF Chain
  <2> QED BY <2>1, <2>2, EffectType
<1>4. \A j \in Nat : j \in S
  <2> HIDE DEF S
  <2> QED BY <1>2, <1>3, NatSetInduction
<1> QED BY <1>1, <1>4

Reads(l, from, to) == [i \in 1..(to - from) |-> read_commit(l[from + i])]

Replayed(l, kv, from, to) == Effects(kv, Reads(l, from, to))

LEMMA ReadsType ==
    ASSUME NEW l \in Seq(Entry), NEW from \in Nat, NEW to \in Nat, from <= to, to <= Len(l)
    PROVE  Reads(l, from, to) \in Seq(ClosureType) /\ Len(Reads(l, from, to)) = to - from
<1>1. ASSUME NEW i \in 1..(to - from)
      PROVE  read_commit(l[from + i]) \in ClosureType
  <2>1. l[from + i] \in Entry
      OBVIOUS
  <2> QED BY <2>1, ReadCommitType
<1> DEFINE q == [i \in 1..(to - from) |-> read_commit(l[from + i])]
<1>2. q \in [1..(to - from) -> ClosureType] /\ to - from \in Nat
    BY <1>1
<1>3. q \in Seq(ClosureType) /\ Len(q) = to - from
  <2> HIDE DEF q
  <2> QED BY <1>2
<1> QED BY <1>3 DEF Reads

LEMMA ReplayNothing ==
    ASSUME NEW l, NEW kv, NEW i \in Nat
    PROVE  Replayed(l, kv, i, i) = kv
<1>1. Reads(l, i, i) = <<>>
  <2>1. i - i = 0 /\ 1..0 = {}
      OBVIOUS
  <2> QED BY <2>1 DEF Reads
<1> QED BY <1>1, EffectsEmpty DEF Replayed

LEMMA ReplayNext ==
    ASSUME NEW l \in Seq(Entry), NEW kv, NEW from \in Nat, NEW i \in Nat,
           from <= i, i + 1 <= Len(l)
    PROVE  Replayed(l, kv, from, i + 1) = apply(Replayed(l, kv, from, i), l[i + 1].cmd)
<1> DEFINE q == Reads(l, from, i)
           r == Reads(l, from, i + 1)
           c == read_commit(l[i + 1])
<1>1. /\ q \in Seq(ClosureType) /\ Len(q) = i - from
      /\ r \in Seq(ClosureType) /\ Len(r) = (i + 1) - from
  <2>1. from <= i /\ i <= Len(l) /\ i + 1 \in Nat /\ from <= i + 1
      OBVIOUS
  <2> HIDE DEF c
  <2> QED BY <2>1, ReadsType
<1>2. c \in ClosureType
    BY ReadCommitType
<1>3. \A k \in 1..(i - from) : q[k] = read_commit(l[from + k])
    BY DEF Reads
<1>4. \A k \in 1..((i + 1) - from) : r[k] = read_commit(l[from + k])
    BY DEF Reads
<1>5. r[(i + 1) - from] = c
  <2>1. (i + 1) - from \in 1..((i + 1) - from) /\ from + ((i + 1) - from) = i + 1
      OBVIOUS
  <2> QED BY <1>4, <2>1, Zenon
<1>6. \A k \in 1..(i - from) : r[k] = q[k]
  <2>1. \A k \in 1..(i - from) : k \in 1..((i + 1) - from)
      OBVIOUS
  <2> QED BY <1>3, <1>4, <2>1, Zenon
<1> HIDE DEF q, r, c
<1>7. r = Append(q, c)
  <2>1. Append(q, c) \in Seq(ClosureType) /\ Len(Append(q, c)) = Len(r)
      BY <1>1, <1>2
  <2>2. ASSUME NEW k \in 1..Len(r)
        PROVE  r[k] = Append(q, c)[k]
    <3>1. CASE k \in 1..(i - from)
        BY <1>1, <1>6, <3>1
    <3>2. CASE k = (i + 1) - from
        BY <1>1, <1>5, <3>2
    <3> QED BY <1>1, <3>1, <3>2
  <2> QED BY <1>1, <2>1, <2>2, SeqEqual
<1>8. Effects(kv, r) = effect(Effects(kv, q), c)
    BY <1>1, <1>2, <1>7, EffectsAppend
<1>9. effect(Effects(kv, q), c) = apply(Effects(kv, q), l[i + 1].cmd)
    BY ReadEffect DEF c
<1> QED BY <1>8, <1>9 DEF Replayed, q, r

(* Entries beyond the last one replayed make no difference.                *)
LEMMA ReplayLonger ==
    ASSUME NEW l \in Seq(Entry), NEW m, NEW kv, NEW from \in Nat, NEW to \in Nat,
           to <= Len(l), \A k \in 1..Len(l) : m[k] = l[k]
    PROVE  Replayed(m, kv, from, to) = Replayed(l, kv, from, to)
<1>1. ASSUME NEW i \in 1..(to - from)
      PROVE  m[from + i] = l[from + i]
    OBVIOUS
<1>2. Reads(m, from, to) = Reads(l, from, to)
    BY <1>1, Zenon DEF Reads
<1> QED BY <1>2 DEF Replayed

(* What publish_entries posts brings the map to the last entry.            *)
LEMMA PostedEffects ==
    ASSUME NEW l \in Seq(Entry), NEW a \in Nat, NEW n \in Nat, a <= n, n <= Len(l),
           NEW p, Posted(p, l, a, n),
           NEW kv \in MapType, NEW q \in Seq(ClosureType),
           NEW map, NEW from \in Nat, from <= a,
           Effects(kv, q) = Replayed(l, map, from, a)
    PROVE  Effects(kv, q \o p[n]) = Replayed(l, map, from, n)
<1> DEFINE Good(m) == Effects(kv, q \o p[m]) = Replayed(l, map, from, m)
           S == {d \in Nat : a + d <= n => Good(a + d)}
<1>1. Good(a)
  <2>1. p[a] = <<>> /\ q \o <<>> = q
      BY DEF Posted
  <2> QED BY <2>1
<1>2. ASSUME NEW m \in a..(n - 1), Good(m)
      PROVE  Good(m + 1)
  <2>1. m \in Nat /\ m + 1 \in Nat /\ m <= n /\ m + 1 <= Len(l) /\ from <= m /\ l[m + 1] \in Entry
      OBVIOUS
  <2>2. p[m + 1] = IF l[m + 1] = NoOp THEN p[m] ELSE Append(p[m], read_commit(l[m + 1]))
      BY Zenon DEF Posted
  <2>3. p[m] \in Seq(ClosureType)
    <3>1. Posted(p, l, a, m)
      <4>1. \A i \in a..(m - 1) : i \in a..(n - 1)
          OBVIOUS
      <4> QED BY <4>1, Zenon DEF Posted
    <3>2. ReadsOf(p[m], l, a, m)
        BY <2>1, <3>1, PostedReads
    <3> QED BY <3>2 DEF ReadsOf
  <2> DEFINE e == l[m + 1]
             M == Effects(kv, q \o p[m])
  <2>4. M \in MapType
    <3>1. q \o p[m] \in Seq(ClosureType)
        BY <2>3
    <3> QED BY <3>1, EffectsType
  <2>5. Replayed(l, map, from, m + 1) = apply(M, e.cmd)
      BY <1>2, <2>1, ReplayNext
  <2>6. CASE e = NoOp
    <3>1. e.cmd.keys = {}
      <4>1. NoOp.cmd.keys = {}
          BY Zenon DEF NoOp, Commit, DelCommand
      <4> QED BY <2>6, <4>1, Zenon
    <3> HIDE DEF e, M
    <3>2. apply(M, e.cmd) = M
        BY <2>4, <3>1 DEF apply, MapType
    <3>3. p[m + 1] = p[m]
        BY <2>2, <2>6 DEF e
    <3> QED BY <2>5, <3>2, <3>3 DEF M
  <2>7. CASE e # NoOp
    <3> DEFINE c == read_commit(e)
    <3>1. c \in ClosureType
        BY <2>1, ReadCommitType
    <3>2. p[m + 1] = Append(p[m], c)
        BY <2>2, <2>7
    <3> HIDE DEF c
    <3>3. q \o Append(p[m], c) = Append(q \o p[m], c)
      <4>1. \A x, y \in Seq(ClosureType) : \A z \in ClosureType : x \o Append(y, z) = Append(x \o y, z)
          BY ConcatAppend
      <4> QED BY <2>3, <3>1, <4>1, Zenon
    <3>4. q \o p[m] \in Seq(ClosureType)
        BY <2>3
    <3>5. Effects(kv, Append(q \o p[m], c)) = effect(M, c)
      <4>1. \A x \in Seq(ClosureType) : \A z \in ClosureType :
               Effects(kv, Append(x, z)) = effect(Effects(kv, x), z)
          BY EffectsAppend
      <4> QED BY <3>1, <3>4, <4>1, Zenon
    <3>6. effect(M, c) = apply(M, e.cmd)
        BY ReadEffect DEF c
    <3> QED BY <2>5, <3>2, <3>3, <3>5, <3>6
  <2> QED BY <2>6, <2>7
<1> HIDE DEF Good
<1>3. 0 \in S
  <2>1. a + 0 = a
      OBVIOUS
  <2> QED BY <1>1, <2>1
<1>4. ASSUME NEW d \in Nat, d \in S
      PROVE  d + 1 \in S
  <2> SUFFICES ASSUME a + (d + 1) <= n PROVE Good(a + (d + 1))
      OBVIOUS
  <2>1. a + d \in a..(n - 1) /\ a + (d + 1) = (a + d) + 1 /\ a + d <= n
      OBVIOUS
  <2> QED BY <1>2, <1>4, <2>1
<1>5. \A d \in Nat : d \in S
  <2> HIDE DEF S
  <2> QED BY <1>3, <1>4, NatSetInduction
<1>6. PICK d \in Nat : a + d = n
  <2>1. n - a \in Nat /\ a + (n - a) = n
      OBVIOUS
  <2> QED BY <2>1
<1>7. a + d <= n
    BY <1>6
<1>8. Good(a + d)
    BY <1>5, <1>7, Zenon
<1> QED BY <1>6, <1>8, Zenon DEF Good

-----------------------------------------------------------------------------
(* Replies.                                                                *)

LEMMA SendReply ==
    ASSUME NEW s \in SessionType, NEW r \in ReplyType
    PROVE  /\ send_reply(s, r) \in SessionType
           /\ send_reply(s, r).buffer = Append(s.buffer, r)
<1>1. s \in [buffer : Seq(ReplyType), writing : Nat, broken : BOOLEAN, quit : BOOLEAN] /\ s.writing <= Len(s.buffer)
    BY DEF SessionType
<1> DEFINE b == Append(s.buffer, r)
           T == [buffer : Seq(ReplyType), writing : Nat, broken : BOOLEAN, quit : BOOLEAN]
           s1 == [s EXCEPT !.buffer = Append(@, r)]
           s2 == [s1 EXCEPT !.writing = Len(s1.buffer)]
<1>2. b \in Seq(ReplyType) /\ Len(b) = Len(s.buffer) + 1 /\ Len(b) \in Nat
    BY <1>1
<1>3. s1 \in T /\ s1.buffer = b /\ s1.writing = s.writing
    BY <1>1, <1>2
<1> HIDE DEF s1, b
<1>4. s2 \in T /\ s2.buffer = b /\ s2.writing = Len(b)
    BY <1>2, <1>3
<1>5. s1 \in SessionType /\ s2 \in SessionType
  <2>1. s1.writing <= Len(s1.buffer) /\ s2.writing <= Len(s2.buffer)
      BY <1>1, <1>2, <1>3, <1>4
  <2> HIDE DEF s2
  <2> QED BY <1>3, <1>4, <2>1 DEF SessionType
<1>6. send_reply(s, r) = IF s.buffer = <<>> THEN s2 ELSE s1
    BY Zenon DEF send_reply, start_send, s1
<1> HIDE DEF s2
<1> QED BY <1>3, <1>4, <1>5, <1>6 DEF b

(* One reply more on connection c.                                         *)
WithReply(R, c, r) == [R EXCEPT ![c] = Append(@, r)]

LEMMA Replied ==
    ASSUME TypeInv, NEW c \in Session, NEW r \in ReplyType,
           session' = [session EXCEPT ![c] = send_reply(@, r)], received' = received
    PROVE  /\ session' \in [Session -> SessionType]
           /\ AllReplies' = WithReply(AllReplies, c, r)
<1>1. session \in [Session -> SessionType] /\ received \in [Session -> Seq(ReplyType)]
    BY DEF TypeInv
<1>2. /\ send_reply(session[c], r) \in SessionType
      /\ send_reply(session[c], r).buffer = Append(session[c].buffer, r)
    BY <1>1, SendReply
<1>3. session' \in [Session -> SessionType]
    BY <1>1, <1>2
<1>4. \A d \in Session : session[d].buffer \in Seq(ReplyType) /\ received[d] \in Seq(ReplyType)
    BY <1>1, Zenon DEF SessionType
<1>5. ASSUME NEW d \in Session
      PROVE  AllReplies'[d] = WithReply(AllReplies, c, r)[d]
  <2>1. AllReplies'[d] = received[d] \o session'[d].buffer /\ AllReplies[d] = received[d] \o session[d].buffer
      BY DEF AllReplies, Replies
  <2>2. CASE d = c
    <3>1. session'[d].buffer = Append(session[c].buffer, r)
        BY <1>1, <1>2, <2>2
    <3>2. received[c] \o Append(session[c].buffer, r) = Append(received[c] \o session[c].buffer, r)
      <4>1. received[c] \in Seq(ReplyType) /\ session[c].buffer \in Seq(ReplyType)
          BY <1>4
      <4>2. \A a, b \in Seq(ReplyType) : a \o Append(b, r) = Append(a \o b, r)
          BY ConcatAppend
      <4> QED BY <4>1, <4>2, Zenon
    <3>3. WithReply(AllReplies, c, r)[d] = Append(AllReplies[c], r)
        BY <2>2 DEF WithReply, AllReplies
    <3> QED BY <2>1, <2>2, <3>1, <3>2, <3>3
  <2>3. CASE d # c
    <3>1. session'[d] = session[d]
        BY <1>1, <2>3
    <3>2. WithReply(AllReplies, c, r)[d] = AllReplies[d]
        BY <2>3 DEF WithReply, AllReplies
    <3> QED BY <2>1, <3>1, <3>2
  <2> QED BY <2>2, <2>3
<1>6. AllReplies' = WithReply(AllReplies, c, r)
  <2>1. AllReplies' = [d \in Session |-> AllReplies'[d]]
      BY Zenon DEF AllReplies
  <2>2. WithReply(AllReplies, c, r) = [d \in Session |-> WithReply(AllReplies, c, r)[d]]
      BY DEF WithReply, AllReplies
  <2> QED BY <1>5, <2>1, <2>2, Zenon
<1> QED BY <1>3, <1>6

LEMMA RepliesTyped ==
    ASSUME TypeInv
    PROVE  AllReplies \in [Session -> Seq(ReplyType)]
<1>1. \A c \in Session : received[c] \in Seq(ReplyType) /\ session[c].buffer \in Seq(ReplyType)
    BY Zenon DEF TypeInv, SessionType
<1>2. \A c \in Session : received[c] \o session[c].buffer \in Seq(ReplyType)
    BY <1>1, ConcatProperties
<1> QED BY <1>2, Zenon DEF AllReplies, Replies

(* What stays the same while the answers do.                               *)
LEMMA RepliesSame ==
    ASSUME UNCHANGED <<session, received>>
    PROVE  AllReplies' = AllReplies
BY Zenon DEF AllReplies, Replies

-----------------------------------------------------------------------------
(* Types are preserved.                                                    *)

LEMMA ReplyTyped ==
    ASSUME NEW n \in Nat, NEW text \in {"OK", "ERR", "reply"}
    PROVE  Reply(n, text) \in ReplyType /\ Reply(n, text).req = n /\ Reply(n, text).text = text
BY Zenon DEF Reply, ReplyType

LEMMA ReadTyped == ASSUME NEW c \in Session, TypeInv, Read(c) PROVE TypeInv'
<1> DEFINE e == [session |-> c, cmd |-> NoOp.cmd]
           r == Reply(Len(request) + 1, "reply")
<1>1. /\ request' = Append(request, e) /\ Len(request) < MaxRequests
      /\ session' = [session EXCEPT ![c] = send_reply(@, r)]
      /\ UNCHANGED <<key_values, pending, next_request_id, redis_queue, raft_vars, received, ghost_vars>>
    BY DEF Read, AnswerNow, Arrive
<1>2. request \in Seq(RequestType) /\ Len(request) \in Nat
    BY DEF TypeInv
<1>3. e \in RequestType
    BY NoOpEntry, Zenon DEF RequestType
<1>4. r \in ReplyType
    BY <1>2, ReplyTyped
<1> HIDE DEF e, r
<1>5. request' \in Seq(RequestType) /\ Len(request') = Len(request) + 1
    BY <1>1, <1>2, <1>3
<1>6. Len(request') <= MaxRequests /\ \A k \in 0..Len(request) : k \in 0..Len(request')
    BY <1>1, <1>2, <1>5, RedisAssumption
<1>7. session' \in [Session -> SessionType]
    BY <1>1, <1>4, Replied, Zenon
<1>8. pending' \in [RequestId -> 0..Len(request')] /\ next_request_id' \in 0..Len(request')
    BY <1>1, <1>6 DEF TypeInv
<1> QED BY <1>1, <1>5, <1>6, <1>7, <1>8 DEF TypeInv, raft_vars, ghost_vars

LEMMA WriteTyped ==
    ASSUME NEW c \in Session, NEW cmd \in Command, TypeInv, Write(c, cmd)
    PROVE  /\ TypeInv'
           /\ next_request_id \in RequestId
           /\ Commit("self", next_request_id, cmd, Len(request) + 1) \in OwnEntry
<1> DEFINE q == [session |-> c, cmd |-> cmd]
           e == Commit("self", next_request_id, cmd, Len(request) + 1)
           n == Len(request)
<1>1. /\ request' = Append(request, q) /\ Len(request) < MaxRequests
      /\ next_request_id' = next_request_id + 1
      /\ pending' = [pending EXCEPT ![next_request_id] = Len(request) + 1]
      /\ raft_queue' = Append(raft_queue, e)
      /\ UNCHANGED <<key_values, redis_queue, applied_index, snapshot, log, proposed,
                     waiting, session, received, ghost_vars>>
    BY DEF Write, Arrive
<1>2. /\ request \in Seq(RequestType) /\ n \in Nat
      /\ pending \in [RequestId -> 0..n] /\ next_request_id \in 0..n
      /\ raft_queue \in Seq(OwnEntry)
    BY DEF TypeInv
<1>3. cmd \in CommandType
    BY RedisAssumption
<1>4. q \in RequestType
    BY <1>3, Zenon DEF RequestType
<1>5. next_request_id \in RequestId /\ next_request_id \in Nat
    BY <1>1, <1>2, RedisAssumption DEF RequestId
<1>6. e \in OwnEntry
  <2>1. n + 1 \in Nat
      BY <1>2
  <2>2. e \in EntryType
      BY <1>3, <1>5, <2>1, Zenon DEF Commit, EntryType
  <2>3. e.node = "self" /\ e.id = next_request_id
      BY Zenon DEF Commit
  <2> QED BY <1>5, <2>2, <2>3, Zenon DEF OwnEntry, Entry
<1> HIDE DEF q, e
<1>7. request' \in Seq(RequestType) /\ Len(request') = n + 1
    BY <1>1, <1>2, <1>4
<1>8. Len(request') <= MaxRequests /\ \A k \in 0..n : k \in 0..Len(request')
    BY <1>1, <1>2, <1>7, RedisAssumption
<1>9. pending' \in [RequestId -> 0..Len(request')] /\ next_request_id' \in 0..Len(request')
  <2>1. n + 1 \in 0..Len(request') /\ next_request_id + 1 \in 0..Len(request')
      BY <1>2, <1>7
  <2>2. pending \in [RequestId -> 0..Len(request')]
      BY <1>2, <1>8
  <2> QED BY <1>1, <1>5, <2>1, <2>2
<1>10. raft_queue' \in Seq(OwnEntry)
    BY <1>1, <1>2, <1>6
<1>11. TypeInv'
    BY <1>1, <1>7, <1>8, <1>9, <1>10 DEF TypeInv, ghost_vars
<1> QED BY <1>5, <1>6, <1>11 DEF e

LEMMA BrokenTyped == ASSUME NEW c \in Session, TypeInv, Broken(c) PROVE TypeInv' /\ AllReplies' = AllReplies
<1> DEFINE s == [session[c] EXCEPT !.broken = TRUE]
<1>1. session \in [Session -> SessionType]
    BY DEF TypeInv
<1>2. session' = [session EXCEPT ![c] = s]
    BY Zenon DEF Broken
<1>3. s \in SessionType /\ s.buffer = session[c].buffer
    BY <1>1 DEF SessionType
<1> HIDE DEF s
<1>4. session' \in [Session -> SessionType] /\ \A d \in Session : session'[d].buffer = session[d].buffer
    BY <1>1, <1>2, <1>3
<1>5. UNCHANGED <<key_values, pending, next_request_id, redis_queue, raft_vars, received, request, ghost_vars>>
    BY DEF Broken
<1>6. TypeInv'
    BY <1>4, <1>5 DEF TypeInv, raft_vars, ghost_vars
<1>7. AllReplies' = AllReplies
    BY <1>4, <1>5, Zenon DEF AllReplies, Replies
<1> QED BY <1>6, <1>7

LEMMA QuitTyped == ASSUME NEW c \in Session, TypeInv, Quit(c) PROVE TypeInv' /\ AllReplies' = AllReplies
<1> DEFINE s == [session[c] EXCEPT !.quit = TRUE]
<1>1. session \in [Session -> SessionType]
    BY DEF TypeInv
<1>2. session' = [session EXCEPT ![c] = s]
    BY Zenon DEF Quit
<1>3. s \in SessionType /\ s.buffer = session[c].buffer
    BY <1>1 DEF SessionType
<1> HIDE DEF s
<1>4. session' \in [Session -> SessionType] /\ \A d \in Session : session'[d].buffer = session[d].buffer
    BY <1>1, <1>2, <1>3
<1>5. UNCHANGED <<key_values, pending, next_request_id, redis_queue, raft_vars, received, request, ghost_vars>>
    BY DEF Quit
<1>6. TypeInv'
    BY <1>4, <1>5 DEF TypeInv, raft_vars, ghost_vars
<1>7. AllReplies' = AllReplies
    BY <1>4, <1>5, Zenon DEF AllReplies, Replies
<1> QED BY <1>6, <1>7

LEMMA WrittenTyped == ASSUME NEW c \in Session, TypeInv, Written(c) PROVE TypeInv' /\ AllReplies' = AllReplies
<1> DEFINE s == session[c]
           w == s.writing
           b == s.buffer
           done == SubSeq(b, 1, w)
           rest == SubSeq(b, w + 1, Len(b))
           s1 == [s EXCEPT !.buffer = rest]
           s2 == [s1 EXCEPT !.writing = Len(s1.buffer)]
<1>1. session \in [Session -> SessionType] /\ received \in [Session -> Seq(ReplyType)]
    BY DEF TypeInv
<1>2. /\ s \in [buffer : Seq(ReplyType), writing : Nat, broken : BOOLEAN, quit : BOOLEAN]
      /\ b \in Seq(ReplyType) /\ w \in Nat /\ w <= Len(b)
    BY <1>1 DEF SessionType
<1>3. /\ received' = [received EXCEPT ![c] = @ \o done]
      /\ session' = [session EXCEPT ![c] = s2]
      /\ UNCHANGED <<key_values, pending, next_request_id, redis_queue, raft_vars, request, ghost_vars>>
    BY Zenon DEF Written, start_send
<1>4. done \in Seq(ReplyType) /\ rest \in Seq(ReplyType) /\ done \o rest = b
  <2>1. done \in Seq(ReplyType)
      BY <1>2
  <2>2. rest \in Seq(ReplyType)
    <3>1. \A x \in Seq(ReplyType) : \A k \in Nat : SubSeq(x, k + 1, Len(x)) \in Seq(ReplyType)
        OBVIOUS
    <3> QED BY <1>2, <3>1, Zenon
  <2>3. /\ Len(b) \in Nat /\ 1 \in 1..(Len(b) + 1) /\ w \in (1 - 1)..Len(b) /\ Len(b) \in w..Len(b)
        /\ SubSeq(b, 1, Len(b)) = b
      BY <1>2
  <2> HIDE DEF b, w
  <2>4. SubSeq(b, 1, w) \o SubSeq(b, w + 1, Len(b)) = SubSeq(b, 1, Len(b))
      BY <1>2, <2>3, ConcatAdjacentSubSeq
  <2> QED BY <2>1, <2>2, <2>3, <2>4
<1>5. s2 \in SessionType /\ s2.buffer = rest
  <2>1. s1 \in [buffer : Seq(ReplyType), writing : Nat, broken : BOOLEAN, quit : BOOLEAN] /\ s1.buffer = rest
    <3> HIDE DEF rest, s
    <3> QED BY <1>2, <1>4
  <2>2. Len(rest) \in Nat
    <3> HIDE DEF rest
    <3> QED BY <1>4
  <2> HIDE DEF s1, rest
  <2> QED BY <2>1, <2>2 DEF SessionType
<1> HIDE DEF s2, done, rest
<1>6. session' \in [Session -> SessionType]
    BY <1>1, <1>3, <1>5
<1>7. received' \in [Session -> Seq(ReplyType)]
  <2>1. received[c] \o done \in Seq(ReplyType)
      BY <1>1, <1>4
  <2> QED BY <1>1, <1>3, <2>1
<1>8. TypeInv'
    BY <1>3, <1>6, <1>7 DEF TypeInv, raft_vars, ghost_vars
<1>9. ASSUME NEW d \in Session
      PROVE  received'[d] \o session'[d].buffer = received[d] \o session[d].buffer
  <2>1. CASE d = c
    <3>1. received'[c] = received[c] \o done /\ session'[c].buffer = rest
        BY <1>1, <1>3, <1>5
    <3>2. (received[c] \o done) \o rest = received[c] \o (done \o rest)
      <4>1. received[c] \in Seq(ReplyType)
          BY <1>1
      <4>2. \A x, y, z \in Seq(ReplyType) : (x \o y) \o z = x \o (y \o z)
          BY ConcatAssociative
      <4> QED BY <1>4, <4>1, <4>2, Zenon
    <3> QED BY <1>4, <2>1, <3>1, <3>2
  <2>2. CASE d # c
      BY <1>1, <1>3, <2>2
  <2> QED BY <2>1, <2>2
<1>10. AllReplies' = AllReplies
    BY <1>9, Zenon DEF AllReplies, Replies
<1> QED BY <1>8, <1>10

(* The callback found under id, if any, is called with text and erased.    *)
SettledWith(id, text) ==
    IF pending[id] = None THEN pending' = pending /\ AllReplies' = AllReplies
    ELSE /\ pending[id] \in DOMAIN request
         /\ pending' = [pending EXCEPT ![id] = None]
         /\ AllReplies' = WithReply(AllReplies, request[pending[id]].session, Reply(pending[id], text))

LEMMA Settled ==
    ASSUME TypeInv, NEW id \in RequestId, NEW text \in {"OK", "ERR"},
           settle(id, text), UNCHANGED <<received, request>>
    PROVE  /\ session' \in [Session -> SessionType]
           /\ pending' \in [RequestId -> 0..Len(request)]
           /\ SettledWith(id, text)
<1>1. /\ pending \in [RequestId -> 0..Len(request)] /\ request \in Seq(RequestType)
      /\ session \in [Session -> SessionType]
    BY DEF TypeInv
<1>2. CASE pending[id] = None
  <2>1. UNCHANGED <<pending, session>>
      BY <1>2, Zenon DEF settle
  <2> QED BY <1>1, <1>2, <2>1, RepliesSame DEF SettledWith
<1>3. CASE pending[id] # None
  <2> DEFINE r == pending[id]
  <2>1. /\ session' = [session EXCEPT ![request[r].session] = send_reply(@, Reply(r, text))]
        /\ pending' = [pending EXCEPT ![id] = None]
      BY <1>3, Zenon DEF settle, answer
  <2>2. r \in 0..Len(request)
      BY <1>1, Zenon
  <2>3. r \in 1..Len(request) /\ r \in Nat
      BY <1>1, <1>3, <2>2 DEF None
  <2>4. request[r].session \in Session /\ r \in DOMAIN request
    <3>1. request[r] \in RequestType /\ r \in DOMAIN request
        BY <1>1, <2>3
    <3> QED BY <3>1, Zenon DEF RequestType
  <2>5. Reply(r, text) \in ReplyType
      BY <2>3, ReplyTyped
  <2> HIDE DEF r
  <2>6. /\ session' \in [Session -> SessionType]
        /\ AllReplies' = WithReply(AllReplies, request[r].session, Reply(r, text))
      BY <2>1, <2>4, <2>5, Replied, Zenon
  <2>7. None \in 0..Len(request)
      BY <1>1 DEF None
  <2>8. pending' \in [RequestId -> 0..Len(request)]
      BY <1>1, <2>1, <2>7
  <2> QED BY <1>3, <2>1, <2>4, <2>6, <2>8 DEF SettledWith, r
<1> QED BY <1>2, <1>3

(* The closure at the head of the queue.                                   *)
LEMMA HeadClosure ==
    ASSUME TypeInv, redis_queue # <<>>
    PROVE  /\ Head(redis_queue) \in ClosureType /\ Head(redis_queue) = redis_queue[1]
           /\ Tail(redis_queue) \in Seq(ClosureType)
           /\ Len(redis_queue) \in Nat /\ Len(Tail(redis_queue)) = Len(redis_queue) - 1
           /\ Len(redis_queue) > 0
           /\ \A k \in 1..(Len(redis_queue) - 1) : Tail(redis_queue)[k] = redis_queue[k + 1]
BY DEF TypeInv

LEMMA ClosureParts ==
    ASSUME NEW cl \in ClosureType
    PROVE  /\ cl.commit \in Entry /\ cl.map \in MapType /\ cl.commit.cmd \in CommandType
           /\ cl.kind \in Status => cl.commit \in OwnEntry
           /\ cl.commit.node = "self" => cl.commit.id \in RequestId
<1>1. cl.commit \in Entry /\ cl.map \in MapType
    BY Zenon DEF ClosureType, OwnEntry
<1>2. cl.kind \in Status => cl.commit \in OwnEntry
    BY Zenon DEF ClosureType, Status
<1> QED BY <1>1, <1>2, Zenon DEF Entry, EntryType

(* RunStatus settles the request of the closure, or does nothing.          *)
LEMMA StatusTyped ==
    ASSUME TypeInv, RunStatus
    PROVE  /\ TypeInv'
           /\ redis_queue # <<>> /\ redis_queue' = Tail(redis_queue)
           /\ Head(redis_queue).kind \in Status
           /\ UNCHANGED <<key_values, snapshot, waiting, next_request_id, raft_queue, log, proposed,
                          applied_index, received, request, start, restarts>>
           /\ \/ pending' = pending /\ AllReplies' = AllReplies
              \/ /\ Head(redis_queue).commit.cmd.op # "set"
                 /\ SettledWith(Head(redis_queue).commit.id, "OK")
              \/ SettledWith(Head(redis_queue).commit.id, "ERR")
<1> DEFINE cl == Head(redis_queue)
<1>1. PICK ok \in BOOLEAN :
        /\ Run(IF ok THEN "accepted" ELSE "dropped")
        /\ IF ok /\ cl.commit.cmd.op = "set" THEN UNCHANGED <<pending, session>>
           ELSE settle(cl.commit.id, IF ok THEN "OK" ELSE "ERR")
        /\ UNCHANGED <<key_values, snapshot, waiting>>
    BY Zenon DEF RunStatus
<1>2. /\ redis_queue # <<>> /\ redis_queue' = Tail(redis_queue)
      /\ cl.kind = IF ok THEN "accepted" ELSE "dropped"
      /\ UNCHANGED <<next_request_id, raft_queue, log, proposed, applied_index, received, request, ghost_vars>>
    BY <1>1, Zenon DEF Run
<1>3. cl.kind \in Status
    BY <1>2, Zenon DEF Status
<1>4. cl.commit.id \in RequestId
  <2>1. cl.commit \in OwnEntry
      BY <1>2, <1>3, HeadClosure, ClosureParts, Zenon
  <2> QED BY <2>1, Zenon DEF OwnEntry, Entry
<1>5. Tail(redis_queue) \in Seq(ClosureType)
    BY <1>2, HeadClosure
<1> HIDE DEF cl
<1>6. CASE ok /\ cl.commit.cmd.op = "set"
  <2>1. UNCHANGED <<pending, session>>
      BY <1>1, <1>6
  <2>2. AllReplies' = AllReplies
      BY <1>2, <2>1, RepliesSame
  <2>3. TypeInv'
      BY <1>1, <1>2, <1>5, <2>1 DEF TypeInv, ghost_vars
  <2> QED BY <1>1, <1>2, <1>3, <2>1, <2>2, <2>3 DEF cl, ghost_vars
<1>7. CASE ~(ok /\ cl.commit.cmd.op = "set")
  <2> DEFINE text == IF ok THEN "OK" ELSE "ERR"
  <2>1. settle(cl.commit.id, text) /\ text \in {"OK", "ERR"}
      BY <1>1, <1>7
  <2> HIDE DEF text
  <2>2. /\ session' \in [Session -> SessionType] /\ pending' \in [RequestId -> 0..Len(request)]
        /\ SettledWith(cl.commit.id, text)
      BY <1>2, <1>4, <2>1, Settled
  <2>3. TypeInv'
      BY <1>1, <1>2, <1>5, <2>2 DEF TypeInv, ghost_vars
  <2>4. \/ cl.commit.cmd.op # "set" /\ SettledWith(cl.commit.id, "OK")
        \/ SettledWith(cl.commit.id, "ERR")
      BY <1>7, <2>2, Zenon DEF text
  <2> QED BY <1>1, <1>2, <1>3, <2>3, <2>4 DEF cl, ghost_vars
<1> QED BY <1>6, <1>7

LEMMA CommitTyped ==
    ASSUME TypeInv, RunCommit
    PROVE  /\ TypeInv'
           /\ redis_queue # <<>> /\ redis_queue' = Tail(redis_queue)
           /\ Head(redis_queue).kind = "read_commit"
           /\ key_values' = apply(key_values, Head(redis_queue).commit.cmd)
           /\ UNCHANGED <<snapshot, waiting, next_request_id, raft_queue, log, proposed,
                          applied_index, received, request, start, restarts>>
           /\ IF Head(redis_queue).commit.node = "self"
              THEN SettledWith(Head(redis_queue).commit.id, "OK")
              ELSE pending' = pending /\ AllReplies' = AllReplies
<1> DEFINE cl == Head(redis_queue)
<1>1. /\ Run("read_commit")
      /\ key_values' = apply(key_values, cl.commit.cmd)
      /\ IF cl.commit.node = "self" THEN settle(cl.commit.id, "OK") ELSE UNCHANGED <<pending, session>>
      /\ UNCHANGED <<snapshot, waiting>>
    BY Zenon DEF RunCommit, own_commit
<1>2. /\ redis_queue # <<>> /\ redis_queue' = Tail(redis_queue)
      /\ cl.kind = "read_commit"
      /\ UNCHANGED <<next_request_id, raft_queue, log, proposed, applied_index, received, request, ghost_vars>>
    BY <1>1, Zenon DEF Run
<1>3. Tail(redis_queue) \in Seq(ClosureType) /\ cl \in ClosureType
    BY <1>2, HeadClosure
<1>4. cl.commit.cmd \in CommandType /\ (cl.commit.node = "self" => cl.commit.id \in RequestId)
    BY <1>3, ClosureParts, Zenon
<1>5. key_values' \in MapType
    BY <1>1, <1>4, ApplyType DEF TypeInv
<1> HIDE DEF cl
<1>6. CASE cl.commit.node = "self"
  <2>1. settle(cl.commit.id, "OK")
      BY <1>1, <1>6
  <2>2. /\ session' \in [Session -> SessionType] /\ pending' \in [RequestId -> 0..Len(request)]
        /\ SettledWith(cl.commit.id, "OK")
      BY <1>2, <1>4, <1>6, <2>1, Settled
  <2>3. TypeInv'
      BY <1>1, <1>2, <1>3, <1>5, <2>2 DEF TypeInv, ghost_vars
  <2> QED BY <1>1, <1>2, <1>6, <2>2, <2>3 DEF cl, ghost_vars
<1>7. CASE cl.commit.node # "self"
  <2>1. UNCHANGED <<pending, session>>
      BY <1>1, <1>7
  <2>2. AllReplies' = AllReplies
      BY <1>2, <2>1, RepliesSame
  <2>3. TypeInv'
      BY <1>1, <1>2, <1>3, <1>5, <2>1 DEF TypeInv, ghost_vars
  <2> QED BY <1>1, <1>2, <1>7, <2>1, <2>2, <2>3 DEF cl, ghost_vars
<1> QED BY <1>6, <1>7

LEMMA GetSnapshotTyped ==
    ASSUME TypeInv, RunGetSnapshot
    PROVE  /\ TypeInv' /\ AllReplies' = AllReplies
           /\ redis_queue # <<>> /\ redis_queue' = Tail(redis_queue)
           /\ Head(redis_queue).kind = "get_snapshot"
<1>1. /\ redis_queue # <<>> /\ redis_queue' = Tail(redis_queue)
      /\ Head(redis_queue).kind = "get_snapshot"
      /\ snapshot' = [index |-> applied_index, map |-> key_values] /\ waiting' = FALSE
      /\ UNCHANGED <<next_request_id, raft_queue, log, proposed, applied_index, received, request,
                     ghost_vars, key_values, pending, session>>
    BY Zenon DEF RunGetSnapshot, Run
<1>2. Tail(redis_queue) \in Seq(ClosureType)
    BY <1>1, HeadClosure
<1>3. snapshot' \in SnapshotType
  <2>1. applied_index \in Nat /\ key_values \in MapType
      BY DEF TypeInv
  <2> QED BY <1>1, <2>1, Zenon DEF SnapshotType
<1>4. TypeInv'
    BY <1>1, <1>2, <1>3 DEF TypeInv, ghost_vars
<1> QED BY <1>1, <1>4, RepliesSame

LEMMA RecoverTyped ==
    ASSUME TypeInv, RunRecover
    PROVE  /\ TypeInv' /\ AllReplies' = AllReplies
           /\ redis_queue # <<>> /\ redis_queue' = Tail(redis_queue)
           /\ Head(redis_queue).kind = "recover"
<1>1. /\ redis_queue # <<>> /\ redis_queue' = Tail(redis_queue)
      /\ Head(redis_queue).kind = "recover" /\ key_values' = Head(redis_queue).map
      /\ UNCHANGED <<next_request_id, raft_queue, log, proposed, applied_index, received, request,
                     ghost_vars, snapshot, waiting, pending, session>>
    BY Zenon DEF RunRecover, Run
<1>2. Tail(redis_queue) \in Seq(ClosureType) /\ Head(redis_queue) \in ClosureType
    BY <1>1, HeadClosure
<1>3. key_values' \in MapType
    BY <1>1, <1>2, ClosureParts, Zenon
<1>4. TypeInv'
    BY <1>1, <1>2, <1>3 DEF TypeInv, ghost_vars
<1> QED BY <1>1, <1>4, RepliesSame

LEMMA EmptyMapType == EmptyMap \in MapType
BY Zenon DEF EmptyMap, MapType

(* The closure that Propose posts.                                         *)
StatusOf(ok, e) == Closure(IF ok THEN "accepted" ELSE "dropped", e, EmptyMap)

LEMMA StatusOfTyped ==
    ASSUME NEW ok \in BOOLEAN, NEW e \in OwnEntry
    PROVE  /\ StatusOf(ok, e) \in ClosureType
           /\ StatusOf(ok, e).kind \in Status /\ StatusOf(ok, e).commit = e
<1>1. StatusOf(ok, e).kind \in Status /\ StatusOf(ok, e).commit = e
    BY Zenon DEF StatusOf, Closure, Status
<1>2. StatusOf(ok, e) \in [kind : Status, commit : OwnEntry, map : MapType]
    BY EmptyMapType, Zenon DEF StatusOf, Closure, Status
<1> QED BY <1>1, <1>2, Zenon DEF ClosureType

LEMMA ProposeTyped ==
    ASSUME NEW ok \in BOOLEAN, TypeInv, Propose(ok)
    PROVE  /\ TypeInv' /\ AllReplies' = AllReplies
           /\ ~waiting /\ raft_queue # <<>>
           /\ Head(raft_queue) \in OwnEntry /\ Head(raft_queue) = raft_queue[1]
           /\ redis_queue' = Append(redis_queue, StatusOf(ok, Head(raft_queue)))
<1> DEFINE e == Head(raft_queue)
<1>1. /\ ~waiting /\ raft_queue # <<>>
      /\ raft_queue' = Tail(raft_queue)
      /\ proposed' = IF ok THEN proposed \cup {e} ELSE proposed
      /\ redis_queue' = Append(redis_queue, StatusOf(ok, e))
      /\ UNCHANGED <<key_values, pending, next_request_id, applied_index, snapshot, log,
                     waiting, session, received, request, ghost_vars>>
    BY Zenon DEF Propose, StatusOf
<1>2. e \in OwnEntry /\ Tail(raft_queue) \in Seq(OwnEntry) /\ e = raft_queue[1]
    BY <1>1 DEF TypeInv
<1> HIDE DEF e
<1>3. StatusOf(ok, e) \in ClosureType
    BY <1>2, StatusOfTyped
<1>4. redis_queue' \in Seq(ClosureType)
  <2>1. redis_queue \in Seq(ClosureType)
      BY DEF TypeInv
  <2> QED BY <1>1, <1>3, <2>1
<1>5. proposed' \in SUBSET OwnEntry
    BY <1>1, <1>2 DEF TypeInv
<1>6. TypeInv'
    BY <1>1, <1>2, <1>4, <1>5 DEF TypeInv, ghost_vars
<1> QED BY <1>1, <1>2, <1>6, RepliesSame DEF e

LEMMA CommitEntryTyped ==
    ASSUME NEW e \in Committable, TypeInv, CommitEntry(e)
    PROVE  TypeInv' /\ AllReplies' = AllReplies /\ e \in Entry
<1>1. /\ log' = Append(log, e) /\ proposed' = proposed \ {e}
      /\ UNCHANGED <<key_values, pending, next_request_id, redis_queue, raft_queue, waiting,
                     applied_index, snapshot, session, received, request, ghost_vars>>
    BY DEF CommitEntry
<1>2. e \in Entry
  <2>1. CASE e \in proposed
      BY <2>1 DEF TypeInv, OwnEntry
  <2>2. CASE e = NoOp
      BY <2>2, NoOpEntry
  <2>3. ASSUME NEW o \in OtherCommit, e = Commit("other", o[1], o[2], None)
        PROVE  e \in Entry
    <3>1. o[1] \in Nat /\ o[2] \in CommandType /\ None \in Nat
        BY RedisAssumption DEF None
    <3>2. e \in EntryType
        BY <2>3, <3>1, Zenon DEF Commit, EntryType
    <3>3. e.node = "other"
        BY <2>3, Zenon DEF Commit
    <3> QED BY <3>2, <3>3 DEF Entry
  <2> QED BY <2>1, <2>2, <2>3 DEF Committable
<1>3. log' \in Seq(Entry) /\ proposed' \in SUBSET OwnEntry
    BY <1>1, <1>2 DEF TypeInv
<1>4. TypeInv'
    BY <1>1, <1>3 DEF TypeInv, ghost_vars
<1> QED BY <1>1, <1>2, <1>4, RepliesSame

GetSnapshot == Closure("get_snapshot", NoOp, EmptyMap)

LEMMA GetSnapshotClosure == GetSnapshot \in ClosureType /\ GetSnapshot.kind = "get_snapshot"
BY EmptyMapType, NoOpEntry, Zenon DEF GetSnapshot, Closure, ClosureType

(* Publish posts what belongs to the entries up to n, and when a snapshot  *)
(* is due the request for its data behind it.                              *)
LEMMA PublishTyped ==
    ASSUME NEW n, TypeInv, applied_index <= Len(log), Publish(n)
    PROVE  /\ TypeInv' /\ AllReplies' = AllReplies
           /\ ~waiting /\ n \in Nat /\ applied_index < n /\ n <= Len(log) /\ applied_index' = n
           /\ UNCHANGED <<snapshot, key_values, pending, next_request_id, raft_queue, log, proposed,
                          session, received, request, start, restarts>>
           /\ \E p :
                /\ Posted(p, log, applied_index, n) /\ ReadsOf(p[n], log, applied_index, n)
                /\ \/ redis_queue' = redis_queue \o p[n] /\ waiting' = FALSE
                   \/ redis_queue' = Append(redis_queue \o p[n], GetSnapshot) /\ waiting' = TRUE
<1>1. /\ ~waiting /\ n \in applied_index + 1 .. Len(log) /\ applied_index' = n
      /\ maybe_trigger_snapshot(n, publish_entries(n))
      /\ UNCHANGED <<key_values, pending, next_request_id, raft_queue, log, proposed,
                     session, received, request, ghost_vars>>
    BY DEF Publish
<1>2. /\ applied_index \in Nat /\ log \in Seq(Entry) /\ Len(log) \in Nat
      /\ redis_queue \in Seq(ClosureType)
    BY DEF TypeInv
<1>3. n \in Nat /\ applied_index < n /\ applied_index <= n /\ n <= Len(log)
    BY <1>1, <1>2
<1>4. PICK p : Posted(p, log, applied_index, n) /\ publish_entries(n) = p[n]
    BY <1>2, <1>3, PublishEntries
<1>5. ReadsOf(p[n], log, applied_index, n)
    BY <1>2, <1>3, <1>4, PostedReads
<1> DEFINE q == redis_queue \o p[n]
           due == n - snapshot.index > SnapCount
<1>6. q \in Seq(ClosureType)
  <2>1. p[n] \in Seq(ClosureType)
      BY <1>5 DEF ReadsOf
  <2> QED BY <1>2, <2>1, ConcatProperties
<1>7. /\ redis_queue' = q \o (IF due THEN <<GetSnapshot>> ELSE <<>>)
      /\ waiting' = due
      /\ UNCHANGED snapshot
    BY <1>1, <1>4, Zenon DEF maybe_trigger_snapshot, GetSnapshot
<1> HIDE DEF q, due
<1>8. CASE due
  <2>1. redis_queue' = Append(q, GetSnapshot) /\ waiting' = TRUE
    <3>1. redis_queue' = q \o <<GetSnapshot>>
        BY <1>7, <1>8
    <3>2. Append(q, GetSnapshot) = q \o <<GetSnapshot>>
        BY <1>6, GetSnapshotClosure, AppendIsConcat
    <3>3. waiting' = TRUE
      <4>1. due = TRUE
        <5>1. due \in BOOLEAN
            BY DEF due
        <5> QED BY <1>8, <5>1
      <4> QED BY <1>7, <4>1, Zenon
    <3> QED BY <3>1, <3>2, <3>3
  <2>2. redis_queue' \in Seq(ClosureType)
      BY <1>6, <2>1, GetSnapshotClosure
  <2>3. TypeInv'
      BY <1>1, <1>3, <1>7, <2>1, <2>2 DEF TypeInv, ghost_vars
  <2> QED BY <1>1, <1>3, <1>4, <1>5, <1>7, <2>1, <2>3, RepliesSame DEF q, ghost_vars
<1>9. CASE ~due
  <2>1. redis_queue' = q /\ waiting' = FALSE
    <3>1. redis_queue' = q \o <<>>
        BY <1>7, <1>9
    <3>2. waiting' = FALSE
      <4>1. due = FALSE
        <5>1. due \in BOOLEAN
            BY DEF due
        <5> QED BY <1>9, <5>1
      <4> QED BY <1>7, <4>1, Zenon
    <3> QED BY <1>6, <3>1, <3>2, ConcatEmptySeq
  <2>2. redis_queue' \in Seq(ClosureType)
      BY <1>6, <2>1
  <2>3. TypeInv'
      BY <1>1, <1>3, <1>7, <2>1, <2>2 DEF TypeInv, ghost_vars
  <2> QED BY <1>1, <1>3, <1>4, <1>5, <1>7, <2>1, <2>3, RepliesSame DEF q, ghost_vars
<1> QED BY <1>8, <1>9

LEMMA ReplayTyped ==
    ASSUME TypeInv, NEW kv \in MapType, NEW from \in Nat, NEW to \in Nat, from <= to, to <= Len(log)
    PROVE  Replay(kv, from, to) = Replayed(log, kv, from, to) /\ Replay(kv, from, to) \in MapType
<1>1. Reads(log, from, to) \in Seq(ClosureType)
    BY ReadsType DEF TypeInv
<1>2. Effects(kv, Reads(log, from, to)) \in MapType
    BY <1>1, EffectsType
<1> QED BY <1>2, Zenon DEF Replay, Replayed, Reads

Recover(map) == Closure("recover", NoOp, map)

LEMMA RecoverClosure ==
    ASSUME NEW map \in MapType
    PROVE  Recover(map) \in ClosureType /\ Recover(map).kind = "recover" /\ Recover(map).map = map
BY NoOpEntry, Zenon DEF Recover, Closure, ClosureType

LEMMA PublishSnapshotTyped ==
    ASSUME NEW n, TypeInv, applied_index <= Len(log), PublishSnapshot(n)
    PROVE  /\ TypeInv' /\ AllReplies' = AllReplies
           /\ ~waiting /\ n \in Nat /\ applied_index < n /\ n <= Len(log) /\ applied_index' = n
           /\ UNCHANGED <<key_values, pending, next_request_id, raft_queue, waiting, log, proposed,
                          session, received, request, restarts>>
           /\ snapshot'.index = n /\ snapshot'.map \in MapType /\ start' = snapshot'
           /\ redis_queue' = Append(redis_queue, Recover(snapshot'.map))
<1> DEFINE map == Replay(EmptyMap, 0, n)
<1>1. /\ ~waiting /\ n \in applied_index + 1 .. Len(log) /\ applied_index' = n
      /\ snapshot' = [index |-> n, map |-> map] /\ start' = snapshot'
      /\ redis_queue' = Append(redis_queue, Recover(snapshot'.map))
      /\ UNCHANGED <<key_values, pending, next_request_id, raft_queue, waiting, log, proposed,
                     session, received, request, restarts>>
    BY Zenon DEF PublishSnapshot, Recover
<1>2. applied_index \in Nat /\ Len(log) \in Nat /\ redis_queue \in Seq(ClosureType)
    BY DEF TypeInv
<1>3. n \in Nat /\ applied_index < n /\ n <= Len(log) /\ 0 \in Nat /\ 0 <= n
    BY <1>1, <1>2
<1>4. map \in MapType
    BY <1>3, EmptyMapType, ReplayTyped
<1> HIDE DEF map
<1>5. snapshot' \in SnapshotType /\ snapshot'.index = n /\ snapshot'.map = map
    BY <1>1, <1>3, <1>4, Zenon DEF SnapshotType
<1>6. redis_queue' \in Seq(ClosureType)
    BY <1>1, <1>2, <1>4, <1>5, RecoverClosure
<1>7. TypeInv'
    BY <1>1, <1>3, <1>5, <1>6 DEF TypeInv
<1> QED BY <1>1, <1>3, <1>4, <1>5, <1>7, RepliesSame

LEMMA NewSessionTyped == NewSession \in SessionType /\ NewSession.buffer = <<>>
<1>1. <<>> \in Seq(ReplyType) /\ 0 \in Nat /\ Len(<<>>) = 0 /\ FALSE \in BOOLEAN
    OBVIOUS
<1>2. /\ NewSession \in [buffer : Seq(ReplyType), writing : Nat, broken : BOOLEAN, quit : BOOLEAN]
      /\ NewSession.buffer = <<>> /\ NewSession.writing = 0
    BY <1>1, Zenon DEF NewSession
<1>3. NewSession.writing <= Len(NewSession.buffer)
    BY <1>1, <1>2
<1> QED BY <1>2, <1>3, Zenon DEF SessionType

LEMMA RestartTyped ==
    ASSUME NEW entries \in BOOLEAN, TypeInv, Restart(entries)
    PROVE  /\ TypeInv'
           /\ AllReplies' = received
           /\ restarts' # 0
           /\ pending' = [id \in RequestId |-> None]
           /\ redis_queue' = <<>> /\ applied_index' = snapshot.index
           /\ UNCHANGED <<snapshot, log, request, received>>
           /\ start'.index = snapshot.index /\ start'.map = key_values'
<1>1. /\ restarts' = restarts + 1
      /\ key_values' = Loaded(entries)
      /\ start' = [index |-> snapshot.index, map |-> Loaded(entries)]
      /\ pending' = [id \in DOMAIN pending |-> None]
      /\ next_request_id' = 0
      /\ redis_queue' = <<>> /\ raft_queue' = <<>>
      /\ waiting' = FALSE
      /\ applied_index' = snapshot.index
      /\ session' = [c \in Session |-> NewSession]
      /\ UNCHANGED <<snapshot, log, proposed, received, request>>
    BY DEF Restart
<1>2. /\ snapshot \in SnapshotType /\ pending \in [RequestId -> 0..Len(request)]
      /\ restarts \in Nat /\ request \in Seq(RequestType)
      /\ received \in [Session -> Seq(ReplyType)]
    BY DEF TypeInv
<1>3. snapshot.index \in Nat /\ snapshot.map \in MapType
    BY <1>2, Zenon DEF SnapshotType
<1>4. Loaded(entries) \in MapType
    BY <1>3, EmptyMapType DEF Loaded
<1>5. start' \in SnapshotType /\ start'.index = snapshot.index /\ start'.map = key_values'
    BY <1>1, <1>3, <1>4, Zenon DEF SnapshotType
<1>6. pending' = [id \in RequestId |-> None]
    BY <1>1, <1>2
<1>7. None \in 0..Len(request) /\ 0 \in 0..Len(request)
    BY <1>2 DEF None
<1>8. pending' \in [RequestId -> 0..Len(request')] /\ next_request_id' \in 0..Len(request')
    BY <1>1, <1>6, <1>7
<1>9. session' \in [Session -> SessionType]
    BY <1>1, NewSessionTyped
<1>10. restarts' \in Nat /\ restarts' # 0
    BY <1>1, <1>2
<1>11. <<>> \in Seq(ClosureType) /\ <<>> \in Seq(OwnEntry)
    OBVIOUS
<1>12. TypeInv'
    BY <1>1, <1>3, <1>4, <1>5, <1>8, <1>9, <1>10, <1>11 DEF TypeInv
<1>13. AllReplies' = received
  <2>1. ASSUME NEW c \in Session
        PROVE  received'[c] \o session'[c].buffer = received[c]
    <3>1. session'[c].buffer = <<>> /\ received'[c] = received[c] /\ received[c] \in Seq(ReplyType)
        BY <1>1, <1>2, NewSessionTyped
    <3>2. \A s \in Seq(ReplyType) : s \o <<>> = s
        BY ConcatEmptySeq
    <3> QED BY <3>1, <3>2, Zenon
  <2>2. received = [c \in Session |-> received[c]]
      BY <1>2
  <2> QED BY <2>1, <2>2, Zenon DEF AllReplies, Replies
<1> QED BY <1>1, <1>5, <1>6, <1>10, <1>12, <1>13

LEMMA InitTyped == Init => TypeInv /\ AllReplies = [c \in Session |-> <<>>]
<1> SUFFICES ASSUME Init PROVE TypeInv /\ AllReplies = [c \in Session |-> <<>>]
    OBVIOUS
<1>1. /\ <<>> \in Seq(ClosureType) /\ <<>> \in Seq(OwnEntry) /\ <<>> \in Seq(Entry)
      /\ <<>> \in Seq(RequestType) /\ <<>> \in Seq(ReplyType) /\ Len(<<>>) = 0
      /\ 0 \in Nat /\ 0 \in 0..0 /\ 0 <= MaxRequests
    BY RedisAssumption
<1>2. [index |-> 0, map |-> EmptyMap] \in SnapshotType
    BY <1>1, EmptyMapType, Zenon DEF SnapshotType
<1>3. pending \in [RequestId -> 0..Len(request)] /\ next_request_id \in 0..Len(request)
    BY <1>1 DEF Init, RequestId, None
<1>4. session \in [Session -> SessionType] /\ received \in [Session -> Seq(ReplyType)]
    BY <1>1, NewSessionTyped DEF Init
<1>5. TypeInv
    BY <1>1, <1>2, <1>3, <1>4, EmptyMapType DEF Init, TypeInv
<1>6. ASSUME NEW c \in Session
      PROVE  received[c] \o session[c].buffer = <<>>
  <2>1. received[c] = <<>> /\ session[c].buffer = <<>>
      BY NewSessionTyped DEF Init
  <2>2. <<>> \o <<>> = <<>>
      OBVIOUS
  <2> QED BY <2>1, <2>2
<1> QED BY <1>5, <1>6, Zenon DEF AllReplies, Replies

-----------------------------------------------------------------------------
(* The map and its snapshots.                                              *)

LEMMA StatusEffect ==
    ASSUME NEW kv, NEW cl, cl.kind \in Status \cup {"get_snapshot"}
    PROVE  effect(kv, cl) = kv
BY DEF effect, Status

(* Running the head of the queue leaves what the queue leads to.           *)
LEMMA RunStore ==
    ASSUME TypeInv, TypeInv', StoreInv, redis_queue # <<>>, redis_queue' = Tail(redis_queue),
           key_values' = effect(key_values, Head(redis_queue)),
           UNCHANGED <<log, start, applied_index>>
    PROVE  StoreIsApplied'
<1>1. redis_queue \in Seq(ClosureType)
    BY DEF TypeInv
<1>2. Effects(key_values, redis_queue) = Effects(effect(key_values, Head(redis_queue)), Tail(redis_queue))
    BY <1>1, EffectsHead
<1> QED BY <1>2, Zenon DEF StoreInv, StoreIsApplied, Replay

LEMMA TailLast ==
    ASSUME TypeInv, SnapshotLast, redis_queue # <<>>, redis_queue' = Tail(redis_queue),
           waiting' = waiting
    PROVE  SnapshotLast'
<1> DEFINE N == Len(redis_queue)
<1>1. /\ N \in Nat /\ N > 0 /\ Len(redis_queue') = N - 1 /\ DOMAIN redis_queue = 1..N
      /\ DOMAIN redis_queue' = 1..(N - 1)
      /\ \A k \in 1..(N - 1) : redis_queue'[k] = redis_queue[k + 1]
    BY HeadClosure DEF TypeInv
<1> SUFFICES ASSUME NEW k \in 1..(N - 1), redis_queue'[k].kind = "get_snapshot"
             PROVE  waiting' /\ k = Len(redis_queue')
    BY <1>1, Zenon DEF SnapshotLast
<1>2. k + 1 \in 1..N /\ redis_queue[k + 1].kind = "get_snapshot"
    BY <1>1
<1>3. waiting /\ k + 1 = N
    BY <1>1, <1>2, Zenon DEF SnapshotLast
<1> QED BY <1>1, <1>3

LEMMA StoreSame ==
    ASSUME StoreInv, UNCHANGED <<key_values, redis_queue, start, applied_index, snapshot, waiting, log>>
    PROVE  StoreInv'
BY DEF StoreInv, SnapshotLast, StoreIsApplied, Replay

LEMMA StatusStore == ASSUME TypeInv, StoreInv, RunStatus PROVE StoreInv'
<1>1. /\ TypeInv' /\ redis_queue # <<>> /\ redis_queue' = Tail(redis_queue)
      /\ Head(redis_queue).kind \in Status
      /\ UNCHANGED <<key_values, snapshot, waiting, log, applied_index, start>>
    BY StatusTyped
<1>2. key_values' = effect(key_values, Head(redis_queue))
    BY <1>1, StatusEffect, Zenon
<1>3. StoreIsApplied'
    BY <1>1, <1>2, RunStore
<1>4. SnapshotLast'
    BY <1>1, TailLast DEF StoreInv
<1> QED BY <1>1, <1>3, <1>4 DEF StoreInv

LEMMA CommitStore == ASSUME TypeInv, StoreInv, RunCommit PROVE StoreInv'
<1>1. /\ TypeInv' /\ redis_queue # <<>> /\ redis_queue' = Tail(redis_queue)
      /\ Head(redis_queue).kind = "read_commit"
      /\ key_values' = apply(key_values, Head(redis_queue).commit.cmd)
      /\ UNCHANGED <<snapshot, waiting, log, applied_index, start>>
    BY CommitTyped
<1>2. key_values' = effect(key_values, Head(redis_queue))
    BY <1>1 DEF effect
<1>3. StoreIsApplied'
    BY <1>1, <1>2, RunStore
<1>4. SnapshotLast'
    BY <1>1, TailLast DEF StoreInv
<1> QED BY <1>1, <1>3, <1>4 DEF StoreInv

LEMMA RecoverStore == ASSUME TypeInv, StoreInv, RunRecover PROVE StoreInv'
<1>1. /\ TypeInv' /\ redis_queue # <<>> /\ redis_queue' = Tail(redis_queue)
      /\ Head(redis_queue).kind = "recover"
    BY RecoverTyped
<1>2. /\ key_values' = Head(redis_queue).map
      /\ UNCHANGED <<snapshot, waiting, log, applied_index, start>>
    BY DEF RunRecover, Run, ghost_vars
<1>3. key_values' = effect(key_values, Head(redis_queue))
    BY <1>1, <1>2 DEF effect
<1>4. StoreIsApplied'
    BY <1>1, <1>2, <1>3, RunStore
<1>5. SnapshotLast'
    BY <1>1, <1>2, TailLast DEF StoreInv
<1> QED BY <1>2, <1>4, <1>5 DEF StoreInv

(* The raft thread gets the map of its applied index: nothing is behind    *)
(* its request.                                                            *)
LEMMA GetSnapshotStore ==
    ASSUME TypeInv, StoreInv, RunGetSnapshot
    PROVE  StoreInv' /\ snapshot'.map = Replay(start'.map, start'.index, snapshot'.index)
<1>1. /\ TypeInv' /\ redis_queue # <<>> /\ redis_queue' = Tail(redis_queue)
      /\ Head(redis_queue).kind = "get_snapshot"
    BY GetSnapshotTyped
<1>2. /\ key_values' = key_values /\ UNCHANGED <<log, applied_index, start>>
      /\ snapshot' = [index |-> applied_index, map |-> key_values]
    BY DEF RunGetSnapshot, Run, ghost_vars
<1>3. key_values' = effect(key_values, Head(redis_queue))
    BY <1>1, <1>2, StatusEffect, Zenon
<1>4. StoreIsApplied'
    BY <1>1, <1>2, <1>3, RunStore
<1>5. Len(redis_queue') = 0 /\ DOMAIN redis_queue' = {}
  <2>1. /\ Len(redis_queue) \in Nat /\ Len(redis_queue) > 0 /\ Head(redis_queue) = redis_queue[1]
        /\ DOMAIN redis_queue = 1..Len(redis_queue) /\ redis_queue' \in Seq(ClosureType)
        /\ Len(redis_queue') = Len(redis_queue) - 1
      BY <1>1, HeadClosure DEF TypeInv
  <2>2. 1 \in DOMAIN redis_queue
      BY <2>1
  <2>3. 1 = Len(redis_queue)
      BY <1>1, <2>1, <2>2, Zenon DEF StoreInv, SnapshotLast
  <2>4. \A a, b : 1 = b /\ a = b - 1 => a = 0
      OBVIOUS
  <2>5. \A q \in Seq(ClosureType) : Len(q) = 0 => DOMAIN q = {}
      OBVIOUS
  <2> QED BY <2>1, <2>3, <2>4, <2>5, Zenon
<1>6. key_values' = Replayed(log, start.map, start.index, applied_index)
  <2>1. redis_queue' = <<>>
      BY <1>1, <1>5 DEF TypeInv
  <2>2. Effects(key_values', redis_queue') = key_values'
      BY <2>1, EffectsEmpty
  <2>3. Replay(start.map, start.index, applied_index)' = Replayed(log, start.map, start.index, applied_index)
      BY <1>2, Zenon DEF Replay, Replayed, Reads
  <2> QED BY <1>4, <2>2, <2>3, Zenon DEF StoreIsApplied
<1>7. snapshot'.index = applied_index' /\ snapshot'.map = key_values'
    BY <1>2, Zenon
<1>8. StoreInv'
  <2>1. SnapshotLast'
      BY <1>5 DEF SnapshotLast
  <2>2. applied_index' <= applied_index'
      BY <1>1 DEF TypeInv
  <2> QED BY <1>2, <1>4, <1>7, <2>1, <2>2 DEF StoreInv
<1>9. snapshot'.map = Replay(start'.map, start'.index, snapshot'.index)
    BY <1>2, <1>6, <1>7, Zenon DEF Replay, Replayed, Reads
<1> QED BY <1>8, <1>9

LEMMA ProposeStore == ASSUME NEW ok \in BOOLEAN, TypeInv, StoreInv, Propose(ok) PROVE StoreInv'
<1> DEFINE c == StatusOf(ok, Head(raft_queue))
<1>1. /\ TypeInv' /\ ~waiting /\ Head(raft_queue) \in OwnEntry
      /\ redis_queue' = Append(redis_queue, c)
    BY ProposeTyped
<1>2. UNCHANGED <<key_values, log, start, applied_index, snapshot, waiting>>
    BY DEF Propose, ghost_vars
<1>3. c \in ClosureType /\ c.kind \in Status
    BY <1>1, StatusOfTyped
<1>4. redis_queue \in Seq(ClosureType)
    BY DEF TypeInv
<1> HIDE DEF c
<1>5. Effects(key_values, redis_queue') = Effects(key_values, redis_queue)
  <2>1. Effects(key_values, Append(redis_queue, c)) = effect(Effects(key_values, redis_queue), c)
      BY <1>3, <1>4, EffectsAppend
  <2>2. effect(Effects(key_values, redis_queue), c) = Effects(key_values, redis_queue)
      BY <1>3, StatusEffect, Zenon
  <2> QED BY <1>1, <2>1, <2>2
<1>6. StoreIsApplied'
    BY <1>2, <1>5, Zenon DEF StoreInv, StoreIsApplied, Replay
<1>7. SnapshotLast'
  <2> SUFFICES ASSUME NEW k \in DOMAIN redis_queue', redis_queue'[k].kind = "get_snapshot"
               PROVE  FALSE
      BY Zenon DEF SnapshotLast
  <2>1. CASE k \in DOMAIN redis_queue
    <3>1. redis_queue'[k] = redis_queue[k]
        BY <1>1, <1>3, <1>4, <2>1
    <3>2. waiting
        BY <2>1, <3>1, Zenon DEF StoreInv, SnapshotLast
    <3> QED BY <1>1, <3>2
  <2>2. CASE k \notin DOMAIN redis_queue
    <3>1. redis_queue'[k] = c
        BY <1>1, <1>3, <1>4, <2>2
    <3> QED BY <1>3, <3>1 DEF Status
  <2> QED BY <2>1, <2>2
<1> QED BY <1>2, <1>6, <1>7 DEF StoreInv

LEMMA CommitEntryStore ==
    ASSUME NEW e \in Committable, TypeInv, StoreInv, CommitEntry(e) PROVE StoreInv'
<1>1. /\ log' = Append(log, e)
      /\ UNCHANGED <<key_values, redis_queue, waiting, applied_index, snapshot, start>>
    BY DEF CommitEntry, ghost_vars
<1>2. e \in Entry /\ TypeInv'
    BY CommitEntryTyped
<1>3. /\ log \in Seq(Entry) /\ start.index \in Nat /\ start.map \in MapType /\ applied_index \in Nat
      /\ start.index <= applied_index /\ applied_index <= Len(log)
    BY Zenon DEF TypeInv, StoreInv, SnapshotType
<1>4. Len(log') = Len(log) + 1 /\ \A k \in 1..Len(log) : log'[k] = log[k]
    BY <1>1, <1>2, <1>3
<1>5. Replayed(log', start.map, start.index, applied_index) = Replayed(log, start.map, start.index, applied_index)
    BY <1>3, <1>4, ReplayLonger
<1>6. StoreIsApplied'
  <2>1. Replay(start.map, start.index, applied_index) = Replayed(log, start.map, start.index, applied_index)
      BY Zenon DEF Replay, Replayed, Reads
  <2>2. Replay(start.map, start.index, applied_index)' = Replayed(log', start.map, start.index, applied_index)
      BY <1>1, Zenon DEF Replay, Replayed, Reads
  <2> QED BY <1>1, <1>5, <2>1, <2>2, Zenon DEF StoreInv, StoreIsApplied
<1>7. applied_index' <= Len(log')
    BY <1>1, <1>3, <1>4
<1>8. SnapshotLast'
    BY <1>1, Zenon DEF StoreInv, SnapshotLast
<1> QED BY <1>1, <1>6, <1>7, <1>8 DEF StoreInv

LEMMA PublishStore == ASSUME NEW n, TypeInv, StoreInv, Publish(n) PROVE StoreInv'
<1>1. applied_index <= Len(log)
    BY DEF StoreInv
<1>2. /\ TypeInv' /\ ~waiting /\ n \in Nat /\ applied_index < n /\ n <= Len(log) /\ applied_index' = n
      /\ UNCHANGED <<snapshot, key_values, log, start>>
    BY <1>1, PublishTyped
<1>3. PICK p :
        /\ Posted(p, log, applied_index, n) /\ ReadsOf(p[n], log, applied_index, n)
        /\ \/ redis_queue' = redis_queue \o p[n] /\ waiting' = FALSE
           \/ redis_queue' = Append(redis_queue \o p[n], GetSnapshot) /\ waiting' = TRUE
    BY <1>1, PublishTyped
<1>4. /\ log \in Seq(Entry) /\ applied_index \in Nat /\ key_values \in MapType
      /\ redis_queue \in Seq(ClosureType) /\ start.index \in Nat /\ start.index <= applied_index
      /\ snapshot.index \in Nat /\ snapshot.index <= applied_index
    BY Zenon DEF TypeInv, StoreInv, SnapshotType
<1> DEFINE q == redis_queue \o p[n]
<1>5. /\ p[n] \in Seq(ClosureType) /\ \A k \in DOMAIN p[n] : p[n][k].kind = "read_commit"
  <2>1. \A i : read_commit(log[i]).kind = "read_commit"
      BY Zenon DEF read_commit, Closure
  <2> QED BY <1>3, <2>1, Zenon DEF ReadsOf
<1>6. q \in Seq(ClosureType)
    BY <1>4, <1>5, ConcatProperties
<1>7. Effects(key_values, q) = Replayed(log, start.map, start.index, n)
  <2>1. Effects(key_values, redis_queue) = Replayed(log, start.map, start.index, applied_index)
      BY Zenon DEF StoreInv, StoreIsApplied, Replay, Replayed, Reads
  <2>2. applied_index <= n
      BY <1>2, <1>4
  <2> QED BY <1>2, <1>3, <1>4, <2>1, <2>2, PostedEffects
<1>8. \A k \in DOMAIN q : q[k].kind # "get_snapshot"
  <2> SUFFICES ASSUME NEW k \in DOMAIN q PROVE q[k].kind # "get_snapshot"
      OBVIOUS
  <2>1. CASE k \in DOMAIN redis_queue
    <3>1. q[k] = redis_queue[k]
        BY <1>4, <1>5, <2>1
    <3> QED BY <1>2, <2>1, <3>1, Zenon DEF StoreInv, SnapshotLast
  <2>2. CASE k \notin DOMAIN redis_queue
    <3>1. k - Len(redis_queue) \in DOMAIN p[n] /\ q[k] = p[n][k - Len(redis_queue)]
        BY <1>4, <1>5, <2>2
    <3> QED BY <1>5, <3>1
  <2> QED BY <2>1, <2>2
<1>9. start'.index <= applied_index' /\ snapshot'.index <= applied_index' /\ applied_index' <= Len(log')
    BY <1>2, <1>4
<1>10. Replay(start.map, start.index, applied_index)' = Replayed(log, start.map, start.index, n)
    BY <1>2, Zenon DEF Replay, Replayed, Reads
<1> HIDE DEF q
<1>11. CASE redis_queue' = q
  <2>1. StoreIsApplied'
      BY <1>2, <1>7, <1>10, <1>11, Zenon DEF StoreIsApplied
  <2>2. SnapshotLast'
      BY <1>8, <1>11, Zenon DEF SnapshotLast
  <2> QED BY <1>9, <2>1, <2>2 DEF StoreInv
<1>12. CASE redis_queue' = Append(q, GetSnapshot) /\ waiting' = TRUE
  <2>1. Effects(key_values, Append(q, GetSnapshot)) = effect(Effects(key_values, q), GetSnapshot)
      BY <1>6, GetSnapshotClosure, EffectsAppend
  <2>2. effect(Effects(key_values, q), GetSnapshot) = Effects(key_values, q)
      BY GetSnapshotClosure, StatusEffect, Zenon
  <2>3. StoreIsApplied'
      BY <1>2, <1>7, <1>10, <1>12, <2>1, <2>2, Zenon DEF StoreIsApplied
  <2>4. SnapshotLast'
    <3> SUFFICES ASSUME NEW k \in DOMAIN redis_queue', redis_queue'[k].kind = "get_snapshot"
                 PROVE  k = Len(redis_queue')
        BY <1>12, Zenon DEF SnapshotLast
    <3>1. k \notin DOMAIN q
      <4> SUFFICES ASSUME k \in DOMAIN q PROVE FALSE
          OBVIOUS
      <4>1. redis_queue'[k] = q[k]
          BY <1>6, <1>12, GetSnapshotClosure
      <4> QED BY <1>8, <4>1
    <3> QED BY <1>6, <1>12, <3>1, GetSnapshotClosure
  <2> QED BY <1>9, <2>3, <2>4 DEF StoreInv
<1> QED BY <1>3, <1>11, <1>12 DEF q

LEMMA PublishSnapshotStore ==
    ASSUME NEW n, TypeInv, StoreInv, PublishSnapshot(n)
    PROVE  StoreInv' /\ snapshot'.map = Replay(start'.map, start'.index, snapshot'.index)
<1> DEFINE c == Recover(snapshot'.map)
<1>1. applied_index <= Len(log)
    BY DEF StoreInv
<1>2. /\ TypeInv' /\ ~waiting /\ n \in Nat /\ applied_index < n /\ n <= Len(log) /\ applied_index' = n
      /\ UNCHANGED <<key_values, waiting, log>>
      /\ snapshot'.index = n /\ snapshot'.map \in MapType /\ start' = snapshot'
      /\ redis_queue' = Append(redis_queue, c)
    BY <1>1, PublishSnapshotTyped
<1>3. c \in ClosureType /\ c.kind = "recover" /\ c.map = snapshot'.map
    BY <1>2, RecoverClosure
<1>4. redis_queue \in Seq(ClosureType)
    BY DEF TypeInv
<1> HIDE DEF c
<1>5. Effects(key_values, redis_queue') = snapshot'.map
  <2>1. Effects(key_values, Append(redis_queue, c)) = effect(Effects(key_values, redis_queue), c)
      BY <1>3, <1>4, EffectsAppend
  <2>2. effect(Effects(key_values, redis_queue), c) = snapshot'.map
      BY <1>3 DEF effect
  <2> QED BY <1>2, <2>1, <2>2
<1>6. Replay(start.map, start.index, applied_index)' = snapshot'.map
  <2>1. Replayed(log, snapshot'.map, n, n) = snapshot'.map
      BY <1>2, ReplayNothing
  <2>2. Replay(start.map, start.index, applied_index)' = Replayed(log, snapshot'.map, n, n)
      BY <1>2, Zenon DEF Replay, Replayed, Reads
  <2> QED BY <2>1, <2>2
<1>7. StoreIsApplied'
    BY <1>2, <1>5, <1>6, Zenon DEF StoreIsApplied
<1>8. SnapshotLast'
  <2> SUFFICES ASSUME NEW k \in DOMAIN redis_queue', redis_queue'[k].kind = "get_snapshot"
               PROVE  FALSE
      BY Zenon DEF SnapshotLast
  <2>1. CASE k \in DOMAIN redis_queue
    <3>1. redis_queue'[k] = redis_queue[k]
        BY <1>2, <1>3, <1>4, <2>1
    <3> QED BY <1>2, <2>1, <3>1, Zenon DEF StoreInv, SnapshotLast
  <2>2. CASE k \notin DOMAIN redis_queue
    <3>1. redis_queue'[k] = c
        BY <1>2, <1>3, <1>4, <2>2
    <3> QED BY <1>3, <3>1
  <2> QED BY <2>1, <2>2
<1>9. StoreInv'
    BY <1>2, <1>7, <1>8 DEF StoreInv
<1>10. Replay(start'.map, start'.index, snapshot'.index) = Replay(start.map, start.index, applied_index)'
    BY <1>2, Zenon DEF Replay
<1> QED BY <1>6, <1>9, <1>10

LEMMA RestartStore == ASSUME NEW entries \in BOOLEAN, TypeInv, StoreInv, Restart(entries) PROVE StoreInv'
<1>1. /\ TypeInv' /\ redis_queue' = <<>> /\ applied_index' = snapshot.index
      /\ UNCHANGED <<snapshot, log>>
      /\ start'.index = snapshot.index /\ start'.map = key_values'
    BY RestartTyped
<1>2. snapshot.index \in Nat /\ snapshot.index <= Len(log) /\ snapshot.index <= snapshot.index
  <2>1. snapshot.index \in Nat
      BY Zenon DEF TypeInv, SnapshotType
  <2> QED BY <2>1 DEF TypeInv, StoreInv
<1>3. StoreIsApplied'
  <2>1. Effects(key_values', redis_queue') = key_values'
      BY <1>1, EffectsEmpty
  <2>2. Replay(start.map, start.index, applied_index)' = Replayed(log', key_values', snapshot.index, snapshot.index)
      BY <1>1, Zenon DEF Replay, Replayed, Reads
  <2>3. Replayed(log', key_values', snapshot.index, snapshot.index) = key_values'
      BY <1>2, ReplayNothing
  <2> QED BY <2>1, <2>2, <2>3, Zenon DEF StoreIsApplied
<1>4. SnapshotLast'
    BY <1>1 DEF SnapshotLast
<1> QED BY <1>1, <1>2, <1>3, <1>4 DEF StoreInv

-----------------------------------------------------------------------------
(* The answers.                                                            *)

(* R2 is R with the reply r behind those of connection c.                  *)
OneMore(R2, R, c, r) ==
    /\ \A d \in Session : \A i \in DOMAIN R2[d] :
          \/ i \in DOMAIN R[d] /\ R2[d][i] = R[d][i]
          \/ d = c /\ i = Len(R[c]) + 1 /\ i \notin DOMAIN R[c] /\ R2[d][i] = r
    /\ \A d \in Session : \A i \in DOMAIN R[d] : i \in DOMAIN R2[d] /\ R2[d][i] = R[d][i]
    /\ \E i \in DOMAIN R2[c] : R2[c][i] = r

LEMMA ReplyAdded ==
    ASSUME NEW R \in [Session -> Seq(ReplyType)], NEW c \in Session, NEW r \in ReplyType
    PROVE  OneMore(WithReply(R, c, r), R, c, r)
<1> DEFINE R2 == WithReply(R, c, r)
<1>1. /\ R2[c] = Append(R[c], r) /\ \A d \in Session : d # c => R2[d] = R[d]
    BY DEF WithReply
<1>2. R[c] \in Seq(ReplyType)
    OBVIOUS
<1> HIDE DEF R2
<1>3. \A s \in Seq(ReplyType) :
        /\ Len(s) \in Nat /\ Len(s) + 1 \notin DOMAIN s /\ Len(s) + 1 \in DOMAIN Append(s, r)
        /\ Append(s, r)[Len(s) + 1] = r
        /\ \A i \in DOMAIN s : i \in DOMAIN Append(s, r) /\ Append(s, r)[i] = s[i]
        /\ \A i \in DOMAIN Append(s, r) : i \in DOMAIN s \/ i = Len(s) + 1
    OBVIOUS
<1>4. ASSUME NEW d \in Session, NEW i \in DOMAIN R2[d]
      PROVE  \/ i \in DOMAIN R[d] /\ R2[d][i] = R[d][i]
             \/ d = c /\ i = Len(R[c]) + 1 /\ i \notin DOMAIN R[c] /\ R2[d][i] = r
  <2>1. CASE d # c
      BY <1>1, <1>4, <2>1
  <2>2. CASE d = c
    <3>1. i \in DOMAIN Append(R[c], r) /\ R2[d][i] = Append(R[c], r)[i]
        BY <1>1, <1>4, <2>2
    <3>2. CASE i \in DOMAIN R[c]
        BY <1>2, <1>3, <2>2, <3>1, <3>2
    <3>3. CASE i = Len(R[c]) + 1
        BY <1>2, <1>3, <2>2, <3>1, <3>3
    <3> QED BY <1>2, <1>3, <3>1, <3>2, <3>3
  <2> QED BY <2>1, <2>2
<1>5. ASSUME NEW d \in Session, NEW i \in DOMAIN R[d]
      PROVE  i \in DOMAIN R2[d] /\ R2[d][i] = R[d][i]
    BY <1>1, <1>2, <1>3, <1>5
<1>6. \E i \in DOMAIN R2[c] : R2[c][i] = r
    BY <1>1, <1>2, <1>3
<1> QED BY <1>4, <1>5, <1>6, Zenon DEF OneMore, R2

Distinct(R) == \A d \in Session : \A i, j \in DOMAIN R[d] : i # j => R[d][i].req # R[d][j].req

Unused(R, a) == \A d \in Session : \A i \in DOMAIN R[d] : R[d][i].req # a

(* Every reply of R2 answers a request that R answers, or a.               *)
AnswersOnly(R2, R, a) ==
    \A d \in Session : \A i \in DOMAIN R2[d] :
        (\E j \in DOMAIN R[d] : R2[d][i].req = R[d][j].req) \/ R2[d][i].req = a

(* A reply to a request that had none.                                     *)
LEMMA FirstReply ==
    ASSUME NEW R, NEW R2, NEW c \in Session, NEW r, OneMore(R2, R, c, r),
           Unused(R, r.req), Distinct(R)
    PROVE  Distinct(R2) /\ AnswersOnly(R2, R, r.req)
<1>1. ASSUME NEW d \in Session, NEW i \in DOMAIN R2[d]
      PROVE  \/ i \in DOMAIN R[d] /\ R2[d][i] = R[d][i]
             \/ i = Len(R[c]) + 1 /\ R2[d][i] = r
    BY <1>1, Zenon DEF OneMore
<1>2. ASSUME NEW d \in Session, NEW i \in DOMAIN R2[d], NEW j \in DOMAIN R2[d], i # j
      PROVE  R2[d][i].req # R2[d][j].req
  <2>1. CASE i \in DOMAIN R[d] /\ R2[d][i] = R[d][i] /\ j \in DOMAIN R[d] /\ R2[d][j] = R[d][j]
      BY <1>2, <2>1 DEF Distinct
  <2>2. CASE i \in DOMAIN R[d] /\ R2[d][i] = R[d][i] /\ j = Len(R[c]) + 1 /\ R2[d][j] = r
      BY <2>2 DEF Unused
  <2>3. CASE i = Len(R[c]) + 1 /\ R2[d][i] = r /\ j \in DOMAIN R[d] /\ R2[d][j] = R[d][j]
      BY <2>3 DEF Unused
  <2> QED BY <1>1, <1>2, <2>1, <2>2, <2>3
<1>3. Distinct(R2)
    BY <1>2, Zenon DEF Distinct
<1>4. AnswersOnly(R2, R, r.req)
    BY <1>1, Zenon DEF AnswersOnly
<1> QED BY <1>3, <1>4

(* A request that is answered at once.                                     *)
LEMMA AnsweredAtOnce ==
    ASSUME NEW R, NEW R2, NEW pend, NEW next, NEW reqs \in Seq(RequestType), NEW fresh,
           NEW q \in RequestType, NEW c \in Session, NEW r,
           pend \in [RequestId -> 0..Len(reqs)],
           AnswerGood(R, pend, next, reqs, fresh), q.cmd.keys = {},
           OneMore(R2, R, c, r), r.req = Len(reqs) + 1
    PROVE  AnswerGood(R2, pend, next, Append(reqs, q), fresh)
<1> DEFINE n == Len(reqs)
           reqs2 == Append(reqs, q)
<1>1. /\ n \in Nat /\ Len(reqs2) = n + 1 /\ DOMAIN reqs2 = 1..(n + 1) /\ DOMAIN reqs = 1..n
      /\ reqs2[n + 1] = q /\ \A k \in 1..n : reqs2[k] = reqs[k]
    OBVIOUS
<1>2. /\ \A d \in Session : \A i \in DOMAIN R[d] : R[d][i].req \in 1..n
      /\ \A d \in Session : \A i, j \in DOMAIN R[d] : i # j => R[d][i].req # R[d][j].req
      /\ \A id \in RequestId : pend[id] # None =>
          /\ id < next
          /\ \A d \in Session : \A i \in DOMAIN R[d] : R[d][i].req # pend[id]
          /\ \A id2 \in RequestId : pend[id2] = pend[id] => id2 = id
      /\ fresh => \A k \in 1..n :
          reqs[k].cmd.keys # {} =>
            \/ \E id \in RequestId : pend[id] = k
            \/ \E text \in {"OK", "ERR"} : AnsweredIn(R, reqs[k].session, k, text)
    BY <1>1, Zenon DEF AnswerGood
<1> HIDE DEF reqs2
<1>3. n + 1 \notin 1..n
    BY <1>1
<1>4. /\ \A d \in Session : \A i, j \in DOMAIN R2[d] : i # j => R2[d][i].req # R2[d][j].req
      /\ \A d \in Session : \A i \in DOMAIN R2[d] :
            (\E j \in DOMAIN R[d] : R2[d][i].req = R[d][j].req) \/ R2[d][i].req = n + 1
  <2>1. \A d \in Session : \A i \in DOMAIN R[d] : R[d][i].req # n + 1
      BY <1>3, <1>2
  <2>2. Unused(R, r.req) /\ Distinct(R)
      BY <1>2, <2>1, Zenon DEF Unused, Distinct
  <2> HIDE DEF n
  <2>3. Distinct(R2) /\ AnswersOnly(R2, R, r.req)
      BY <2>2, FirstReply
  <2> QED BY <2>3, Zenon DEF n, Distinct, AnswersOnly
<1>5. ASSUME NEW d \in Session, NEW i \in DOMAIN R2[d]
      PROVE  R2[d][i].req \in 1..Len(reqs2)
  <2>1. R2[d][i].req \in 1..n \/ R2[d][i].req = n + 1
      BY <1>2, <1>4
  <2> QED BY <1>1, <2>1
<1>6. ASSUME NEW id \in RequestId, pend[id] # None
      PROVE  /\ id < next
             /\ \A d \in Session : \A i \in DOMAIN R2[d] : R2[d][i].req # pend[id]
             /\ \A id2 \in RequestId : pend[id2] = pend[id] => id2 = id
  <2>1. pend[id] # n + 1
      BY <1>1
  <2>2. \A d \in Session : \A i \in DOMAIN R2[d] : R2[d][i].req # pend[id]
      BY <1>2, <1>4, <1>6, <2>1
  <2> QED BY <1>2, <1>6, <2>2, Zenon
<1>7. ASSUME fresh, NEW k \in 1..(n + 1), reqs2[k].cmd.keys # {}
      PROVE  \/ \E id \in RequestId : pend[id] = k
             \/ \E text \in {"OK", "ERR"} : AnsweredIn(R2, reqs2[k].session, k, text)
  <2>1. k \in 1..n /\ reqs2[k] = reqs[k]
    <3>1. k # n + 1
        BY <1>1, <1>7, Zenon
    <3> QED BY <1>1, <3>1
  <2>2. reqs[k].session \in Session
    <3>1. reqs[k] \in RequestType
        BY <1>1, <2>1
    <3> QED BY <3>1, Zenon DEF RequestType
  <2>3. \A text : AnsweredIn(R, reqs[k].session, k, text) => AnsweredIn(R2, reqs[k].session, k, text)
      BY <2>2, Zenon DEF AnsweredIn, OneMore
  <2> QED BY <1>2, <1>7, <2>1, <2>3, Zenon
<1> QED BY <1>1, <1>5, <1>4, <1>6, <1>7, Zenon DEF AnswerGood, reqs2

(* A request that waits for Raft.                                          *)
LEMMA WaitsForRaft ==
    ASSUME NEW R, NEW pend, NEW next \in Nat, NEW reqs \in Seq(RequestType), NEW fresh,
           NEW q \in RequestType, next \in RequestId,
           pend \in [RequestId -> 0..Len(reqs)],
           AnswerGood(R, pend, next, reqs, fresh)
    PROVE  AnswerGood(R, [pend EXCEPT ![next] = Len(reqs) + 1], next + 1, Append(reqs, q), fresh)
<1> DEFINE n == Len(reqs)
           reqs2 == Append(reqs, q)
           pend2 == [pend EXCEPT ![next] = n + 1]
<1>1. /\ n \in Nat /\ Len(reqs2) = n + 1 /\ DOMAIN reqs2 = 1..(n + 1) /\ DOMAIN reqs = 1..n
      /\ reqs2[n + 1] = q /\ \A k \in 1..n : reqs2[k] = reqs[k]
    OBVIOUS
<1>2. /\ \A d \in Session : \A i \in DOMAIN R[d] : R[d][i].req \in 1..n
      /\ \A d \in Session : \A i, j \in DOMAIN R[d] : i # j => R[d][i].req # R[d][j].req
      /\ \A id \in RequestId : pend[id] # None =>
          /\ id < next
          /\ \A d \in Session : \A i \in DOMAIN R[d] : R[d][i].req # pend[id]
          /\ \A id2 \in RequestId : pend[id2] = pend[id] => id2 = id
      /\ fresh => \A k \in 1..n :
          reqs[k].cmd.keys # {} =>
            \/ \E id \in RequestId : pend[id] = k
            \/ \E text \in {"OK", "ERR"} : AnsweredIn(R, reqs[k].session, k, text)
    BY <1>1, Zenon DEF AnswerGood
<1>3. pend2[next] = n + 1 /\ \A id \in RequestId : id # next => pend2[id] = pend[id]
    OBVIOUS
<1>4. /\ \A id \in RequestId : pend[id] # n + 1 
      /\ \A k \in 1..n : k \in 1..(n + 1) /\ k # n + 1
      /\ \A k \in 1..(n + 1) : k \in 1..n \/ k = n + 1
      /\ next < next + 1 /\ \A id \in RequestId : id < next => id < next + 1 /\ id # next
    BY <1>1 DEF RequestId
<1>5. pend[next] = None
    BY <1>2, <1>4, Zenon
<1> HIDE DEF reqs2, pend2
<1>6. ASSUME NEW d \in Session, NEW i \in DOMAIN R[d]
      PROVE  R[d][i].req \in 1..Len(reqs2)
    BY <1>1, <1>2, <1>4, Zenon
<1>7. ASSUME NEW id \in RequestId, pend2[id] # None
      PROVE  /\ id < next + 1
             /\ \A d \in Session : \A i \in DOMAIN R[d] : R[d][i].req # pend2[id]
             /\ \A id2 \in RequestId : pend2[id2] = pend2[id] => id2 = id
  <2>1. CASE id = next
    <3>1. \A d \in Session : \A i \in DOMAIN R[d] : R[d][i].req # n + 1
        BY <1>2, <1>4
    <3>2. \A id2 \in RequestId : pend2[id2] = n + 1 => id2 = next
        BY <1>3, <1>4, Zenon
    <3> QED BY <1>3, <1>4, <2>1, <3>1, <3>2
  <2>2. CASE id # next
    <3>1. pend2[id] = pend[id] /\ pend[id] # None /\ pend[id] # n + 1
        BY <1>3, <1>4, <1>7, <2>2
    <3>2. \A id2 \in RequestId : pend2[id2] = pend2[id] => id2 = id
        BY <1>2, <1>3, <3>1, Zenon
    <3> QED BY <1>2, <1>4, <3>1, <3>2, Zenon
  <2> QED BY <2>1, <2>2
<1>8. ASSUME fresh, NEW k \in 1..(n + 1), reqs2[k].cmd.keys # {}
      PROVE  \/ \E id \in RequestId : pend2[id] = k
             \/ \E text \in {"OK", "ERR"} : AnsweredIn(R, reqs2[k].session, k, text)
  <2>1. CASE k = n + 1
      BY <1>3, <2>1, Zenon
  <2>2. CASE k \in 1..n
    <3>1. k # None
        BY <1>1, <2>2 DEF None
    <3>2. CASE \E id \in RequestId : pend[id] = k
        BY <1>3, <1>5, <3>1, <3>2, Zenon
    <3>3. CASE \E text \in {"OK", "ERR"} : AnsweredIn(R, reqs[k].session, k, text)
        BY <1>1, <2>2, <3>3, Zenon
    <3>4. reqs[k].cmd.keys # {}
        BY <1>1, <1>8, <2>2, Zenon
    <3> QED BY <1>2, <1>8, <2>2, <3>2, <3>3, <3>4, Zenon
  <2> QED BY <1>4, <2>1, <2>2
<1> QED BY <1>1, <1>2, <1>6, <1>7, <1>8, Zenon DEF AnswerGood, reqs2, pend2

(* A request of pending_requests_ that is answered and erased.             *)
LEMMA AnsweredAndErased ==
    ASSUME NEW R, NEW R2, NEW pend, NEW next, NEW reqs \in Seq(RequestType), NEW fresh,
           NEW id \in RequestId, NEW text \in {"OK", "ERR"},
           pend \in [RequestId -> 0..Len(reqs)], pend[id] # None,
           AnswerGood(R, pend, next, reqs, fresh),
           OneMore(R2, R, reqs[pend[id]].session, Reply(pend[id], text))
    PROVE  AnswerGood(R2, [pend EXCEPT ![id] = None], next, reqs, fresh)
<1> DEFINE n == Len(reqs)
           a == pend[id]
           pend2 == [pend EXCEPT ![id] = None]
<1>1. n \in Nat /\ DOMAIN reqs = 1..n /\ a \in 1..n
  <2>1. a \in 0..n /\ n \in Nat
      OBVIOUS
  <2> QED BY <2>1 DEF None
<1>2. /\ \A d \in Session : \A i \in DOMAIN R[d] : R[d][i].req \in 1..n
      /\ \A d \in Session : \A i, j \in DOMAIN R[d] : i # j => R[d][i].req # R[d][j].req
      /\ \A m \in RequestId : pend[m] # None =>
          /\ m < next
          /\ \A d \in Session : \A i \in DOMAIN R[d] : R[d][i].req # pend[m]
          /\ \A id2 \in RequestId : pend[id2] = pend[m] => id2 = m
      /\ fresh => \A k \in 1..n :
          reqs[k].cmd.keys # {} =>
            \/ \E m \in RequestId : pend[m] = k
            \/ \E t \in {"OK", "ERR"} : AnsweredIn(R, reqs[k].session, k, t)
    BY <1>1, Zenon DEF AnswerGood
<1>3. pend2[id] = None /\ \A m \in RequestId : m # id => pend2[m] = pend[m]
    OBVIOUS
<1>4. Reply(a, text).req = a
    BY Zenon DEF Reply
<1>5. \A k \in 1..n : reqs[k].session \in Session
  <2>1. \A k \in 1..n : reqs[k] \in RequestType
      BY <1>1
  <2> QED BY <2>1, Zenon DEF RequestType
<1> HIDE DEF pend2, a
<1>6. OneMore(R2, R, reqs[a].session, Reply(a, text)) /\ pend[id] = a
    BY Zenon DEF a
<1>7. /\ \A d \in Session : \A i, j \in DOMAIN R2[d] : i # j => R2[d][i].req # R2[d][j].req
      /\ \A d \in Session : \A i \in DOMAIN R2[d] :
            (\E j \in DOMAIN R[d] : R2[d][i].req = R[d][j].req) \/ R2[d][i].req = a
  <2>1. \A d \in Session : \A i \in DOMAIN R[d] : R[d][i].req # a
      BY <1>2, <1>6, Zenon
  <2> DEFINE r == Reply(a, text)
  <2>2. Unused(R, r.req) /\ Distinct(R)
      BY <1>2, <1>4, <2>1, Zenon DEF Unused, Distinct
  <2>3. reqs[a].session \in Session /\ OneMore(R2, R, reqs[a].session, r)
      BY <1>1, <1>5, <1>6, Zenon
  <2> HIDE DEF r
  <2>4. Distinct(R2) /\ AnswersOnly(R2, R, r.req)
      BY <2>2, <2>3, FirstReply
  <2> QED BY <1>4, <2>4, Zenon DEF r, Distinct, AnswersOnly
<1>8. ASSUME NEW d \in Session, NEW i \in DOMAIN R2[d]
      PROVE  R2[d][i].req \in 1..n
    BY <1>1, <1>2, <1>7, Zenon
<1>9. ASSUME NEW m \in RequestId, pend2[m] # None
      PROVE  /\ m < next
             /\ \A d \in Session : \A i \in DOMAIN R2[d] : R2[d][i].req # pend2[m]
             /\ \A id2 \in RequestId : pend2[id2] = pend2[m] => id2 = m
  <2>1. m # id /\ pend2[m] = pend[m] /\ pend[m] # None /\ pend[m] # a
      BY <1>2, <1>3, <1>6, <1>9, Zenon
  <2>2. \A d \in Session : \A i \in DOMAIN R2[d] : R2[d][i].req # pend2[m]
      BY <1>2, <1>7, <2>1
  <2>3. \A id2 \in RequestId : pend2[id2] = pend2[m] => id2 = m
      BY <1>2, <1>3, <2>1, Zenon
  <2> QED BY <1>2, <2>1, <2>2, <2>3, Zenon
<1>10. ASSUME fresh, NEW k \in 1..n, reqs[k].cmd.keys # {}
       PROVE  \/ \E m \in RequestId : pend2[m] = k
              \/ \E t \in {"OK", "ERR"} : AnsweredIn(R2, reqs[k].session, k, t)
  <2>1. CASE k = a
      BY <1>5, <1>6, <2>1, Zenon DEF OneMore, AnsweredIn
  <2>2. CASE k # a
    <3>1. \A t : AnsweredIn(R, reqs[k].session, k, t) => AnsweredIn(R2, reqs[k].session, k, t)
        BY <1>5, <1>6, Zenon DEF AnsweredIn, OneMore
    <3>2. CASE \E m \in RequestId : pend[m] = k
      <4>1. PICK m \in RequestId : pend[m] = k
          BY <3>2
      <4>2. m # id
          BY <1>6, <2>2, <4>1, Zenon
      <4> QED BY <1>3, <4>1, <4>2, Zenon
    <3>3. CASE \E t \in {"OK", "ERR"} : AnsweredIn(R, reqs[k].session, k, t)
        BY <3>1, <3>3, Zenon
    <3> QED BY <1>2, <1>10, <3>2, <3>3, Zenon
  <2> QED BY <2>1, <2>2
<1> QED BY <1>1, <1>8, <1>7, <1>9, <1>10, Zenon DEF AnswerGood, pend2

LEMMA AnswerSame ==
    ASSUME AnswerInv, AllReplies' = AllReplies,
           UNCHANGED <<pending, next_request_id, request, restarts>>
    PROVE  AnswerInv'
BY Zenon DEF AnswerInv

LEMMA ReadAnswer ==
    ASSUME NEW c \in Session, TypeInv, AnswerInv, Read(c)
    PROVE  /\ AnswerInv' /\ UNCHANGED <<pending, next_request_id, redis_queue, raft_queue, log,
                                        proposed, applied_index, restarts>>
           /\ \E q \in RequestType : request' = Append(request, q)
           /\ OneMore(AllReplies', AllReplies, c, Reply(Len(request) + 1, "reply"))
<1> DEFINE q == [session |-> c, cmd |-> NoOp.cmd]
           r == Reply(Len(request) + 1, "reply")
<1>1. /\ request' = Append(request, q)
      /\ session' = [session EXCEPT ![c] = send_reply(@, r)]
      /\ UNCHANGED <<key_values, pending, next_request_id, redis_queue, raft_vars, received, ghost_vars>>
    BY DEF Read, AnswerNow, Arrive
<1>2. /\ request \in Seq(RequestType) /\ Len(request) + 1 \in Nat
      /\ pending \in [RequestId -> 0..Len(request)]
    BY DEF TypeInv
<1>3. q \in RequestType
    BY NoOpEntry, Zenon DEF RequestType
<1>4. q.cmd.keys = {}
    BY Zenon DEF NoOp, Commit, DelCommand
<1>5. r \in ReplyType /\ r.req = Len(request) + 1
    BY <1>2, ReplyTyped
<1> HIDE DEF q, r
<1>6. AllReplies' = WithReply(AllReplies, c, r)
    BY <1>1, <1>5, Replied, Zenon
<1>7. OneMore(AllReplies', AllReplies, c, r)
    BY <1>5, <1>6, RepliesTyped, ReplyAdded
<1>8. AnswerGood(AllReplies', pending, next_request_id, Append(request, q), restarts = 0)
  <2>1. AnswerGood(AllReplies, pending, next_request_id, request, restarts = 0)
      BY DEF AnswerInv
  <2> HIDE DEF AllReplies
  <2> QED BY <1>2, <1>3, <1>4, <1>5, <1>7, <2>1, AnsweredAtOnce
<1>9. AnswerInv'
    BY <1>1, <1>8, Zenon DEF AnswerInv, ghost_vars
<1> QED BY <1>1, <1>3, <1>7, <1>9, Zenon DEF raft_vars, ghost_vars, r

LEMMA WriteAnswer ==
    ASSUME NEW c \in Session, NEW cmd \in Command, TypeInv, AnswerInv, Write(c, cmd)
    PROVE  AnswerInv' /\ AllReplies' = AllReplies
<1> DEFINE q == [session |-> c, cmd |-> cmd]
<1>1. /\ request' = Append(request, q) /\ next_request_id' = next_request_id + 1
      /\ pending' = [pending EXCEPT ![next_request_id] = Len(request) + 1]
      /\ UNCHANGED <<session, received, restarts>>
    BY DEF Write, Arrive, ghost_vars
<1>2. /\ request \in Seq(RequestType) /\ pending \in [RequestId -> 0..Len(request)]
      /\ next_request_id \in Nat
    BY DEF TypeInv
<1>3. q \in RequestType
  <2>1. cmd \in CommandType
      BY RedisAssumption
  <2> QED BY <2>1, Zenon DEF RequestType
<1>4. next_request_id \in RequestId
    BY WriteTyped
<1>5. AllReplies' = AllReplies
    BY <1>1, RepliesSame
<1> HIDE DEF q
<1>6. AnswerGood(AllReplies, [pending EXCEPT ![next_request_id] = Len(request) + 1],
                 next_request_id + 1, Append(request, q), restarts = 0)
    BY <1>2, <1>3, <1>4, WaitsForRaft DEF AnswerInv
<1> QED BY <1>1, <1>5, <1>6, Zenon DEF AnswerInv

LEMMA SettledAnswer ==
    ASSUME TypeInv, AnswerInv, NEW id \in RequestId, NEW text \in {"OK", "ERR"},
           SettledWith(id, text), UNCHANGED <<next_request_id, request, restarts>>
    PROVE  /\ AnswerInv'
           /\ \/ pending' = pending /\ AllReplies' = AllReplies
              \/ /\ pending[id] \in DOMAIN request /\ pending' = [pending EXCEPT ![id] = None]
                 /\ OneMore(AllReplies', AllReplies, request[pending[id]].session, Reply(pending[id], text))
<1>1. CASE pending[id] = None
  <2>1. pending' = pending /\ AllReplies' = AllReplies
      BY <1>1, Zenon DEF SettledWith
  <2> QED BY <2>1, AnswerSame
<1>2. CASE pending[id] # None
  <2> DEFINE a == pending[id]
             c == request[a].session
  <2>1. /\ a \in DOMAIN request /\ pending' = [pending EXCEPT ![id] = None]
        /\ AllReplies' = WithReply(AllReplies, c, Reply(a, text))
      BY <1>2, Zenon DEF SettledWith
  <2>2. request \in Seq(RequestType) /\ pending \in [RequestId -> 0..Len(request)]
      BY DEF TypeInv
  <2>3. a \in Nat /\ c \in Session
    <3>1. request[a] \in RequestType /\ a \in Nat
        BY <2>1, <2>2
    <3> QED BY <3>1, Zenon DEF RequestType
  <2>4. Reply(a, text) \in ReplyType
      BY <2>3, ReplyTyped
  <2> HIDE DEF c
  <2>5. OneMore(AllReplies', AllReplies, c, Reply(a, text))
      BY <2>1, <2>3, <2>4, RepliesTyped, ReplyAdded
  <2>6. AnswerGood(AllReplies', [pending EXCEPT ![id] = None], next_request_id, request, restarts = 0)
      BY <1>2, <2>2, <2>5, AnsweredAndErased DEF AnswerInv, c
  <2>7. AnswerInv'
      BY <2>1, <2>6, Zenon DEF AnswerInv
  <2> QED BY <2>1, <2>5, <2>7 DEF c
<1> QED BY <1>1, <1>2

LEMMA RestartAnswer ==
    ASSUME NEW entries \in BOOLEAN, TypeInv, AnswerInv, Restart(entries)
    PROVE  AnswerInv'
<1>1. /\ AllReplies' = received /\ restarts' # 0 /\ pending' = [id \in RequestId |-> None]
      /\ UNCHANGED <<request, received>>
    BY RestartTyped
<1>2. ASSUME NEW c \in Session
      PROVE  \A i \in DOMAIN received[c] : i \in DOMAIN AllReplies[c] /\ received[c][i] = AllReplies[c][i]
  <2>1. received[c] \in Seq(ReplyType) /\ session[c].buffer \in Seq(ReplyType)
      BY Zenon DEF TypeInv, SessionType
  <2>2. \A a, b \in Seq(ReplyType) : \A i \in DOMAIN a : i \in DOMAIN (a \o b) /\ a[i] = (a \o b)[i]
      OBVIOUS
  <2>3. AllReplies[c] = received[c] \o session[c].buffer
      BY Zenon DEF AllReplies, Replies
  <2> QED BY <2>1, <2>2, <2>3, Zenon
<1>3. /\ \A c \in Session : \A i \in DOMAIN AllReplies[c] : AllReplies[c][i].req \in 1..Len(request)
      /\ \A c \in Session : \A i, j \in DOMAIN AllReplies[c] :
            i # j => AllReplies[c][i].req # AllReplies[c][j].req
    BY Zenon DEF AnswerInv, AnswerGood
<1>4. /\ \A c \in Session : \A i \in DOMAIN received[c] : received[c][i].req \in 1..Len(request)
      /\ \A c \in Session : \A i, j \in DOMAIN received[c] : i # j => received[c][i].req # received[c][j].req
  <2> HIDE DEF AllReplies
  <2> QED BY <1>2, <1>3
<1>5. \A id \in RequestId : pending'[id] = None
    BY <1>1
<1>6. AnswerGood(received, pending', next_request_id', request, restarts' = 0)
    BY <1>1, <1>4, <1>5, Zenon DEF AnswerGood
<1> QED BY <1>1, <1>6, Zenon DEF AnswerInv

-----------------------------------------------------------------------------
(* The writes of this server.                                              *)

(* Ids in use lose their request or keep it; requests stay what they are.  *)
Later(pend2, next2, reqs2, pend, next, reqs) ==
    /\ \A id \in RequestId : id < next => id < next2 /\ pend2[id] \in {None, pend[id]}
    /\ \A k \in DOMAIN reqs : k \in DOMAIN reqs2 /\ reqs2[k] = reqs[k]

LEMMA MineLater ==
    ASSUME NEW pend, NEW next, NEW reqs, NEW pend2, NEW next2, NEW reqs2,
           Later(pend2, next2, reqs2, pend, next, reqs),
           NEW e, e.id \in RequestId, Mine(e, pend, next, reqs)
    PROVE  Mine(e, pend2, next2, reqs2)
<1>1. pend2[e.id] \in {None, e.req}
    BY Zenon DEF Mine, Later
<1>2. reqs2[e.req] = reqs[e.req] /\ e.req \in DOMAIN reqs2
    BY Zenon DEF Mine, Later
<1> QED BY <1>1, <1>2, Zenon DEF Mine, Later

LEMMA MineGoodLater ==
    ASSUME NEW pend, NEW next, NEW reqs, NEW pend2, NEW next2, NEW reqs2,
           Later(pend2, next2, reqs2, pend, next, reqs),
           NEW rq \in Seq(OwnEntry), NEW prop \in SUBSET OwnEntry, NEW l \in Seq(Entry),
           NEW queue \in Seq(ClosureType),
           MineGood(rq, prop, l, queue, pend, next, reqs)
    PROVE  MineGood(rq, prop, l, queue, pend2, next2, reqs2)
<1>1. \A e \in OwnEntry : e.id \in RequestId
    BY Zenon DEF OwnEntry, Entry
<1>2. ASSUME NEW k \in DOMAIN rq
      PROVE  Mine(rq[k], pend2, next2, reqs2)
  <2>1. rq[k] \in OwnEntry
      OBVIOUS
  <2>2. Mine(rq[k], pend, next, reqs)
      BY Zenon DEF MineGood
  <2> QED BY <1>1, <2>1, <2>2, MineLater
<1>3. ASSUME NEW e \in prop
      PROVE  Mine(e, pend2, next2, reqs2)
  <2>1. Mine(e, pend, next, reqs) /\ e \in OwnEntry
      BY Zenon DEF MineGood
  <2> QED BY <1>1, <2>1, MineLater
<1>4. ASSUME NEW k \in DOMAIN l
      PROVE  IF l[k].node = "self" THEN Mine(l[k], pend2, next2, reqs2) ELSE l[k].req = None
  <2>1. l[k] \in Entry
      OBVIOUS
  <2>2. IF l[k].node = "self" THEN Mine(l[k], pend, next, reqs) ELSE l[k].req = None
      BY <1>4, Zenon DEF MineGood
  <2>3. CASE l[k].node = "self"
    <3>1. l[k].id \in RequestId
        BY <2>1, <2>3, Zenon DEF Entry
    <3> QED BY <2>2, <2>3, <3>1, MineLater
  <2> QED BY <2>2, <2>3
<1>5. ASSUME NEW k \in DOMAIN queue, queue[k].kind \in Status
      PROVE  Mine(queue[k].commit, pend2, next2, reqs2)
  <2>1. queue[k] \in ClosureType
      OBVIOUS
  <2>2. queue[k].commit.id \in RequestId
      BY <1>1, <1>5, <2>1, ClosureParts, Zenon
  <2>3. Mine(queue[k].commit, pend, next, reqs)
      BY <1>5, Zenon DEF MineGood
  <2> QED BY <2>2, <2>3, MineLater
<1> QED BY <1>2, <1>3, <1>4, <1>5, Zenon DEF MineGood

(* Every closure of q2 is one of q; those that two places of q2 hold are   *)
(* those of two places of q.                                               *)
Among(q2, q) ==
    /\ \A k \in DOMAIN q2 : \E j \in DOMAIN q : q2[k] = q[j]
    /\ \A j, k \in DOMAIN q2 : j # k =>
          \E h, i \in DOMAIN q : h # i /\ q2[j] = q[h] /\ q2[k] = q[i]

LEMMA TailAmong ==
    ASSUME NEW S, NEW q \in Seq(S), q # <<>>
    PROVE  Among(Tail(q), q) /\ 1 \in DOMAIN q /\ \A k \in DOMAIN Tail(q) : k + 1 \in DOMAIN q /\ k + 1 # 1 /\ Tail(q)[k] = q[k + 1]
<1>1. /\ 1 \in DOMAIN q
      /\ \A k \in DOMAIN Tail(q) : k \in Nat /\ k + 1 \in DOMAIN q /\ k + 1 # 1 /\ Tail(q)[k] = q[k + 1]
    OBVIOUS
<1>2. \A k \in DOMAIN Tail(q) : \E j \in DOMAIN q : Tail(q)[k] = q[j]
    BY <1>1, Zenon
<1>3. ASSUME NEW j \in DOMAIN Tail(q), NEW k \in DOMAIN Tail(q), j # k
      PROVE  \E h, i \in DOMAIN q : h # i /\ Tail(q)[j] = q[h] /\ Tail(q)[k] = q[i]
  <2>1. j + 1 # k + 1
      BY <1>1, <1>3
  <2> QED BY <1>1, <2>1, Zenon
<1> QED BY <1>1, <1>2, <1>3, Zenon DEF Among

(* Fewer closures.                                                         *)
LEMMA FewerMine ==
    ASSUME NEW rq, NEW prop, NEW l, NEW q, NEW q2, NEW pend, NEW next, NEW reqs,
           MineGood(rq, prop, l, q, pend, next, reqs), Among(q2, q)
    PROVE  MineGood(rq, prop, l, q2, pend, next, reqs)
<1>1. ASSUME NEW k \in DOMAIN q2, q2[k].kind \in Status
      PROVE  Mine(q2[k].commit, pend, next, reqs)
    BY <1>1, Zenon DEF MineGood, Among
<1> QED BY <1>1, Zenon DEF MineGood

LEMMA FewerReads ==
    ASSUME NEW l, NEW q, NEW q2, NEW n, ReadsGood(q, l, n), Among(q2, q)
    PROVE  ReadsGood(q2, l, n)
<1>1. ASSUME NEW k \in DOMAIN q2, q2[k].kind = "read_commit"
      PROVE  \E i \in 1..n : q2[k].commit = l[i]
  <2>1. PICK j \in DOMAIN q : q2[k] = q[j]
      BY Zenon DEF Among
  <2>2. \E i \in 1..n : q[j].commit = l[i]
      BY <1>1, <2>1, Zenon DEF ReadsGood
  <2> QED BY <2>1, <2>2
<1>2. ASSUME NEW j \in DOMAIN q2, NEW k \in DOMAIN q2,
             q2[j].kind = "read_commit", q2[k].kind = "read_commit",
             q2[j].commit.req = q2[k].commit.req, q2[j].commit.req # None, j # k
      PROVE  FALSE
  <2>1. PICK h, i \in DOMAIN q : h # i /\ q2[j] = q[h] /\ q2[k] = q[i]
      BY <1>2, Zenon DEF Among
  <2> QED BY <1>2, <2>1, Zenon DEF ReadsGood
<1> QED BY <1>1, <1>2, Zenon DEF ReadsGood

LEMMA FewerOk ==
    ASSUME NEW R, NEW reqs, NEW l, NEW q, NEW q2, NEW n, OkGood(R, reqs, q, l, n), Among(q2, q)
    PROVE  OkGood(R, reqs, q2, l, n)
<1> SUFFICES ASSUME NEW r \in DOMAIN reqs, reqs[r].cmd.op = "set",
                    AnsweredIn(R, reqs[r].session, r, "OK")
             PROVE  /\ \E i \in 1..n : l[i].req = r
                    /\ \A k \in DOMAIN q2 : q2[k].kind = "read_commit" => q2[k].commit.req # r
    BY Zenon DEF OkGood
<1>1. /\ \E i \in 1..n : l[i].req = r
      /\ \A k \in DOMAIN q : q[k].kind = "read_commit" => q[k].commit.req # r
    BY Zenon DEF OkGood
<1>2. ASSUME NEW k \in DOMAIN q2, q2[k].kind = "read_commit"
      PROVE  q2[k].commit.req # r
  <2>1. PICK j \in DOMAIN q : q2[k] = q[j]
      BY Zenon DEF Among
  <2> QED BY <1>1, <1>2, <2>1, Zenon
<1> QED BY <1>1, <1>2, Zenon

(* An answer OK that is new is the one that was just given.                *)
LEMMA OkFrom ==
    ASSUME NEW R, NEW R2, NEW c, NEW a, NEW text, OneMore(R2, R, c, Reply(a, text)),
           NEW d \in Session, NEW r, AnsweredIn(R2, d, r, "OK")
    PROVE  AnsweredIn(R, d, r, "OK") \/ (r = a /\ text = "OK")
<1>1. PICK i \in DOMAIN R2[d] : R2[d][i] = Reply(r, "OK")
    BY Zenon DEF AnsweredIn
<1>2. CASE i \in DOMAIN R[d] /\ R2[d][i] = R[d][i]
    BY <1>1, <1>2, Zenon DEF AnsweredIn
<1>3. CASE R2[d][i] = Reply(a, text)
  <2>1. Reply(r, "OK") = Reply(a, text)
      BY <1>1, <1>3
  <2>2. /\ Reply(r, "OK").req = r /\ Reply(r, "OK").text = "OK"
        /\ Reply(a, text).req = a /\ Reply(a, text).text = text
      BY Zenon DEF Reply
  <2> QED BY <2>1, <2>2, Zenon
<1> QED BY <1>2, <1>3, Zenon DEF OneMore

LEMMA SessionOf ==
    ASSUME NEW reqs \in Seq(RequestType), NEW k \in DOMAIN reqs
    PROVE  reqs[k].session \in Session /\ k \in Nat /\ k # None
<1>1. reqs[k] \in RequestType /\ k \in Nat /\ k # 0
    OBVIOUS
<1> QED BY <1>1, Zenon DEF RequestType, None

LEMMA OwnSame ==
    ASSUME OwnInv, AllReplies' = AllReplies,
           UNCHANGED <<pending, next_request_id, redis_queue, raft_queue, log, proposed,
                       applied_index, request, restarts>>
    PROVE  OwnInv'
BY Zenon DEF OwnInv

LEMMA ReadOwn ==
    ASSUME NEW c \in Session, TypeInv, AnswerInv, OwnInv, Read(c) PROVE OwnInv'
<1> DEFINE n == Len(request)
<1>1. /\ UNCHANGED <<pending, next_request_id, redis_queue, raft_queue, log, proposed,
                     applied_index, restarts>>
      /\ OneMore(AllReplies', AllReplies, c, Reply(n + 1, "reply"))
    BY ReadAnswer
<1>2. PICK q \in RequestType : request' = Append(request, q)
    BY ReadAnswer
<1>3. /\ request \in Seq(RequestType) /\ raft_queue \in Seq(OwnEntry) /\ proposed \in SUBSET OwnEntry
      /\ log \in Seq(Entry) /\ redis_queue \in Seq(ClosureType)
    BY DEF TypeInv
<1>4. /\ n \in Nat /\ DOMAIN request' = 1..(n + 1) /\ DOMAIN request = 1..n /\ request' \in Seq(RequestType)
      /\ \A k \in DOMAIN request : k \in DOMAIN request' /\ request'[k] = request[k]
    BY <1>2, <1>3
<1> SUFFICES ASSUME restarts = 0
             PROVE  /\ MineGood(raft_queue, proposed, log, redis_queue, pending, next_request_id, request')
                    /\ OnePlace(raft_queue, proposed, log)
                    /\ ReadsGood(redis_queue, log, applied_index)
                    /\ OkGood(AllReplies', request', redis_queue, log, applied_index)
    BY <1>1, Zenon DEF OwnInv
<1>5. /\ MineGood(raft_queue, proposed, log, redis_queue, pending, next_request_id, request)
      /\ OnePlace(raft_queue, proposed, log)
      /\ ReadsGood(redis_queue, log, applied_index)
      /\ OkGood(AllReplies, request, redis_queue, log, applied_index)
    BY Zenon DEF OwnInv
<1>6. Later(pending, next_request_id, request', pending, next_request_id, request)
    BY <1>4, Zenon DEF Later
<1>7. MineGood(raft_queue, proposed, log, redis_queue, pending, next_request_id, request')
    BY <1>3, <1>5, <1>6, MineGoodLater
<1>8. OkGood(AllReplies', request', redis_queue, log, applied_index)
  <2> SUFFICES ASSUME NEW r \in DOMAIN request', request'[r].cmd.op = "set",
                      AnsweredIn(AllReplies', request'[r].session, r, "OK")
               PROVE  /\ \E i \in 1..applied_index : log[i].req = r
                      /\ \A k \in DOMAIN redis_queue :
                            redis_queue[k].kind = "read_commit" => redis_queue[k].commit.req # r
      BY Zenon DEF OkGood
  <2>1. request'[r].session \in Session
      BY <1>4, SessionOf
  <2>2. AnsweredIn(AllReplies, request'[r].session, r, "OK")
      BY <1>1, <2>1, OkFrom
  <2>3. r \in 1..n
    <3>1. PICK i \in DOMAIN AllReplies[request'[r].session] :
            AllReplies[request'[r].session][i] = Reply(r, "OK")
        BY <2>2, Zenon DEF AnsweredIn
    <3>2. Reply(r, "OK").req \in 1..n
        BY <2>1, <3>1, Zenon DEF AnswerInv, AnswerGood
    <3>3. Reply(r, "OK").req = r
        BY Zenon DEF Reply
    <3> QED BY <3>2, <3>3, Zenon
  <2>4. r \in DOMAIN request /\ request'[r] = request[r]
      BY <1>4, <2>3, Zenon
  <2> QED BY <1>5, <2>2, <2>4, Zenon DEF OkGood
<1> QED BY <1>5, <1>7, <1>8

LEMMA WriteOwn ==
    ASSUME NEW c \in Session, NEW cmd \in Command, TypeInv, AnswerInv, OwnInv, Write(c, cmd)
    PROVE  OwnInv'
<1> DEFINE n == Len(request)
           next == next_request_id
           q == [session |-> c, cmd |-> cmd]
           e == Commit("self", next, cmd, n + 1)
<1>1. /\ request' = Append(request, q) /\ next' = next + 1
      /\ pending' = [pending EXCEPT ![next] = n + 1]
      /\ raft_queue' = Append(raft_queue, e)
      /\ UNCHANGED <<redis_queue, log, proposed, applied_index, restarts>>
    BY DEF Write, Arrive, ghost_vars
<1>2. AllReplies' = AllReplies
    BY WriteAnswer
<1>3. /\ request \in Seq(RequestType) /\ raft_queue \in Seq(OwnEntry) /\ proposed \in SUBSET OwnEntry
      /\ log \in Seq(Entry) /\ redis_queue \in Seq(ClosureType) /\ next \in Nat
      /\ pending \in [RequestId -> 0..n]
    BY DEF TypeInv
<1>4. next \in RequestId /\ e \in OwnEntry /\ TypeInv'
    BY WriteTyped
<1>5. e.req = n + 1 /\ e.cmd = q.cmd /\ e.id = next
    BY Zenon DEF Commit
<1>6. q \in RequestType
  <2>1. cmd \in CommandType
      BY RedisAssumption
  <2> QED BY <2>1, Zenon DEF RequestType
<1> HIDE DEF q, e
<1>7. /\ n \in Nat /\ DOMAIN request' = 1..(n + 1) /\ DOMAIN request = 1..n /\ request' \in Seq(RequestType)
      /\ request'[n + 1] = q /\ n + 1 \in DOMAIN request'
      /\ \A k \in DOMAIN request : k \in DOMAIN request' /\ request'[k] = request[k] /\ k # n + 1
      /\ \A k \in DOMAIN request' : k # n + 1 => k \in DOMAIN request
    BY <1>1, <1>3, <1>6
<1>8. /\ Len(raft_queue) + 1 \notin DOMAIN raft_queue
      /\ \A k \in DOMAIN raft_queue : raft_queue'[k] = raft_queue[k]
      /\ raft_queue'[Len(raft_queue) + 1] = e
      /\ \A k \in DOMAIN raft_queue' : k \in DOMAIN raft_queue \/ k = Len(raft_queue) + 1
    BY <1>1, <1>3, <1>4
<1> SUFFICES ASSUME restarts = 0
             PROVE  /\ MineGood(raft_queue', proposed, log, redis_queue, pending', next', request')
                    /\ OnePlace(raft_queue', proposed, log)
                    /\ ReadsGood(redis_queue, log, applied_index)
                    /\ OkGood(AllReplies, request', redis_queue, log, applied_index)
    BY <1>1, <1>2, Zenon DEF OwnInv
<1>9. /\ MineGood(raft_queue, proposed, log, redis_queue, pending, next, request)
      /\ OnePlace(raft_queue, proposed, log)
      /\ ReadsGood(redis_queue, log, applied_index)
      /\ OkGood(AllReplies, request, redis_queue, log, applied_index)
    BY Zenon DEF OwnInv
<1>10. Later(pending', next', request', pending, next, request)
  <2>1. ASSUME NEW id \in RequestId, id < next
        PROVE  id < next' /\ pending'[id] = pending[id]
      BY <1>1, <1>3, <1>4, <2>1 DEF RequestId
  <2> QED BY <1>7, <2>1, Zenon DEF Later
<1>11. MineGood(raft_queue, proposed, log, redis_queue, pending', next', request')
    BY <1>3, <1>9, <1>10, MineGoodLater
<1>12. Mine(e, pending', next', request')
  <2>1. pending'[next] = n + 1 /\ next < next'
      BY <1>1, <1>3, <1>4
  <2> QED BY <1>5, <1>7, <2>1, Zenon DEF Mine
<1>13. MineGood(raft_queue', proposed, log, redis_queue, pending', next', request')
  <2>1. ASSUME NEW k \in DOMAIN raft_queue'
        PROVE  Mine(raft_queue'[k], pending', next', request')
    <3>1. CASE k \in DOMAIN raft_queue
      <4>1. Mine(raft_queue[k], pending', next', request')
          BY <1>11, <3>1, Zenon DEF MineGood
      <4> QED BY <1>8, <3>1, <4>1
    <3>2. CASE k = Len(raft_queue) + 1
        BY <1>8, <1>12, <3>2
    <3> QED BY <1>8, <3>1, <3>2
  <2> QED BY <1>11, <2>1, Zenon DEF MineGood
<1>14. /\ \A k \in DOMAIN raft_queue : raft_queue[k].req # e.req
       /\ \A d \in proposed : d.req # e.req
       /\ \A i \in DOMAIN log : log[i].req # e.req
  <2>1. \A x \in DOMAIN request : x # e.req
      BY <1>5, <1>7
  <2>2. \A i \in DOMAIN log : log[i].req \in DOMAIN request \/ log[i].req = None
      BY <1>9, Zenon DEF MineGood, Mine
  <2>3. None # e.req
      BY <1>5, <1>7 DEF None
  <2>4. \A k \in DOMAIN raft_queue : raft_queue[k].req \in DOMAIN request
      BY <1>9, Zenon DEF MineGood, Mine
  <2>5. \A d \in proposed : d.req \in DOMAIN request
      BY <1>9, Zenon DEF MineGood, Mine
  <2> QED BY <2>1, <2>2, <2>3, <2>4, <2>5, Zenon
<1>15. OnePlace(raft_queue', proposed, log)
  <2>1. ASSUME NEW j \in DOMAIN raft_queue', NEW k \in DOMAIN raft_queue',
               raft_queue'[j].req = raft_queue'[k].req
        PROVE  j = k
    <3>1. CASE j \in DOMAIN raft_queue /\ k \in DOMAIN raft_queue
      <4>1. raft_queue[j].req = raft_queue[k].req
          BY <1>8, <2>1, <3>1
      <4> QED BY <1>9, <3>1, <4>1, ZenonT(60) DEF OnePlace
    <3>2. CASE j \in DOMAIN raft_queue /\ k = Len(raft_queue) + 1
        BY <1>8, <1>14, <2>1, <3>2
    <3>3. CASE k \in DOMAIN raft_queue /\ j = Len(raft_queue) + 1
        BY <1>8, <1>14, <2>1, <3>3
    <3> QED BY <1>8, <3>1, <3>2, <3>3
  <2>2. ASSUME NEW k \in DOMAIN raft_queue'
        PROVE  /\ \A d \in proposed : raft_queue'[k].req # d.req
               /\ \A i \in DOMAIN log : raft_queue'[k].req # log[i].req
    <3>1. CASE k \in DOMAIN raft_queue
      <4>1. raft_queue'[k] = raft_queue[k]
          BY <1>8, <3>1
      <4>2. \A d \in proposed : raft_queue[k].req # d.req
          BY <1>9, <3>1, ZenonT(60) DEF OnePlace
      <4>3. \A i \in DOMAIN log : raft_queue[k].req # log[i].req
          BY <1>9, <3>1, ZenonT(60) DEF OnePlace
      <4> QED BY <4>1, <4>2, <4>3
    <3>2. CASE k = Len(raft_queue) + 1
        BY <1>8, <1>14, <3>2
    <3> QED BY <1>8, <3>1, <3>2
  <2> QED BY <1>9, <2>1, <2>2, Zenon DEF OnePlace
<1>16. OkGood(AllReplies, request', redis_queue, log, applied_index)
  <2> SUFFICES ASSUME NEW r \in DOMAIN request', request'[r].cmd.op = "set",
                      AnsweredIn(AllReplies, request'[r].session, r, "OK")
               PROVE  /\ \E i \in 1..applied_index : log[i].req = r
                      /\ \A k \in DOMAIN redis_queue :
                            redis_queue[k].kind = "read_commit" => redis_queue[k].commit.req # r
      BY Zenon DEF OkGood
  <2>1. request'[r].session \in Session
      BY <1>7, SessionOf
  <2>2. r \in 1..n
    <3>1. PICK i \in DOMAIN AllReplies[request'[r].session] :
            AllReplies[request'[r].session][i] = Reply(r, "OK")
        BY Zenon DEF AnsweredIn
    <3>2. Reply(r, "OK").req \in 1..n
        BY <2>1, <3>1, Zenon DEF AnswerInv, AnswerGood
    <3>3. Reply(r, "OK").req = r
        BY Zenon DEF Reply
    <3> QED BY <3>2, <3>3, Zenon
  <2>3. r \in DOMAIN request /\ request'[r] = request[r]
      BY <1>7, <2>2, Zenon
  <2> QED BY <1>9, <2>3, Zenon DEF OkGood
<1> QED BY <1>9, <1>13, <1>15, <1>16

(* A closure behind the others that is no read_commit, an applied index    *)
(* that is not smaller, and a log that is not shorter.                     *)
LEMMA OtherAppended ==
    ASSUME NEW R, NEW reqs, NEW l, NEW l2, NEW q \in Seq(ClosureType), NEW x \in ClosureType,
           NEW n \in Nat, NEW m \in Nat, n <= m, \A i \in 1..n : l2[i] = l[i],
           x.kind # "read_commit", ReadsGood(q, l, n), OkGood(R, reqs, q, l, n)
    PROVE  ReadsGood(Append(q, x), l2, m) /\ OkGood(R, reqs, Append(q, x), l2, m)
<1> DEFINE q2 == Append(q, x)
<1>1. \A k \in DOMAIN q2 : q2[k].kind = "read_commit" => k \in DOMAIN q /\ q2[k] = q[k]
  <2>1. \A k \in DOMAIN q2 : (k \in DOMAIN q /\ q2[k] = q[k]) \/ q2[k] = x
      OBVIOUS
  <2> HIDE DEF q2
  <2> QED BY <2>1
<1>2. \A i \in 1..n : i \in 1..m
    OBVIOUS
<1> HIDE DEF q2
<1>3. ASSUME NEW k \in DOMAIN q2, q2[k].kind = "read_commit"
      PROVE  \E i \in 1..m : q2[k].commit = l2[i]
  <2>1. k \in DOMAIN q /\ q2[k] = q[k]
      BY <1>1, <1>3
  <2>2. PICK i \in 1..n : q[k].commit = l[i]
      BY <1>3, <2>1, Zenon DEF ReadsGood
  <2> QED BY <1>2, <2>1, <2>2, Zenon
<1>4. ASSUME NEW j \in DOMAIN q2, NEW k \in DOMAIN q2,
             q2[j].kind = "read_commit", q2[k].kind = "read_commit",
             q2[j].commit.req = q2[k].commit.req, q2[j].commit.req # None
      PROVE  j = k
    BY <1>1, <1>4, Zenon DEF ReadsGood
<1>5. ASSUME NEW r \in DOMAIN reqs, reqs[r].cmd.op = "set", AnsweredIn(R, reqs[r].session, r, "OK")
      PROVE  /\ \E i \in 1..m : l2[i].req = r
             /\ \A k \in DOMAIN q2 : q2[k].kind = "read_commit" => q2[k].commit.req # r
  <2>1. /\ \E i \in 1..n : l[i].req = r
        /\ \A k \in DOMAIN q : q[k].kind = "read_commit" => q[k].commit.req # r
      BY <1>5, Zenon DEF OkGood
  <2>2. PICK i \in 1..n : l[i].req = r
      BY <2>1
  <2>3. \E h \in 1..m : l2[h].req = r
      BY <1>2, <2>2, Zenon
  <2> QED BY <1>1, <2>1, <2>3, Zenon
<1>6. ReadsGood(q2, l2, m)
    BY <1>3, <1>4, Zenon DEF ReadsGood
<1>7. OkGood(R, reqs, q2, l2, m)
    BY <1>5, Zenon DEF OkGood
<1> QED BY <1>6, <1>7 DEF q2

LEMMA ProposeOwn ==
    ASSUME NEW ok \in BOOLEAN, TypeInv, OwnInv, Propose(ok) PROVE OwnInv'
<1> DEFINE e == Head(raft_queue)
           x == StatusOf(ok, e)
<1>1. /\ AllReplies' = AllReplies /\ raft_queue # <<>> /\ e \in OwnEntry /\ e = raft_queue[1]
      /\ redis_queue' = Append(redis_queue, x)
    BY ProposeTyped
<1>2. /\ raft_queue' = Tail(raft_queue)
      /\ proposed' = IF ok THEN proposed \cup {e} ELSE proposed
      /\ UNCHANGED <<pending, next_request_id, log, applied_index, request, restarts>>
    BY DEF Propose, ghost_vars
<1>3. /\ raft_queue \in Seq(OwnEntry) /\ redis_queue \in Seq(ClosureType) /\ applied_index \in Nat
    BY DEF TypeInv
<1>4. x \in ClosureType /\ x.kind \in Status /\ x.commit = e /\ x.kind # "read_commit"
  <2>1. x \in ClosureType /\ x.kind \in Status /\ x.commit = e
      BY <1>1, StatusOfTyped
  <2> HIDE DEF x
  <2> QED BY <2>1, Zenon DEF Status
<1> HIDE DEF e, x
<1>5. /\ 1 \in DOMAIN raft_queue
      /\ \A k \in DOMAIN raft_queue' : k + 1 \in DOMAIN raft_queue /\ k + 1 # 1 /\ raft_queue'[k] = raft_queue[k + 1]
      /\ \A j, k \in DOMAIN raft_queue' : j + 1 = k + 1 => j = k
  <2>1. /\ 1 \in DOMAIN raft_queue
        /\ \A k \in DOMAIN raft_queue' : k + 1 \in DOMAIN raft_queue /\ k + 1 # 1 /\ raft_queue'[k] = raft_queue[k + 1]
      BY <1>1, <1>2, <1>3, TailAmong
  <2>2. \A k \in DOMAIN raft_queue' : k \in Nat
      BY <1>1, <1>2, <1>3
  <2>3. \A j, k \in Nat : j + 1 = k + 1 => j = k
      OBVIOUS
  <2> QED BY <2>1, <2>2, <2>3, Zenon
<1>6. \A k \in DOMAIN redis_queue' : (k \in DOMAIN redis_queue /\ redis_queue'[k] = redis_queue[k]) \/ redis_queue'[k] = x
    BY <1>1, <1>3, <1>4
<1>7. \A d \in proposed' : d \in proposed \/ d = e
    BY <1>2
<1> SUFFICES ASSUME restarts = 0
             PROVE  /\ MineGood(raft_queue', proposed', log, redis_queue', pending, next_request_id, request)
                    /\ OnePlace(raft_queue', proposed', log)
                    /\ ReadsGood(redis_queue', log, applied_index)
                    /\ OkGood(AllReplies, request, redis_queue', log, applied_index)
    BY <1>1, <1>2, Zenon DEF OwnInv
<1>8. /\ MineGood(raft_queue, proposed, log, redis_queue, pending, next_request_id, request)
      /\ OnePlace(raft_queue, proposed, log)
      /\ ReadsGood(redis_queue, log, applied_index)
      /\ OkGood(AllReplies, request, redis_queue, log, applied_index)
    BY Zenon DEF OwnInv
<1>9. Mine(e, pending, next_request_id, request)
    BY <1>1, <1>5, <1>8, Zenon DEF MineGood
<1>10. MineGood(raft_queue', proposed', log, redis_queue', pending, next_request_id, request)
  <2>1. ASSUME NEW k \in DOMAIN raft_queue'
        PROVE  Mine(raft_queue'[k], pending, next_request_id, request)
    <3>1. k + 1 \in DOMAIN raft_queue /\ raft_queue'[k] = raft_queue[k + 1]
        BY <1>5
    <3>2. Mine(raft_queue[k + 1], pending, next_request_id, request)
        BY <1>8, <3>1, Zenon DEF MineGood
    <3> QED BY <3>1, <3>2
  <2>2. ASSUME NEW d \in proposed'
        PROVE  Mine(d, pending, next_request_id, request)
      BY <1>7, <1>8, <1>9, Zenon DEF MineGood
  <2>3. ASSUME NEW k \in DOMAIN redis_queue', redis_queue'[k].kind \in Status
        PROVE  Mine(redis_queue'[k].commit, pending, next_request_id, request)
    <3>1. CASE k \in DOMAIN redis_queue /\ redis_queue'[k] = redis_queue[k]
        BY <1>8, <2>3, <3>1, Zenon DEF MineGood
    <3>2. CASE redis_queue'[k] = x
        BY <1>4, <1>9, <3>2
    <3> QED BY <1>6, <3>1, <3>2
  <2> QED BY <1>8, <2>1, <2>2, <2>3, Zenon DEF MineGood
<1>11. OnePlace(raft_queue', proposed', log)
  <2>1. \A k \in DOMAIN raft_queue' : raft_queue'[k].req # e.req
    <3>1. \A k \in DOMAIN raft_queue : k # 1 => raft_queue[k].req # raft_queue[1].req
        BY <1>5, <1>8, Zenon DEF OnePlace
    <3> QED BY <1>1, <1>5, <3>1
  <2>2. (\A d \in proposed : e.req # d.req) /\ (\A i \in DOMAIN log : e.req # log[i].req)
      BY <1>1, <1>5, <1>8, Zenon DEF OnePlace
  <2>3. ASSUME NEW j \in DOMAIN raft_queue', NEW k \in DOMAIN raft_queue',
               raft_queue'[j].req = raft_queue'[k].req
        PROVE  j = k
    <3>1. j + 1 = k + 1
        BY <1>5, <1>8, <2>3 DEF OnePlace
    <3> QED BY <1>5, <3>1
  <2>4. ASSUME NEW k \in DOMAIN raft_queue', NEW d \in proposed'
        PROVE  raft_queue'[k].req # d.req
    <3>1. CASE d \in proposed
        BY <1>5, <1>8, <3>1 DEF OnePlace
    <3> QED BY <1>7, <2>1, <3>1
  <2>5. ASSUME NEW k \in DOMAIN raft_queue', NEW i \in DOMAIN log
        PROVE  raft_queue'[k].req # log[i].req
      BY <1>5, <1>8 DEF OnePlace
  <2>6. ASSUME NEW c \in proposed', NEW d \in proposed', c.req = d.req
        PROVE  c = d
      BY <1>7, <1>8, <2>2, <2>6 DEF OnePlace
  <2>7. ASSUME NEW d \in proposed', NEW i \in DOMAIN log
        PROVE  d.req # log[i].req
      BY <1>7, <1>8, <2>2 DEF OnePlace
  <2> QED BY <1>8, <2>3, <2>4, <2>5, <2>6, <2>7, Zenon DEF OnePlace
<1>12. ReadsGood(redis_queue', log, applied_index) /\ OkGood(AllReplies, request, redis_queue', log, applied_index)
  <2>1. applied_index <= applied_index
      BY <1>3
  <2> QED BY <1>1, <1>3, <1>4, <1>8, <2>1, OtherAppended
<1> QED BY <1>10, <1>11, <1>12

LEMMA CommitEntryOwn ==
    ASSUME NEW e \in Committable, TypeInv, StoreInv, OwnInv, CommitEntry(e) PROVE OwnInv'
<1>1. /\ log' = Append(log, e) /\ proposed' = proposed \ {e}
      /\ UNCHANGED <<pending, next_request_id, redis_queue, raft_queue, applied_index, request, restarts>>
    BY DEF CommitEntry, ghost_vars
<1>2. e \in Entry /\ AllReplies' = AllReplies
    BY CommitEntryTyped
<1>3. log \in Seq(Entry) /\ applied_index \in Nat /\ applied_index <= Len(log)
    BY DEF TypeInv, StoreInv
<1>4. /\ \A i \in DOMAIN log' : (i \in DOMAIN log /\ log'[i] = log[i]) \/ (i = Len(log) + 1 /\ log'[i] = e)
      /\ \A i \in 1..applied_index : log'[i] = log[i]
    BY <1>1, <1>2, <1>3
<1> SUFFICES ASSUME restarts = 0
             PROVE  /\ MineGood(raft_queue, proposed', log', redis_queue, pending, next_request_id, request)
                    /\ OnePlace(raft_queue, proposed', log')
                    /\ ReadsGood(redis_queue, log', applied_index)
                    /\ OkGood(AllReplies, request, redis_queue, log', applied_index)
    BY <1>1, <1>2, Zenon DEF OwnInv
<1>5. /\ MineGood(raft_queue, proposed, log, redis_queue, pending, next_request_id, request)
      /\ OnePlace(raft_queue, proposed, log)
      /\ ReadsGood(redis_queue, log, applied_index)
      /\ OkGood(AllReplies, request, redis_queue, log, applied_index)
    BY Zenon DEF OwnInv
<1>6. \/ e \in proposed /\ e.node = "self"
      \/ e.node # "self" /\ e.req = None
  <2>1. CASE e \in proposed
    <3>1. e \in OwnEntry
        BY <2>1, Zenon DEF TypeInv
    <3> QED BY <2>1, <3>1, Zenon DEF OwnEntry
  <2>2. CASE e = NoOp
      BY <2>2, NoOpEntry, Zenon
  <2>3. ASSUME NEW o \in OtherCommit, e = Commit("other", o[1], o[2], None)
        PROVE  e.node # "self" /\ e.req = None
    <3>1. e.node = "other" /\ e.req = None
        BY <2>3, Zenon DEF Commit
    <3> QED BY <3>1
  <2> QED BY <2>1, <2>2, <2>3 DEF Committable
<1>7. IF e.node = "self" THEN Mine(e, pending, next_request_id, request) ELSE e.req = None
    BY <1>5, <1>6, Zenon DEF MineGood
<1>8. MineGood(raft_queue, proposed', log', redis_queue, pending, next_request_id, request)
  <2>1. ASSUME NEW i \in DOMAIN log'
        PROVE  IF log'[i].node = "self" THEN Mine(log'[i], pending, next_request_id, request)
               ELSE log'[i].req = None
    <3>1. CASE i \in DOMAIN log /\ log'[i] = log[i]
      <4>1. IF log[i].node = "self" THEN Mine(log[i], pending, next_request_id, request)
            ELSE log[i].req = None
          BY <1>5, <3>1, Zenon DEF MineGood
      <4> QED BY <3>1, <4>1
    <3>2. CASE log'[i] = e
        BY <1>7, <3>2
    <3> QED BY <1>4, <3>1, <3>2
  <2> QED BY <1>1, <1>5, <2>1, Zenon DEF MineGood
<1>9. \A k \in DOMAIN raft_queue : raft_queue[k].req # None
  <2>1. \A k \in DOMAIN raft_queue : raft_queue[k].req \in DOMAIN request
      BY <1>5, Zenon DEF MineGood, Mine
  <2>2. \A k \in DOMAIN request : k # None
      BY SessionOf DEF TypeInv
  <2> QED BY <2>1, <2>2
<1>10. \A d \in proposed : d.req # None
  <2>1. \A d \in proposed : d.req \in DOMAIN request
      BY <1>5, Zenon DEF MineGood, Mine
  <2>2. \A k \in DOMAIN request : k # None
      BY SessionOf DEF TypeInv
  <2> QED BY <2>1, <2>2
<1>11. OnePlace(raft_queue, proposed', log')
  <2>1. ASSUME NEW k \in DOMAIN raft_queue, NEW i \in DOMAIN log'
        PROVE  raft_queue[k].req # log'[i].req
    <3>1. raft_queue[k].req # e.req
        BY <1>5, <1>6, <1>9 DEF OnePlace
    <3> QED BY <1>4, <1>5, <3>1 DEF OnePlace
  <2>2. ASSUME NEW d \in proposed', NEW i \in DOMAIN log'
        PROVE  d.req # log'[i].req
    <3>1. d \in proposed /\ d # e
        BY <1>1
    <3>2. d.req # e.req
        BY <1>5, <1>6, <1>10, <3>1 DEF OnePlace
    <3> QED BY <1>4, <1>5, <3>1, <3>2 DEF OnePlace
  <2>3. ASSUME NEW i \in DOMAIN log', NEW j \in DOMAIN log', log'[i].req = log'[j].req, log'[i].req # None
        PROVE  i = j
    <3>1. e.req # None => \A h \in DOMAIN log : log[h].req # e.req
        BY <1>5, <1>6 DEF OnePlace
    <3>2. CASE i \in DOMAIN log /\ log'[i] = log[i] /\ j \in DOMAIN log /\ log'[j] = log[j]
        BY <1>5, <2>3, <3>2 DEF OnePlace
    <3>3. CASE i = Len(log) + 1 /\ log'[i] = e
        BY <1>4, <2>3, <3>1, <3>3
    <3>4. CASE j = Len(log) + 1 /\ log'[j] = e
        BY <1>4, <2>3, <3>1, <3>4
    <3> QED BY <1>4, <3>2, <3>3, <3>4
  <2> QED BY <1>1, <1>5, <2>1, <2>2, <2>3, Zenon DEF OnePlace
<1>12. ReadsGood(redis_queue, log', applied_index)
  <2>1. ASSUME NEW k \in DOMAIN redis_queue, redis_queue[k].kind = "read_commit"
        PROVE  \E i \in 1..applied_index : redis_queue[k].commit = log'[i]
    <3>1. \E i \in 1..applied_index : redis_queue[k].commit = log[i]
        BY <1>5, <2>1, Zenon DEF ReadsGood
    <3> QED BY <1>4, <3>1
  <2> QED BY <1>5, <2>1, Zenon DEF ReadsGood
<1>13. OkGood(AllReplies, request, redis_queue, log', applied_index)
  <2> SUFFICES ASSUME NEW r \in DOMAIN request, request[r].cmd.op = "set",
                      AnsweredIn(AllReplies, request[r].session, r, "OK")
               PROVE  /\ \E i \in 1..applied_index : log'[i].req = r
                      /\ \A k \in DOMAIN redis_queue :
                            redis_queue[k].kind = "read_commit" => redis_queue[k].commit.req # r
      BY Zenon DEF OkGood
  <2>1. /\ \E i \in 1..applied_index : log[i].req = r
        /\ \A k \in DOMAIN redis_queue :
              redis_queue[k].kind = "read_commit" => redis_queue[k].commit.req # r
      BY <1>5, Zenon DEF OkGood
  <2> QED BY <1>4, <2>1
<1> QED BY <1>8, <1>11, <1>12, <1>13

(* The closures p of the entries behind the applied index n, up to m.      *)
LEMMA ReadsPosted ==
    ASSUME NEW R, NEW reqs \in Seq(RequestType), NEW l \in Seq(Entry), NEW rq, NEW prop,
           NEW q \in Seq(ClosureType), NEW p, NEW n \in Nat, NEW m \in Nat, n < m, m <= Len(l),
           ReadsOf(p, l, n, m), OnePlace(rq, prop, l),
           ReadsGood(q, l, n), OkGood(R, reqs, q, l, n)
    PROVE  ReadsGood(q \o p, l, m) /\ OkGood(R, reqs, q \o p, l, m)
<1> DEFINE s == q \o p
<1>1. /\ p \in Seq(ClosureType)
      /\ \A k \in DOMAIN p : \E i \in (n + 1)..m : p[k].commit = l[i]
      /\ \A j, k \in DOMAIN p : j < k =>
            \E h, i \in (n + 1)..m : h < i /\ p[j].commit = l[h] /\ p[k].commit = l[i]
  <2>1. \A i : read_commit(l[i]).commit = l[i]
      BY Zenon DEF read_commit, Closure
  <2>2. ASSUME NEW k \in DOMAIN p
        PROVE  \E i \in (n + 1)..m : p[k].commit = l[i]
    <3>1. PICK i \in (n + 1)..m : p[k] = read_commit(l[i])
        BY Zenon DEF ReadsOf
    <3> QED BY <2>1, <3>1, Zenon
  <2>3. ASSUME NEW j \in DOMAIN p, NEW k \in DOMAIN p, j < k
        PROVE  \E h, i \in (n + 1)..m : h < i /\ p[j].commit = l[h] /\ p[k].commit = l[i]
    <3>1. PICK h, i \in (n + 1)..m : h < i /\ p[j] = read_commit(l[h]) /\ p[k] = read_commit(l[i])
        BY <2>3, Zenon DEF ReadsOf
    <3> QED BY <2>1, <3>1, Zenon
  <2>4. p \in Seq(ClosureType)
      BY Zenon DEF ReadsOf
  <2> QED BY <2>2, <2>3, <2>4, Zenon
<1>2. /\ \A i \in 1..n : i \in 1..m /\ i \in DOMAIN l
      /\ \A i \in (n + 1)..m : i \in 1..m /\ i \in DOMAIN l /\ i \notin 1..n
    OBVIOUS
<1>3. \A h, i \in DOMAIN l : l[h].req = l[i].req /\ l[h].req # None => h = i
    BY Zenon DEF OnePlace
<1>4. \A k \in DOMAIN s :
        \/ k \in DOMAIN q /\ s[k] = q[k]
        \/ k - Len(q) \in DOMAIN p /\ s[k] = p[k - Len(q)] /\ k \in Nat
    BY <1>1
<1> HIDE DEF s
<1>5. ASSUME NEW k \in DOMAIN s, s[k].kind = "read_commit"
      PROVE  \E i \in 1..m : s[k].commit = l[i]
  <2>1. CASE k \in DOMAIN q /\ s[k] = q[k]
    <3>1. PICK i \in 1..n : q[k].commit = l[i]
        BY <1>5, <2>1, Zenon DEF ReadsGood
    <3> QED BY <1>2, <2>1, <3>1, Zenon
  <2>2. CASE k - Len(q) \in DOMAIN p /\ s[k] = p[k - Len(q)]
    <3>1. PICK i \in (n + 1)..m : s[k].commit = l[i]
        BY <1>1, <2>2, Zenon
    <3> QED BY <1>2, <3>1, Zenon
  <2> QED BY <1>4, <2>1, <2>2
<1>6. ASSUME NEW j \in DOMAIN s, NEW k \in DOMAIN s, j \in DOMAIN q, s[j] = q[j],
             k - Len(q) \in DOMAIN p, s[k] = p[k - Len(q)], s[j].kind = "read_commit"
      PROVE  s[j].commit.req = s[k].commit.req => s[j].commit.req = None
  <2>1. PICK i \in 1..n : s[j].commit = l[i]
      BY <1>6, Zenon DEF ReadsGood
  <2>2. PICK h \in (n + 1)..m : s[k].commit = l[h]
      BY <1>1, <1>6, Zenon
  <2> QED BY <1>2, <1>3, <2>1, <2>2, Zenon
<1>7. ASSUME NEW j \in DOMAIN p, NEW k \in DOMAIN p, p[j].commit.req = p[k].commit.req,
             p[j].commit.req # None
      PROVE  j = k
  <2>1. j \in Int /\ k \in Int
      BY <1>1
  <2>2. ASSUME NEW a \in DOMAIN p, NEW b \in DOMAIN p, p[a].commit.req = p[b].commit.req,
               p[a].commit.req # None, a < b
        PROVE  FALSE
    <3>1. PICK h, i \in (n + 1)..m : h < i /\ p[a].commit = l[h] /\ p[b].commit = l[i]
        BY <1>1, <2>2, Zenon
    <3>2. h = i
        BY <1>2, <1>3, <2>2, <3>1
    <3> QED BY <3>1, <3>2
  <2>3. ~(j < k) /\ ~(k < j)
      BY <1>7, <2>2
  <2> QED BY <2>1, <2>3
<1>8. ASSUME NEW j \in DOMAIN s, NEW k \in DOMAIN s, s[j].kind = "read_commit", s[k].kind = "read_commit",
             s[j].commit.req = s[k].commit.req, s[j].commit.req # None
      PROVE  j = k
  <2>1. CASE j \in DOMAIN q /\ s[j] = q[j] /\ k \in DOMAIN q /\ s[k] = q[k]
      BY <1>8, <2>1, Zenon DEF ReadsGood
  <2>2. CASE j \in DOMAIN q /\ s[j] = q[j] /\ k - Len(q) \in DOMAIN p /\ s[k] = p[k - Len(q)]
      BY <1>6, <1>8, <2>2, Zenon
  <2>3. CASE k \in DOMAIN q /\ s[k] = q[k] /\ j - Len(q) \in DOMAIN p /\ s[j] = p[j - Len(q)]
      BY <1>6, <1>8, <2>3
  <2>4. CASE /\ j - Len(q) \in DOMAIN p /\ s[j] = p[j - Len(q)] /\ j \in Nat
             /\ k - Len(q) \in DOMAIN p /\ s[k] = p[k - Len(q)] /\ k \in Nat
    <3>1. j - Len(q) = k - Len(q)
        BY <1>7, <1>8, <2>4
    <3>2. Len(q) \in Nat
        OBVIOUS
    <3> QED BY <2>4, <3>1, <3>2
  <2> QED BY <1>4, <2>1, <2>2, <2>3, <2>4
<1>9. ReadsGood(s, l, m)
    BY <1>5, <1>8, Zenon DEF ReadsGood
<1>10. ASSUME NEW r \in DOMAIN reqs, reqs[r].cmd.op = "set", AnsweredIn(R, reqs[r].session, r, "OK")
       PROVE  /\ \E i \in 1..m : l[i].req = r
              /\ \A k \in DOMAIN s : s[k].kind = "read_commit" => s[k].commit.req # r
  <2>1. /\ \E i \in 1..n : l[i].req = r
        /\ \A k \in DOMAIN q : q[k].kind = "read_commit" => q[k].commit.req # r
      BY <1>10, Zenon DEF OkGood
  <2>2. PICK i \in 1..n : l[i].req = r
      BY <2>1
  <2>3. r # None
      BY SessionOf
  <2>4. ASSUME NEW k \in DOMAIN s, s[k].kind = "read_commit"
        PROVE  s[k].commit.req # r
    <3>1. CASE k \in DOMAIN q /\ s[k] = q[k]
        BY <2>1, <2>4, <3>1
    <3>2. CASE k - Len(q) \in DOMAIN p /\ s[k] = p[k - Len(q)]
      <4>1. PICK h \in (n + 1)..m : s[k].commit = l[h]
          BY <1>1, <3>2, Zenon
      <4> QED BY <1>2, <1>3, <2>2, <2>3, <4>1
    <3> QED BY <1>4, <3>1, <3>2
  <2> QED BY <1>2, <2>2, <2>4, Zenon
<1>11. OkGood(R, reqs, s, l, m)
    BY <1>10, Zenon DEF OkGood
<1> QED BY <1>9, <1>11 DEF s

LEMMA PublishOwn ==
    ASSUME NEW n, TypeInv, StoreInv, OwnInv, Publish(n) PROVE OwnInv'
<1>1. applied_index <= Len(log)
    BY DEF StoreInv
<1>2. /\ AllReplies' = AllReplies /\ n \in Nat /\ applied_index < n /\ n <= Len(log) /\ applied_index' = n
      /\ UNCHANGED <<pending, next_request_id, raft_queue, log, proposed, request, restarts>>
    BY <1>1, PublishTyped
<1>3. PICK p :
        /\ ReadsOf(p[n], log, applied_index, n)
        /\ redis_queue' = redis_queue \o p[n] \/ redis_queue' = Append(redis_queue \o p[n], GetSnapshot)
    BY <1>1, PublishTyped
<1>4. /\ log \in Seq(Entry) /\ applied_index \in Nat /\ redis_queue \in Seq(ClosureType)
      /\ request \in Seq(RequestType)
    BY DEF TypeInv
<1> DEFINE q == redis_queue \o p[n]
<1>5. p[n] \in Seq(ClosureType) /\ \A k \in DOMAIN p[n] : p[n][k].kind = "read_commit"
  <2>1. \A i : read_commit(log[i]).kind = "read_commit"
      BY Zenon DEF read_commit, Closure
  <2> QED BY <1>3, <2>1, Zenon DEF ReadsOf
<1>6. /\ q \in Seq(ClosureType)
      /\ \A k \in DOMAIN q : q[k].kind \in Status => k \in DOMAIN redis_queue /\ q[k] = redis_queue[k]
  <2>1. q \in Seq(ClosureType)
      BY <1>4, <1>5, ConcatProperties
  <2>2. \A k \in DOMAIN q :
           \/ k \in DOMAIN redis_queue /\ q[k] = redis_queue[k]
           \/ k - Len(redis_queue) \in DOMAIN p[n] /\ q[k] = p[n][k - Len(redis_queue)]
    <3>1. \A a, b \in Seq(ClosureType) : \A k \in DOMAIN (a \o b) :
             \/ k \in DOMAIN a /\ (a \o b)[k] = a[k]
             \/ k - Len(a) \in DOMAIN b /\ (a \o b)[k] = b[k - Len(a)]
        OBVIOUS
    <3> QED BY <1>4, <1>5, <3>1, Zenon
  <2> HIDE DEF q
  <2> QED BY <1>5, <2>1, <2>2 DEF Status
<1> HIDE DEF q
<1> SUFFICES ASSUME restarts = 0
             PROVE  /\ MineGood(raft_queue, proposed, log, redis_queue', pending, next_request_id, request)
                    /\ OnePlace(raft_queue, proposed, log)
                    /\ ReadsGood(redis_queue', log, n)
                    /\ OkGood(AllReplies, request, redis_queue', log, n)
    BY <1>2, Zenon DEF OwnInv
<1>7. /\ MineGood(raft_queue, proposed, log, redis_queue, pending, next_request_id, request)
      /\ OnePlace(raft_queue, proposed, log)
      /\ ReadsGood(redis_queue, log, applied_index)
      /\ OkGood(AllReplies, request, redis_queue, log, applied_index)
    BY Zenon DEF OwnInv
<1>8. ReadsGood(q, log, n) /\ OkGood(AllReplies, request, q, log, n)
    BY <1>2, <1>3, <1>4, <1>7, ReadsPosted DEF q
<1>9. CASE redis_queue' = q
  <2>1. MineGood(raft_queue, proposed, log, q, pending, next_request_id, request)
      BY <1>6, <1>7, Zenon DEF MineGood
  <2> QED BY <1>7, <1>8, <1>9, <2>1
<1>10. CASE redis_queue' = Append(q, GetSnapshot)
  <2>1. GetSnapshot \in ClosureType /\ GetSnapshot.kind # "read_commit" /\ GetSnapshot.kind \notin Status
      BY GetSnapshotClosure DEF Status
  <2>2. n <= n /\ \A i \in 1..n : log[i] = log[i]
      BY <1>2
  <2>3. ReadsGood(redis_queue', log, n) /\ OkGood(AllReplies, request, redis_queue', log, n)
      BY <1>2, <1>6, <1>8, <1>10, <2>1, <2>2, OtherAppended
  <2>4. \A k \in DOMAIN redis_queue' : redis_queue'[k].kind \in Status =>
            k \in DOMAIN redis_queue /\ redis_queue'[k] = redis_queue[k]
    <3>1. \A k \in DOMAIN redis_queue' :
             (k \in DOMAIN q /\ redis_queue'[k] = q[k]) \/ redis_queue'[k] = GetSnapshot
        BY <1>6, <1>10, <2>1
    <3> QED BY <1>6, <2>1, <3>1
  <2>5. MineGood(raft_queue, proposed, log, redis_queue', pending, next_request_id, request)
      BY <1>7, <2>4, Zenon DEF MineGood
  <2> QED BY <1>7, <2>3, <2>5
<1> QED BY <1>3, <1>9, <1>10 DEF q

LEMMA PublishSnapshotOwn ==
    ASSUME NEW n, TypeInv, StoreInv, OwnInv, PublishSnapshot(n) PROVE OwnInv'
<1> DEFINE x == Recover(snapshot'.map)
<1>1. applied_index <= Len(log)
    BY DEF StoreInv
<1>2. /\ AllReplies' = AllReplies /\ n \in Nat /\ applied_index < n /\ applied_index' = n
      /\ UNCHANGED <<pending, next_request_id, raft_queue, log, proposed, request, restarts>>
      /\ snapshot'.map \in MapType /\ redis_queue' = Append(redis_queue, x)
    BY <1>1, PublishSnapshotTyped
<1>3. x \in ClosureType /\ x.kind # "read_commit" /\ x.kind \notin Status
    BY <1>2, RecoverClosure DEF Status
<1>4. applied_index \in Nat /\ redis_queue \in Seq(ClosureType)
    BY DEF TypeInv
<1> HIDE DEF x
<1> SUFFICES ASSUME restarts = 0
             PROVE  /\ MineGood(raft_queue, proposed, log, redis_queue', pending, next_request_id, request)
                    /\ OnePlace(raft_queue, proposed, log)
                    /\ ReadsGood(redis_queue', log, n)
                    /\ OkGood(AllReplies, request, redis_queue', log, n)
    BY <1>2, Zenon DEF OwnInv
<1>5. /\ MineGood(raft_queue, proposed, log, redis_queue, pending, next_request_id, request)
      /\ OnePlace(raft_queue, proposed, log)
      /\ ReadsGood(redis_queue, log, applied_index)
      /\ OkGood(AllReplies, request, redis_queue, log, applied_index)
    BY Zenon DEF OwnInv
<1>6. ReadsGood(redis_queue', log, n) /\ OkGood(AllReplies, request, redis_queue', log, n)
  <2>1. applied_index <= n /\ \A i \in 1..applied_index : log[i] = log[i]
      BY <1>2, <1>4
  <2> QED BY <1>2, <1>3, <1>4, <1>5, <2>1, OtherAppended
<1>7. MineGood(raft_queue, proposed, log, redis_queue', pending, next_request_id, request)
  <2>1. \A k \in DOMAIN redis_queue' : redis_queue'[k].kind \in Status =>
            k \in DOMAIN redis_queue /\ redis_queue'[k] = redis_queue[k]
    <3>1. \A k \in DOMAIN redis_queue' :
             (k \in DOMAIN redis_queue /\ redis_queue'[k] = redis_queue[k]) \/ redis_queue'[k] = x
        BY <1>2, <1>3, <1>4
    <3> QED BY <1>3, <3>1
  <2> QED BY <1>5, <2>1, Zenon DEF MineGood
<1> QED BY <1>5, <1>6, <1>7

(* An answer to request a that is no OK, or the OK of a deletion, or the   *)
(* OK of an assignment that is committed and applied.                      *)
LEMMA OkAnswered ==
    ASSUME NEW R, NEW R2, NEW reqs \in Seq(RequestType), NEW q, NEW l, NEW n, NEW c, NEW a, NEW text,
           OkGood(R, reqs, q, l, n), OneMore(R2, R, c, Reply(a, text)),
           \/ text # "OK"
           \/ reqs[a].cmd.op # "set"
           \/ /\ \E i \in 1..n : l[i].req = a
              /\ \A k \in DOMAIN q : q[k].kind = "read_commit" => q[k].commit.req # a
    PROVE  OkGood(R2, reqs, q, l, n)
<1> SUFFICES ASSUME NEW r \in DOMAIN reqs, reqs[r].cmd.op = "set",
                    AnsweredIn(R2, reqs[r].session, r, "OK")
             PROVE  /\ \E i \in 1..n : l[i].req = r
                    /\ \A k \in DOMAIN q : q[k].kind = "read_commit" => q[k].commit.req # r
    BY Zenon DEF OkGood
<1>1. reqs[r].session \in Session
    BY SessionOf
<1>2. AnsweredIn(R, reqs[r].session, r, "OK") \/ (r = a /\ text = "OK")
    BY <1>1, OkFrom
<1>3. CASE AnsweredIn(R, reqs[r].session, r, "OK")
    BY <1>3, Zenon DEF OkGood
<1>4. CASE r = a /\ text = "OK"
    BY <1>4
<1> QED BY <1>2, <1>3, <1>4

(* The head of the queue is run, and its request, if any, is settled.      *)
LEMMA RunOwn ==
    ASSUME TypeInv, OwnInv, redis_queue # <<>>, redis_queue' = Tail(redis_queue),
           UNCHANGED <<next_request_id, raft_queue, log, proposed, applied_index, request, restarts>>,
           NEW id \in RequestId, NEW text,
           \/ pending' = pending /\ AllReplies' = AllReplies
           \/ /\ pending[id] \in DOMAIN request /\ pending' = [pending EXCEPT ![id] = None]
              /\ OneMore(AllReplies', AllReplies, request[pending[id]].session, Reply(pending[id], text))
              /\ restarts = 0 =>
                  \/ text # "OK"
                  \/ request[pending[id]].cmd.op # "set"
                  \/ /\ \E i \in 1..applied_index : log[i].req = pending[id]
                     /\ \A k \in DOMAIN redis_queue' :
                           redis_queue'[k].kind = "read_commit" => redis_queue'[k].commit.req # pending[id]
    PROVE  OwnInv'
<1>1. /\ request \in Seq(RequestType) /\ raft_queue \in Seq(OwnEntry) /\ proposed \in SUBSET OwnEntry
      /\ log \in Seq(Entry) /\ redis_queue \in Seq(ClosureType)
      /\ pending \in [RequestId -> 0..Len(request)]
    BY DEF TypeInv
<1>2. Among(redis_queue', redis_queue)
    BY <1>1, TailAmong
<1>3. redis_queue' \in Seq(ClosureType)
    BY <1>1
<1> SUFFICES ASSUME restarts = 0
             PROVE  /\ MineGood(raft_queue, proposed, log, redis_queue', pending', next_request_id, request)
                    /\ OnePlace(raft_queue, proposed, log)
                    /\ ReadsGood(redis_queue', log, applied_index)
                    /\ OkGood(AllReplies', request, redis_queue', log, applied_index)
    BY Zenon DEF OwnInv
<1>4. /\ MineGood(raft_queue, proposed, log, redis_queue, pending, next_request_id, request)
      /\ OnePlace(raft_queue, proposed, log)
      /\ ReadsGood(redis_queue, log, applied_index)
      /\ OkGood(AllReplies, request, redis_queue, log, applied_index)
    BY Zenon DEF OwnInv
<1>5. /\ MineGood(raft_queue, proposed, log, redis_queue', pending, next_request_id, request)
      /\ ReadsGood(redis_queue', log, applied_index)
      /\ OkGood(AllReplies, request, redis_queue', log, applied_index)
    BY <1>2, <1>4, FewerMine, FewerReads, FewerOk
<1>6. CASE pending' = pending /\ AllReplies' = AllReplies
    BY <1>4, <1>5, <1>6
<1>7. CASE /\ pending' = [pending EXCEPT ![id] = None]
           /\ OneMore(AllReplies', AllReplies, request[pending[id]].session, Reply(pending[id], text))
           /\ \/ text # "OK"
              \/ request[pending[id]].cmd.op # "set"
              \/ /\ \E i \in 1..applied_index : log[i].req = pending[id]
                 /\ \A k \in DOMAIN redis_queue' :
                       redis_queue'[k].kind = "read_commit" => redis_queue'[k].commit.req # pending[id]
  <2>1. \A m \in RequestId : pending'[m] \in {None, pending[m]}
      BY <1>1, <1>7
  <2>2. Later(pending', next_request_id, request, pending, next_request_id, request)
      BY <2>1, Zenon DEF Later
  <2>3. MineGood(raft_queue, proposed, log, redis_queue', pending', next_request_id, request)
      BY <1>1, <1>3, <1>5, <2>2, MineGoodLater
  <2>4. OkGood(AllReplies', request, redis_queue', log, applied_index)
      BY <1>1, <1>5, <1>7, OkAnswered
  <2> QED BY <1>4, <1>5, <2>3, <2>4
<1> QED BY <1>6, <1>7

(* The head of the queue is run and settles no request.                    *)
LEMMA RunNothing ==
    ASSUME TypeInv, OwnInv, redis_queue # <<>>, redis_queue' = Tail(redis_queue),
           UNCHANGED <<next_request_id, raft_queue, log, proposed, applied_index, request, restarts, pending>>,
           AllReplies' = AllReplies
    PROVE  OwnInv'
<1>1. Among(redis_queue', redis_queue)
  <2>1. redis_queue \in Seq(ClosureType)
      BY DEF TypeInv
  <2> QED BY <2>1, TailAmong
<1>2. CASE restarts = 0
  <2>1. /\ MineGood(raft_queue, proposed, log, redis_queue', pending, next_request_id, request)
        /\ ReadsGood(redis_queue', log, applied_index)
        /\ OkGood(AllReplies, request, redis_queue', log, applied_index)
      BY <1>1, <1>2, FewerMine, FewerReads, FewerOk DEF OwnInv
  <2> QED BY <1>2, <2>1, Zenon DEF OwnInv
<1>3. CASE restarts # 0
    BY <1>3, Zenon DEF OwnInv
<1> QED BY <1>2, <1>3

(* A request id stands for the request of its entry, or for none.          *)
LEMMA PendingMine ==
    ASSUME NEW e, NEW pend, NEW next, NEW reqs \in Seq(RequestType), Mine(e, pend, next, reqs),
           pend[e.id] \in DOMAIN reqs
    PROVE  pend[e.id] = e.req /\ e.cmd = reqs[pend[e.id]].cmd
<1>1. pend[e.id] # None
    BY SessionOf
<1> QED BY <1>1, Zenon DEF Mine

LEMMA StatusOwn ==
    ASSUME TypeInv, AnswerInv, OwnInv, RunStatus PROVE AnswerInv' /\ OwnInv'
<1> DEFINE cl == Head(redis_queue)
           e == cl.commit
<1>1. /\ redis_queue # <<>> /\ redis_queue' = Tail(redis_queue) /\ cl.kind \in Status
      /\ UNCHANGED <<next_request_id, raft_queue, log, proposed, applied_index, request, restarts>>
      /\ \/ pending' = pending /\ AllReplies' = AllReplies
         \/ e.cmd.op # "set" /\ SettledWith(e.id, "OK")
         \/ SettledWith(e.id, "ERR")
    BY StatusTyped
<1>2. cl \in ClosureType /\ cl = redis_queue[1] /\ 1 \in DOMAIN redis_queue
    BY <1>1, HeadClosure DEF TypeInv
<1>3. e.id \in RequestId
  <2>1. e \in OwnEntry
      BY <1>1, <1>2, ClosureParts, Zenon
  <2> QED BY <2>1, Zenon DEF OwnEntry, Entry
<1>4. restarts = 0 => Mine(e, pending, next_request_id, request)
    BY <1>1, <1>2, Zenon DEF OwnInv, MineGood
<1>5. request \in Seq(RequestType)
    BY DEF TypeInv
<1> HIDE DEF e, cl
<1>6. CASE pending' = pending /\ AllReplies' = AllReplies
  <2>1. AnswerInv'
      BY <1>1, <1>6, AnswerSame
  <2> QED BY <1>1, <1>6, <2>1, RunNothing
<1>7. CASE e.cmd.op # "set" /\ SettledWith(e.id, "OK")
  <2>1. /\ AnswerInv'
        /\ \/ pending' = pending /\ AllReplies' = AllReplies
           \/ /\ pending[e.id] \in DOMAIN request /\ pending' = [pending EXCEPT ![e.id] = None]
              /\ OneMore(AllReplies', AllReplies, request[pending[e.id]].session, Reply(pending[e.id], "OK"))
      BY <1>1, <1>3, <1>7, SettledAnswer
  <2>2. ASSUME restarts = 0, pending[e.id] \in DOMAIN request
        PROVE  request[pending[e.id]].cmd.op # "set"
      BY <1>4, <1>5, <1>7, <2>2, PendingMine
  <2>3. OwnInv'
      BY <1>1, <1>3, <2>1, <2>2, RunOwn
  <2> QED BY <2>1, <2>3
<1>8. CASE SettledWith(e.id, "ERR")
  <2> DEFINE text == "ERR"
  <2>1. /\ AnswerInv'
        /\ \/ pending' = pending /\ AllReplies' = AllReplies
           \/ /\ pending[e.id] \in DOMAIN request /\ pending' = [pending EXCEPT ![e.id] = None]
              /\ OneMore(AllReplies', AllReplies, request[pending[e.id]].session, Reply(pending[e.id], text))
      BY <1>1, <1>3, <1>8, SettledAnswer
  <2>2. text # "OK"
      OBVIOUS
  <2> HIDE DEF text
  <2>3. OwnInv'
    <3>1. CASE pending' = pending /\ AllReplies' = AllReplies
        BY <1>1, <3>1, RunNothing
    <3>2. CASE /\ pending[e.id] \in DOMAIN request /\ pending' = [pending EXCEPT ![e.id] = None]
               /\ OneMore(AllReplies', AllReplies, request[pending[e.id]].session, Reply(pending[e.id], text))
      <4> DEFINE good ==
            \/ text # "OK"
            \/ request[pending[e.id]].cmd.op # "set"
            \/ /\ \E i \in 1..applied_index : log[i].req = pending[e.id]
               /\ \A k \in DOMAIN redis_queue' :
                     redis_queue'[k].kind = "read_commit" => redis_queue'[k].commit.req # pending[e.id]
      <4>1. good
          BY <2>2
      <4> HIDE DEF e
      <4> QED BY <1>1, <1>3, <3>2, <4>1, RunOwn, ZenonT(60)
    <3> QED BY <2>1, <3>1, <3>2
  <2> QED BY <2>1, <2>3
<1> QED BY <1>1, <1>6, <1>7, <1>8

LEMMA CommitOwn ==
    ASSUME TypeInv, StoreInv, AnswerInv, OwnInv, RunCommit PROVE AnswerInv' /\ OwnInv'
<1> DEFINE cl == Head(redis_queue)
           e == cl.commit
<1>1. /\ redis_queue # <<>> /\ redis_queue' = Tail(redis_queue) /\ cl.kind = "read_commit"
      /\ UNCHANGED <<next_request_id, raft_queue, log, proposed, applied_index, request, restarts>>
      /\ IF e.node = "self" THEN SettledWith(e.id, "OK") ELSE pending' = pending /\ AllReplies' = AllReplies
    BY CommitTyped
<1>2. cl \in ClosureType /\ cl = redis_queue[1] /\ 1 \in DOMAIN redis_queue
    BY <1>1, HeadClosure DEF TypeInv
<1>3. request \in Seq(RequestType) /\ redis_queue \in Seq(ClosureType) /\ applied_index \in Nat
    BY DEF TypeInv
<1>4. CASE e.node # "self"
  <2>1. pending' = pending /\ AllReplies' = AllReplies
      BY <1>1, <1>4
  <2>2. AnswerInv'
      BY <1>1, <2>1, AnswerSame
  <2> QED BY <1>1, <2>1, <2>2, RunNothing
<1>5. CASE e.node = "self"
  <2>1. e.id \in RequestId /\ SettledWith(e.id, "OK")
      BY <1>1, <1>2, <1>5, ClosureParts, Zenon
  <2>2. ASSUME restarts = 0, pending[e.id] \in DOMAIN request
        PROVE  /\ \E i \in 1..applied_index : log[i].req = pending[e.id]
               /\ \A k \in DOMAIN redis_queue' :
                     redis_queue'[k].kind = "read_commit" => redis_queue'[k].commit.req # pending[e.id]
    <3>1. /\ MineGood(raft_queue, proposed, log, redis_queue, pending, next_request_id, request)
          /\ ReadsGood(redis_queue, log, applied_index)
          /\ OwnInv
        BY <2>2, Zenon DEF OwnInv
    <3>2. PICK i \in 1..applied_index : e = log[i]
        BY <1>1, <1>2, <3>1, Zenon DEF ReadsGood
    <3>3. i \in DOMAIN log
        BY <1>3 DEF TypeInv, StoreInv
    <3>4. Mine(e, pending, next_request_id, request)
        BY <1>5, <3>1, <3>2, <3>3, Zenon DEF MineGood
    <3>5. pending[e.id] = e.req /\ e.req # None
      <4>1. pending[e.id] = e.req
          BY <1>3, <2>2, <3>4, PendingMine
      <4> QED BY <1>3, <2>2, <4>1, SessionOf
    <3>6. ASSUME NEW k \in DOMAIN redis_queue', redis_queue'[k].kind = "read_commit"
          PROVE  redis_queue'[k].commit.req # e.req
      <4>1. k + 1 \in DOMAIN redis_queue /\ k + 1 # 1 /\ redis_queue'[k] = redis_queue[k + 1]
          BY <1>1, <1>3, TailAmong
      <4> QED BY <1>1, <1>2, <3>1, <3>5, <3>6, <4>1 DEF ReadsGood
    <3> QED BY <3>2, <3>5, <3>6
  <2> HIDE DEF e, cl
  <2>3. /\ AnswerInv'
        /\ \/ pending' = pending /\ AllReplies' = AllReplies
           \/ /\ pending[e.id] \in DOMAIN request /\ pending' = [pending EXCEPT ![e.id] = None]
              /\ OneMore(AllReplies', AllReplies, request[pending[e.id]].session, Reply(pending[e.id], "OK"))
      BY <1>1, <2>1, SettledAnswer
  <2>4. OwnInv'
      BY <1>1, <2>1, <2>2, <2>3, RunOwn
  <2> QED BY <2>3, <2>4
<1> QED BY <1>4, <1>5

-----------------------------------------------------------------------------
(* Every step keeps the invariant.                                         *)

LEMMA InitInv == Init => Inv
<1> SUFFICES ASSUME Init PROVE Inv
    OBVIOUS
<1>1. TypeInv /\ AllReplies = [c \in Session |-> <<>>]
    BY InitTyped
<1>2. /\ key_values = EmptyMap /\ redis_queue = <<>> /\ raft_queue = <<>> /\ applied_index = 0
      /\ snapshot = [index |-> 0, map |-> EmptyMap] /\ start = [index |-> 0, map |-> EmptyMap]
      /\ log = <<>> /\ proposed = {} /\ request = <<>>
    BY DEF Init
<1>3. DOMAIN <<>> = {} /\ Len(<<>>) = 0 /\ 0 \in Nat /\ 0 <= 0
    OBVIOUS
<1>4. StoreInv
  <2>1. start.index = 0 /\ snapshot.index = 0 /\ start.map = EmptyMap
      BY <1>2, Zenon
  <2>2. Effects(key_values, redis_queue) = EmptyMap
      BY <1>2, <1>3, EffectsEmpty
  <2>3. Replay(start.map, start.index, applied_index) = EmptyMap
    <3>1. Replayed(log, EmptyMap, 0, 0) = EmptyMap
        BY <1>3, ReplayNothing
    <3> QED BY <1>2, <2>1, <3>1, Zenon DEF Replay, Replayed, Reads
  <2>4. SnapshotLast
      BY <1>2, <1>3 DEF SnapshotLast
  <2>5. StoreIsApplied
      BY <2>2, <2>3, Zenon DEF StoreIsApplied
  <2> QED BY <1>2, <1>3, <2>1, <2>4, <2>5 DEF StoreInv
<1>5. \A c \in Session : DOMAIN AllReplies[c] = {}
  <2>1. \A c \in Session : AllReplies[c] = <<>>
      BY <1>1, Zenon
  <2> QED BY <1>3, <2>1, Zenon
<1>6. \A id \in RequestId : pending[id] = None
    BY DEF Init, RequestId
<1>7. DOMAIN request = {} /\ DOMAIN raft_queue = {} /\ DOMAIN redis_queue = {} /\ DOMAIN log = {}
    BY <1>2, <1>3
<1>8. AnswerInv
    BY <1>5, <1>6, <1>7, Zenon DEF AnswerInv, AnswerGood
<1>9. OwnInv
  <2>1. MineGood(raft_queue, proposed, log, redis_queue, pending, next_request_id, request)
      BY <1>2, <1>7, Zenon DEF MineGood
  <2>2. OnePlace(raft_queue, proposed, log)
      BY <1>2, <1>7, Zenon DEF OnePlace
  <2>3. ReadsGood(redis_queue, log, applied_index)
      BY <1>7, Zenon DEF ReadsGood
  <2>4. OkGood(AllReplies, request, redis_queue, log, applied_index)
      BY <1>7, Zenon DEF OkGood
  <2> QED BY <2>1, <2>2, <2>3, <2>4 DEF OwnInv
<1> QED BY <1>1, <1>4, <1>8, <1>9 DEF Inv

(* A snapshot that is saved holds the map of its index.                    *)
SnapshotStep ==
    snapshot' # snapshot => snapshot'.map = Replay(start'.map, start'.index, snapshot'.index)

LEMMA ClientStep ==
    ASSUME NEW c \in Session, Inv, Client(c) \/ Written(c) PROVE Inv' /\ SnapshotStep
<1>1. TypeInv /\ StoreInv /\ AnswerInv /\ OwnInv
    BY DEF Inv
<1>2. CASE Read(c)
  <2>1. UNCHANGED <<key_values, redis_queue, start, applied_index, snapshot, waiting, log>>
      BY <1>2 DEF Read, AnswerNow, raft_vars, ghost_vars
  <2> QED BY <1>1, <1>2, <2>1, ReadTyped, StoreSame, ReadAnswer, ReadOwn DEF Inv, SnapshotStep
<1>3. ASSUME NEW cmd \in Command, Write(c, cmd)
      PROVE  Inv' /\ SnapshotStep
  <2>1. UNCHANGED <<key_values, redis_queue, start, applied_index, snapshot, waiting, log>>
      BY <1>3 DEF Write, ghost_vars
  <2> QED BY <1>1, <1>3, <2>1, WriteTyped, StoreSame, WriteAnswer, WriteOwn DEF Inv, SnapshotStep
<1>4. CASE Broken(c) \/ Quit(c) \/ Written(c)
  <2>1. TypeInv' /\ AllReplies' = AllReplies
      BY <1>1, <1>4, BrokenTyped, QuitTyped, WrittenTyped
  <2>2. UNCHANGED <<key_values, pending, next_request_id, redis_queue, raft_vars, request, ghost_vars>>
      BY <1>4 DEF Broken, Quit, Written
  <2>3. /\ UNCHANGED <<key_values, redis_queue, start, applied_index, snapshot, waiting, log>>
        /\ UNCHANGED <<pending, next_request_id, redis_queue, raft_queue, log, proposed,
                       applied_index, request, restarts>>
      BY <2>2 DEF raft_vars, ghost_vars
  <2> QED BY <1>1, <2>1, <2>3, StoreSame, AnswerSame, OwnSame DEF Inv, SnapshotStep
<1> QED BY <1>2, <1>3, <1>4 DEF Client

LEMMA RedisThreadStep ==
    ASSUME Inv, RedisThread PROVE Inv' /\ SnapshotStep
<1>1. TypeInv /\ StoreInv /\ AnswerInv /\ OwnInv
    BY DEF Inv
<1>2. CASE RunStatus
  <2>1. TypeInv' /\ snapshot' = snapshot
      BY <1>1, <1>2, StatusTyped
  <2> QED BY <1>1, <1>2, <2>1, StatusStore, StatusOwn DEF Inv, SnapshotStep
<1>3. CASE RunCommit
  <2>1. TypeInv' /\ snapshot' = snapshot
      BY <1>1, <1>3, CommitTyped
  <2> QED BY <1>1, <1>3, <2>1, CommitStore, CommitOwn DEF Inv, SnapshotStep
<1>4. CASE RunGetSnapshot
  <2>1. /\ TypeInv' /\ AllReplies' = AllReplies
        /\ redis_queue # <<>> /\ redis_queue' = Tail(redis_queue)
      BY <1>1, <1>4, GetSnapshotTyped
  <2>2. UNCHANGED <<next_request_id, raft_queue, log, proposed, applied_index, request, restarts, pending>>
      BY <1>4 DEF RunGetSnapshot, Run, ghost_vars
  <2>3. AnswerInv' /\ OwnInv'
      BY <1>1, <2>1, <2>2, AnswerSame, RunNothing
  <2> QED BY <1>1, <1>4, <2>1, <2>3, GetSnapshotStore DEF Inv, SnapshotStep
<1>5. CASE RunRecover
  <2>1. /\ TypeInv' /\ AllReplies' = AllReplies
        /\ redis_queue # <<>> /\ redis_queue' = Tail(redis_queue)
      BY <1>1, <1>5, RecoverTyped
  <2>2. /\ UNCHANGED <<next_request_id, raft_queue, log, proposed, applied_index, request, restarts, pending>>
        /\ snapshot' = snapshot
      BY <1>5 DEF RunRecover, Run, ghost_vars
  <2>3. AnswerInv' /\ OwnInv'
      BY <1>1, <2>1, <2>2, AnswerSame, RunNothing
  <2> QED BY <1>1, <1>5, <2>1, <2>2, <2>3, RecoverStore DEF Inv, SnapshotStep
<1> QED BY <1>2, <1>3, <1>4, <1>5 DEF RedisThread

LEMMA ProposeStep ==
    ASSUME NEW ok \in BOOLEAN, Inv, Propose(ok) PROVE Inv' /\ SnapshotStep
<1>1. TypeInv /\ StoreInv /\ AnswerInv /\ OwnInv
    BY DEF Inv
<1>2. UNCHANGED <<pending, next_request_id, snapshot, request, restarts>>
    BY DEF Propose, ghost_vars
<1>3. TypeInv' /\ AllReplies' = AllReplies
    BY <1>1, ProposeTyped
<1>4. AnswerInv'
    BY <1>1, <1>2, <1>3, AnswerSame
<1> QED BY <1>1, <1>2, <1>3, <1>4, ProposeStore, ProposeOwn DEF Inv, SnapshotStep

LEMMA CommitEntryStep ==
    ASSUME NEW e \in Committable, Inv, CommitEntry(e) PROVE Inv' /\ SnapshotStep
<1>1. TypeInv /\ StoreInv /\ AnswerInv /\ OwnInv
    BY DEF Inv
<1>2. UNCHANGED <<pending, next_request_id, snapshot, request, restarts>>
    BY DEF CommitEntry, ghost_vars
<1>3. TypeInv' /\ AllReplies' = AllReplies
    BY <1>1, CommitEntryTyped
<1>4. AnswerInv'
    BY <1>1, <1>2, <1>3, AnswerSame
<1> QED BY <1>1, <1>2, <1>3, <1>4, CommitEntryStore, CommitEntryOwn DEF Inv, SnapshotStep

LEMMA PublishStep ==
    ASSUME NEW n, Inv, Publish(n) PROVE Inv' /\ SnapshotStep
<1>1. TypeInv /\ StoreInv /\ AnswerInv /\ OwnInv /\ applied_index <= Len(log)
    BY DEF Inv, StoreInv
<1>2. TypeInv' /\ AllReplies' = AllReplies /\ UNCHANGED <<pending, next_request_id, snapshot, request, restarts>>
    BY <1>1, PublishTyped
<1>3. AnswerInv'
    BY <1>1, <1>2, AnswerSame
<1> QED BY <1>1, <1>2, <1>3, PublishStore, PublishOwn DEF Inv, SnapshotStep

LEMMA PublishSnapshotStep ==
    ASSUME NEW n, Inv, PublishSnapshot(n) PROVE Inv' /\ SnapshotStep
<1>1. TypeInv /\ StoreInv /\ AnswerInv /\ OwnInv /\ applied_index <= Len(log)
    BY DEF Inv, StoreInv
<1>2. TypeInv' /\ AllReplies' = AllReplies /\ UNCHANGED <<pending, next_request_id, request, restarts>>
    BY <1>1, PublishSnapshotTyped
<1>3. AnswerInv'
    BY <1>1, <1>2, AnswerSame
<1> QED BY <1>1, <1>2, <1>3, PublishSnapshotStore, PublishSnapshotOwn DEF Inv, SnapshotStep

LEMMA RestartStep ==
    ASSUME NEW entries \in BOOLEAN, Inv, Restart(entries) PROVE Inv' /\ SnapshotStep
<1>1. TypeInv /\ StoreInv /\ AnswerInv /\ OwnInv
    BY DEF Inv
<1>2. TypeInv' /\ restarts' # 0 /\ snapshot' = snapshot
    BY <1>1, RestartTyped
<1>3. OwnInv'
    BY <1>2, Zenon DEF OwnInv
<1> QED BY <1>1, <1>2, <1>3, RestartStore, RestartAnswer DEF Inv, SnapshotStep

LEMMA NextInv == Inv /\ [Next]_vars => Inv' /\ SnapshotStep
<1> SUFFICES ASSUME Inv, [Next]_vars PROVE Inv' /\ SnapshotStep
    OBVIOUS
<1>1. CASE \E c \in Session : Client(c) \/ Written(c)
    BY <1>1, ClientStep
<1>2. CASE RedisThread
    BY <1>2, RedisThreadStep
<1>3. CASE RaftThread
    BY <1>3, ProposeStep, PublishStep DEF RaftThread
<1>4. CASE \E n \in 1..MaxLog : PublishSnapshot(n)
    BY <1>4, PublishSnapshotStep
<1>5. CASE \E e \in Committable : CommitEntry(e)
    BY <1>5, CommitEntryStep
<1>6. CASE \E entries \in BOOLEAN : Restart(entries)
    BY <1>6, RestartStep
<1>7. CASE UNCHANGED vars
  <2>1. TypeInv /\ StoreInv /\ AnswerInv /\ OwnInv
      BY DEF Inv
  <2>2. TypeInv' /\ AllReplies' = AllReplies
      BY <1>7, <2>1, RepliesSame DEF TypeInv, vars
  <2>3. StoreInv' /\ AnswerInv' /\ OwnInv' /\ snapshot' = snapshot
      BY <1>7, <2>1, <2>2, StoreSame, AnswerSame, OwnSame DEF vars
  <2> QED BY <2>2, <2>3 DEF Inv, SnapshotStep
<1> QED BY <1>1, <1>2, <1>3, <1>4, <1>5, <1>6, <1>7 DEF Next

-----------------------------------------------------------------------------
(* Theorems.                                                               *)

(* The inductive invariant of the store.                                   *)
THEOREM StoreInvariant == Spec => []Inv
<1>1. Init => Inv
    BY InitInv
<1>2. Inv /\ [Next]_vars => Inv'
    BY NextInv
<1> QED BY <1>1, <1>2, PTL DEF Spec

(* However the two threads interleave, the map with the closures that wait *)
(* for the redis thread is the map of the process start with the entries   *)
(* up to applied_index_, in their order and each once: the closures of     *)
(* publish_entries and publish_snapshot lose and repeat nothing.           *)
THEOREM MapIsAppliedLog == Spec => []StoreIsApplied
<1>1. Inv => StoreIsApplied
    BY DEF Inv, StoreInv
<1> QED BY <1>1, StoreInvariant, PTL

(* Whatever the redis thread was doing when the raft thread asked for it,  *)
(* the data saved with a snapshot is the map of the snapshot's own index   *)
(* (maybe_trigger_snapshot waits; publish_snapshot installs).              *)
THEOREM SnapshotsMatch == Spec => SnapshotMatchesIndex
<1>1. Inv /\ [Next]_vars =>
        [snapshot' # snapshot => snapshot'.map = Replay(start'.map, start'.index, snapshot'.index)]_vars
    BY NextInv DEF SnapshotStep
<1> QED BY <1>1, StoreInvariant, PTL DEF Spec, SnapshotMatchesIndex

(* A reply of a connection is one of AllReplies.                           *)
LEMMA AnsweredReplies ==
    ASSUME TypeInv, NEW r \in DOMAIN request, NEW text
    PROVE  Answered(r, text) <=> AnsweredIn(AllReplies, request[r].session, r, text)
<1>1. request[r].session \in Session
    BY SessionOf DEF TypeInv
<1>2. AllReplies[request[r].session] = Replies(request[r].session)
    BY <1>1, Zenon DEF AllReplies
<1> QED BY <1>2, Zenon DEF Answered, AnsweredIn

(* No request is answered twice, also across restarts of the server; until *)
(* its first restart a write is either answered or still in                *)
(* pending_requests_, never both and never neither.                        *)
THEOREM OneAnswer == Spec => []AnsweredOnce
<1>1. ASSUME Inv PROVE AnsweredOnce
  <2>1. TypeInv /\ AnswerGood(AllReplies, pending, next_request_id, request, restarts = 0)
      BY <1>1, Zenon DEF Inv, AnswerInv
  <2>2. \A c \in Session : AllReplies[c] = Replies(c)
      BY Zenon DEF AllReplies
  <2>3. ASSUME NEW c \in Session
        PROVE  \A i, j \in DOMAIN Replies(c) : i # j => Replies(c)[i].req # Replies(c)[j].req
    <3>1. \A i, j \in DOMAIN AllReplies[c] : i # j => AllReplies[c][i].req # AllReplies[c][j].req
        BY <2>1, Zenon DEF AnswerGood
    <3>2. AllReplies[c] = Replies(c)
        BY <2>2
    <3> QED BY <3>1, <3>2, Zenon
  <2>4. ASSUME restarts = 0, NEW r \in Writes
        PROVE  (\E text \in {"OK", "ERR"} : Answered(r, text)) # (\E id \in DOMAIN pending : pending[id] = r)
    <3> DEFINE P == \E text \in {"OK", "ERR"} : Answered(r, text)
               Q == \E id \in DOMAIN pending : pending[id] = r
    <3>1. r \in DOMAIN request /\ request[r].cmd.keys # {} /\ DOMAIN pending = RequestId
        BY <2>1, Zenon DEF Writes, TypeInv
    <3>2. request[r].session \in Session /\ r # None
        BY <2>1, <3>1, SessionOf DEF TypeInv
    <3>3. P \/ Q
      <4>1. \/ \E id \in RequestId : pending[id] = r
            \/ \E text \in {"OK", "ERR"} : AnsweredIn(AllReplies, request[r].session, r, text)
          BY <2>1, <2>4, <3>1, Zenon DEF AnswerGood
      <4> QED BY <2>1, <3>1, <4>1, AnsweredReplies
    <3>4. ~(P /\ Q)
      <4> SUFFICES ASSUME P, Q PROVE FALSE
          OBVIOUS
      <4>1. PICK text \in {"OK", "ERR"} : AnsweredIn(AllReplies, request[r].session, r, text)
          BY <2>1, <3>1, AnsweredReplies
      <4>2. PICK i \in DOMAIN AllReplies[request[r].session] : AllReplies[request[r].session][i] = Reply(r, text)
          BY <4>1, Zenon DEF AnsweredIn
      <4>3. Reply(r, text).req = r
          BY Zenon DEF Reply
      <4>4. PICK id \in RequestId : pending[id] = r
          BY <3>1
      <4> QED BY <2>1, <3>2, <4>2, <4>3, <4>4, Zenon DEF AnswerGood
    <3> QED BY <3>3, <3>4, Zenon
  <2> QED BY <2>3, <2>4, Zenon DEF AnsweredOnce
<1> QED BY <1>1, StoreInvariant, PTL

(* Until the first restart, an assignment is answered with OK only when    *)
(* its entry is committed, is applied by this server and has reached the   *)
(* map: the id of a commit never answers the request of another one.       *)
THEOREM OkAfterCommit == Spec => []OkIsCommitted
<1>1. ASSUME Inv PROVE OkIsCommitted
  <2> SUFFICES ASSUME restarts = 0, NEW r \in Writes, request[r].cmd.op = "set", Answered(r, "OK")
               PROVE  /\ \E i \in 1..applied_index : log[i].req = r
                      /\ \A k \in DOMAIN redis_queue :
                            redis_queue[k].kind = "read_commit" => redis_queue[k].commit.req # r
      BY Zenon DEF OkIsCommitted
  <2>1. TypeInv /\ OkGood(AllReplies, request, redis_queue, log, applied_index)
      BY <1>1, Zenon DEF Inv, OwnInv
  <2>2. r \in DOMAIN request
      BY Zenon DEF Writes
  <2>3. AnsweredIn(AllReplies, request[r].session, r, "OK")
      BY <2>1, <2>2, AnsweredReplies
  <2> QED BY <2>1, <2>2, <2>3, Zenon DEF OkGood
<1> QED BY <1>1, StoreInvariant, PTL

=============================================================================
