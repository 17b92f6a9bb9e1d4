----------------------------- MODULE RaftSafety -----------------------------
(***************************************************************************)
(* The safety of module Raft, for every set of servers and every bound.  A *)
(* history is a record, which no server keeps, of what the elections and   *)
(* the replication have done so far.  Each handler turns a history that    *)
(* explains the state of the servers, of the network and of the disks into *)
(* one that explains the next state; so some history explains every        *)
(* reachable state, and what one history explains cannot disagree.         *)
(***************************************************************************)
EXTENDS RaftProofs, SetInduction

(* h.log[t]      the longest log a leader of term t has had, <<>> when the *)
(*               term has no leader; term 1 is the bootstrap;              *)
(* h.acked[q][t] how much of that log q has acknowledged to that leader;   *)
(* h.vote[q][t]  the server that q voted for in term t;                    *)
(* h.winner[t]   the leader of term t;                                     *)
(* h.stood[c][t] the log with which c stood for term t.                    *)
HistoryType ==
    [log : [Nat -> Seq(EntryType)], acked : [Server -> [Nat -> Nat]],
     vote : [Server -> [Nat -> Id]], winner : [Nat -> Id],
     stood : [Server -> [Nat -> Seq(EntryType)]]]

(* Two logs agree up to index k.                                           *)
Same(a, b, k) == k <= Len(a) /\ k <= Len(b) /\ \A x \in 1..k : a[x] = b[x]

(* A later leader, of a term up to u, did not have the first k entries of  *)
(* the leader of term t.                                                   *)
Lacks(h, t, k, u) ==
    \E v \in Nat : t < v /\ v <= u /\ h.log[v] # <<>> /\ ~Same(h.log[t], h.log[v], k)

(* Up to each of its entries, the log is that of the leader of the entry's *)
(* term.                                                                   *)
Agrees(h, log) ==
    \A k \in 1..Len(log) : log[k].term >= 1 /\ Same(h.log[log[k].term], log, k)

Quorum(Q) == Q \in SUBSET Server /\ Cardinality(Q) >= quorum

(* A quorum has acknowledged an entry to the leader that made it.          *)
Chosen(h, t, k) ==
    /\ k \in 1..Len(h.log[t])
    /\ h.log[t][k].term = t
    /\ \E Q : Quorum(Q) /\ \A q \in Q : k <= h.acked[q][t]

(* The first x entries of log are chosen by term u.                        *)
Settled(h, log, x, u) ==
    \/ x = 0
    \/ \E t, k \in Nat : t <= u /\ x <= k /\ Chosen(h, t, k) /\ Same(h.log[t], log, x)

(* What q acknowledged before term u and was of the leader's own term is   *)
(* in log, or a leader in between already did without it.                  *)
Covered(h, q, u, log) ==
    \A t, k \in Nat :
        t < u /\ 1 <= k /\ k <= h.acked[q][t] /\ h.log[t][k].term = t
            => Same(h.log[t], log, k) \/ Lacks(h, t, k, u - 1)

LastTerm(log) == IF Len(log) = 0 THEN 0 ELSE log[Len(log)].term

-----------------------------------------------------------------------------
(* A history that elections and replication can have.                      *)

LogsGood(h) ==
    \A t \in Nat :
        /\ Agrees(h, h.log[t])
        /\ \A k \in 1..Len(h.log[t]) : h.log[t][k].term <= t
        /\ h.log[t] # <<>> => h.log[t][Len(h.log[t])].term = t

AcksGood(h) == \A q \in Server, t \in Nat : h.acked[q][t] <= Len(h.log[t])

Elects(h, t, Q) ==
    \A q \in Q : h.vote[q][t] = h.winner[t] /\ Covered(h, q, t, h.log[t])

WinnersGood(h) ==
    \A t \in Nat :
        /\ h.winner[t] = Nil /\ t # 1 => h.log[t] = <<>>
        /\ h.winner[t] # Nil =>
              /\ t >= 2 /\ h.log[t] # <<>>
              /\ h.vote[h.winner[t]][t] = h.winner[t]
              /\ \E Q : Quorum(Q) /\ Elects(h, t, Q)

VotersGood(h) ==
    \A q, c \in Server, t \in Nat :
        h.vote[q][t] = c =>
            /\ h.vote[c][t] = c
            /\ h.winner[t] = Nil => Covered(h, q, t, h.stood[c][t])

StoodGood(h) ==
    \A c \in Server, t \in Nat :
        h.vote[c][t] = c =>
            /\ Agrees(h, h.stood[c][t])
            /\ \A k \in 1..Len(h.stood[c][t]) : h.stood[c][t][k].term < t

HistoryGood(h) ==
    h \in HistoryType /\ LogsGood(h) /\ AcksGood(h) /\ WinnersGood(h)
        /\ VotersGood(h) /\ StoodGood(h)

-----------------------------------------------------------------------------
(* A Raft object, a message and a hard state that a history explains.      *)

LogGood(h, n) ==
    /\ n.term >= 1
    /\ Agrees(h, n.log)
    /\ \A k \in 1..Len(n.log) : n.log[k].term <= n.term
    /\ Settled(h, n.log, n.committed, n.term)

AckGood(h, n) ==
    \A t, k \in Nat :
        1 <= k /\ k <= h.acked[n.id][t]
            => t <= n.term /\ (Same(h.log[t], n.log, k) \/ Lacks(h, t, k, n.term))

VoteGood(h, n) ==
    /\ h.vote[n.id][n.term] = n.vote
    /\ \A t \in Nat : t > n.term => h.vote[n.id][t] = Nil
    /\ n.state # "PreCandidate"
    /\ n.state = "Candidate" =>
          /\ n.term >= 2 /\ n.vote = n.id
          /\ h.winner[n.term] # n.id
          /\ h.stood[n.id][n.term] = n.log
          /\ \A j \in Server : n.votes[j] = "granted" => h.vote[j][n.term] = n.id

(* What a leader believes of its peers is what they acknowledged.          *)
LeadGood(h, n) ==
    /\ n.lead # Nil => n.lead = h.winner[n.term]
    /\ n.state = "Follower" => n.lead # n.id
    /\ n.state = "Leader" =>
          /\ h.winner[n.term] = n.id
          /\ h.log[n.term] = n.log
          /\ \A j \in Server : /\ n.prs[j].match <= h.acked[j][n.term]
                               /\ n.prs[j].next <= Len(n.log) + 1

AppGood(h, m) ==
    /\ m.index + Len(m.entries) <= Len(h.log[m.term])
    /\ \A x \in 1..Len(m.entries) : m.entries[x] = h.log[m.term][m.index + x]
    /\ m.log_term = IF m.index = 0 THEN 0 ELSE h.log[m.term][m.index].term

MsgGood(h, m) ==
    /\ m.from # m.to /\ m.term >= 1
    /\ m.type \notin {"MsgPreVote", "MsgPreVoteResp"}
    /\ m.type \in {"MsgApp", "MsgHeartbeat"} =>
          h.winner[m.term] = m.from /\ Settled(h, h.log[m.term], m.commit, m.term)
    /\ m.type = "MsgApp" => AppGood(h, m)
    /\ m.type = "MsgHeartbeat" => m.commit <= h.acked[m.to][m.term]
    /\ m.type = "MsgAppResp" /\ ~m.reject => m.index <= h.acked[m.from][m.term]
    /\ m.type = "MsgVote" => /\ h.vote[m.from][m.term] = m.from
                             /\ m.index = Len(h.stood[m.from][m.term])
                             /\ m.log_term = LastTerm(h.stood[m.from][m.term])
    /\ m.type = "MsgVoteResp" /\ ~m.reject => h.vote[m.from][m.term] = m.to
    /\ m.type \in {"MsgProp", "MsgTransferLeader"} => h.winner[m.term] = m.to

(* A message that n is about to send; it tells only a server that has      *)
(* acknowledged its whole log to take over.                                *)
Outgoing(h, n, m) ==
    /\ MsgGood(h, m)
    /\ m.type = "MsgTimeoutNow" =>
          /\ n.state = "Leader" /\ m.from = n.id /\ m.term = n.term
          /\ Len(n.log) <= h.acked[m.to][n.term]

OutGood(h, n) == \A m \in n.msgs : Outgoing(h, n, m)

NodeGood(h, n) ==
    ~n.fatal /\ LogGood(h, n) /\ AckGood(h, n) /\ VoteGood(h, n) /\ LeadGood(h, n)
        /\ OutGood(h, n)

DiskGood(h, d, n) ==
    /\ d.log = n.log /\ d.term = n.term /\ d.vote = n.vote
    /\ Settled(h, d.log, d.committed, d.term)

Explains(h) ==
    /\ HistoryGood(h)
    /\ \A i \in Server : NodeGood(h, node[i]) /\ DiskGood(h, disk[i], node[i])
    /\ \A m \in net : MsgGood(h, m)

-----------------------------------------------------------------------------
(* h continues g by an event of server i.                                  *)

Grows(a, b, t) ==
    /\ Same(a, b, Len(a))
    /\ a # <<>> => \A x \in (Len(a) + 1)..Len(b) : b[x].term = t

Continues(g, h, i) ==
    /\ \A t \in Nat : /\ Grows(g.log[t], h.log[t], t)
                      /\ h.log[t] # g.log[t] => h.winner[t] = i
                      /\ g.winner[t] # Nil => h.winner[t] = g.winner[t]
                      /\ h.winner[t] # g.winner[t] => h.winner[t] = i
    /\ \A q \in Server, t \in Nat :
          /\ g.acked[q][t] <= h.acked[q][t]
          /\ g.vote[q][t] # Nil => h.vote[q][t] = g.vote[q][t]
          /\ g.vote[q][t] = q => h.stood[q][t] = g.stood[q][t]
    /\ \A q \in Server \ {i} : /\ h.acked[q] = g.acked[q] /\ h.vote[q] = g.vote[q]
                               /\ h.stood[q] = g.stood[q]

-----------------------------------------------------------------------------
(* Logs.                                                                   *)

LEMMA SameFacts ==
    ASSUME NEW a \in Seq(EntryType), NEW b \in Seq(EntryType), NEW k \in Nat, Same(a, b, k)
    PROVE  /\ Same(b, a, k)
           /\ \A l \in Nat : l <= k => Same(a, b, l)
           /\ \A c \in Seq(EntryType) : Same(b, c, k) => Same(a, c, k)
BY DEF Same

LEMMA HistoryFields ==
    ASSUME NEW h \in HistoryType
    PROVE  /\ \A t \in Nat : h.log[t] \in Seq(EntryType) /\ h.winner[t] \in Id
           /\ \A t \in Nat : Len(h.log[t]) \in Nat
           /\ \A q \in Server, t \in Nat :
                 h.acked[q][t] \in Nat /\ h.vote[q][t] \in Id /\ h.stood[q][t] \in Seq(EntryType)
BY DEF HistoryType

LEMMA EntryTerm ==
    ASSUME NEW log \in Seq(EntryType), NEW k \in 1..Len(log)
    PROVE  log[k].term \in Nat
<1>1. log[k] \in EntryType
    OBVIOUS
<1> QED BY <1>1 DEF EntryType

LEMMA EmptyLog ==
    ASSUME NEW log \in Seq(EntryType)
    PROVE  log = <<>> <=> Len(log) = 0
OBVIOUS

(* Two quorums share a server.                                             *)
LEMMA QuorumsMeet ==
    ASSUME NEW P, NEW Q, Quorum(P), Quorum(Q)
    PROVE  \E q \in Server : q \in P /\ q \in Q
<1>1. IsFiniteSet(Server) /\ Cardinality(Server) \in Nat
    BY ServerAssumption, FS_CardinalityType
<1>2. P \in SUBSET Server /\ Q \in SUBSET Server
    BY DEF Quorum
<1>3. IsFiniteSet(P) /\ IsFiniteSet(Q)
    BY <1>1, <1>2, FS_Subset
<1>4. Cardinality(P) \in Nat /\ Cardinality(Q) \in Nat
    BY <1>3, FS_CardinalityType
<1>5. Cardinality(P) + Cardinality(Q) > Cardinality(Server)
    BY <1>1, <1>4, QuorumType DEF Quorum
<1>6. P \cap Q # {}
    BY <1>1, <1>2, <1>5, FS_MajoritiesIntersect
<1> QED BY <1>2, <1>6

-----------------------------------------------------------------------------
(* Leader completeness: what is chosen, every later leader has.            *)
LEMMA LeaderHasChosen ==
    ASSUME NEW h, HistoryGood(h), NEW t \in Nat, NEW k \in Nat, Chosen(h, t, k),
           NEW u \in Nat, t <= u, h.log[u] # <<>>
    PROVE  Same(h.log[t], h.log[u], k)
<1>1. h \in HistoryType /\ WinnersGood(h)
    BY DEF HistoryGood
<1>2. \A v \in Nat : h.log[v] \in Seq(EntryType)
    BY <1>1, HistoryFields
<1>3. 1 <= k /\ k <= Len(h.log[t]) /\ h.log[t][k].term = t
    BY <1>2 DEF Chosen
<1>4. PICK P : Quorum(P) /\ \A q \in P : k <= h.acked[q][t]
    BY DEF Chosen
<1> DEFINE T == {v \in Nat : t < v /\ h.log[v] # <<>> /\ ~Same(h.log[t], h.log[v], k)}
<1>5. T = {}
  <2> SUFFICES ASSUME T # {} PROVE FALSE
      OBVIOUS
  <2>1. PICK v \in T : \A w \in T : v <= w
    <3>1. T \in SUBSET Nat
        OBVIOUS
    <3> HIDE DEF T
    <3> QED BY <3>1, LeastElement
  <2>2. v \in Nat /\ t < v /\ h.log[v] # <<>> /\ ~Same(h.log[t], h.log[v], k)
      OBVIOUS
  <2>3. v # 1
    <3>1. CASE t = 0
      <4>1. h.log[0] = <<>>
        <5>1. h.winner[0] = Nil
            BY <1>1 DEF WinnersGood
        <5> QED BY <1>1, <5>1 DEF WinnersGood
      <4> QED BY <1>3, <3>1, <4>1
    <3> QED BY <2>2, <3>1
  <2>4. PICK Q : Quorum(Q) /\ Elects(h, v, Q)
      BY <1>1, <2>2, <2>3 DEF WinnersGood
  <2>5. PICK q \in Server : q \in P /\ q \in Q
      BY <1>4, <2>4, QuorumsMeet
  <2>6. Covered(h, q, v, h.log[v]) /\ k <= h.acked[q][t]
      BY <1>4, <2>4, <2>5 DEF Elects
  <2>7. Lacks(h, t, k, v - 1)
      BY <1>3, <2>2, <2>6 DEF Covered
  <2>8. PICK w \in Nat : t < w /\ w <= v - 1 /\ h.log[w] # <<>> /\ ~Same(h.log[t], h.log[w], k)
      BY <2>7 DEF Lacks
  <2>9. w \in T
      BY <2>8
  <2> HIDE DEF T
  <2> QED BY <2>1, <2>2, <2>8, <2>9
<1>6. CASE u = t
    BY <1>2, <1>3, <1>6 DEF Same
<1>7. CASE t < u
    BY <1>5, <1>7
<1> QED BY <1>6, <1>7

(* Nothing chosen is lacking later on.                                     *)
LEMMA ChosenNotLacking ==
    ASSUME NEW h, HistoryGood(h), NEW t \in Nat, NEW k \in Nat, Chosen(h, t, k), NEW u
    PROVE  ~Lacks(h, t, k, u)
<1> SUFFICES ASSUME Lacks(h, t, k, u) PROVE FALSE
    OBVIOUS
<1>1. PICK v \in Nat : t < v /\ h.log[v] # <<>> /\ ~Same(h.log[t], h.log[v], k)
    BY DEF Lacks
<1> QED BY <1>1, LeaderHasChosen

(* The settled part of a log is in the log of the leader of a term not     *)
(* lower.                                                                  *)
LEMMA SettledInLeader ==
    ASSUME NEW h, HistoryGood(h), NEW log \in Seq(EntryType), NEW x \in Nat, NEW u \in Nat,
           Settled(h, log, x, u), h.log[u] # <<>>
    PROVE  Same(h.log[u], log, x)
<1>1. \A t \in Nat : h.log[t] \in Seq(EntryType)
    BY HistoryFields DEF HistoryGood
<1>2. CASE x = 0
    BY <1>1, <1>2 DEF Same
<1>3. CASE x # 0
  <2>1. PICK t, k \in Nat : t <= u /\ x <= k /\ Chosen(h, t, k) /\ Same(h.log[t], log, x)
      BY <1>3 DEF Settled
  <2>2. Same(h.log[t], h.log[u], k)
      BY <2>1, LeaderHasChosen
  <2>3. Same(h.log[u], h.log[t], x)
      BY <1>1, <2>1, <2>2, SameFacts
  <2> QED BY <1>1, <2>1, <2>3, SameFacts
<1> QED BY <1>2, <1>3

(* Two settled logs do not contradict each other.                          *)
LEMMA SettledAgree ==
    ASSUME NEW h, HistoryGood(h), NEW a \in Seq(EntryType), NEW b \in Seq(EntryType),
           NEW x \in Nat, NEW y \in Nat, NEW u \in Nat, NEW v \in Nat,
           Settled(h, a, x, u), Settled(h, b, y, v)
    PROVE  \A k \in Nat : 1 <= k /\ k <= x /\ k <= y => a[k] = b[k]
<1> SUFFICES ASSUME NEW k \in Nat, 1 <= k, k <= x, k <= y
             PROVE  a[k] = b[k]
    OBVIOUS
<1>1. \A t \in Nat : h.log[t] \in Seq(EntryType)
    BY HistoryFields DEF HistoryGood
<1>2. PICK t, l \in Nat : x <= l /\ Chosen(h, t, l) /\ Same(h.log[t], a, x)
    BY DEF Settled
<1>3. PICK s, m \in Nat : y <= m /\ Chosen(h, s, m) /\ Same(h.log[s], b, y)
    BY DEF Settled
<1>4. h.log[s] # <<>> /\ h.log[t] # <<>>
    BY <1>1, <1>2, <1>3 DEF Chosen
<1>5. h.log[t][k] = h.log[s][k]
  <2>1. CASE t <= s
    <3>1. Same(h.log[t], h.log[s], l)
        BY <1>2, <1>4, <2>1, LeaderHasChosen
    <3> QED BY <1>2, <3>1 DEF Same
  <2>2. CASE s <= t
    <3>1. Same(h.log[s], h.log[t], m)
        BY <1>3, <1>4, <2>2, LeaderHasChosen
    <3> QED BY <1>3, <3>1 DEF Same
  <2> QED BY <2>1, <2>2
<1> QED BY <1>2, <1>3, <1>5 DEF Same

(* is_up_to_date, as handle_vote uses it: the log b of a candidate that is *)
(* not older than the log a of a voter has what the voter has of some      *)
(* leader's own entries, or a leader in between already did without it.    *)
LEMMA UpToDateHolds ==
    ASSUME NEW h, HistoryGood(h), NEW a \in Seq(EntryType), NEW b \in Seq(EntryType),
           Agrees(h, a), Agrees(h, b), NEW u \in Nat,
           \A x \in 1..Len(b) : b[x].term <= u,
           LastTerm(b) > LastTerm(a) \/ (LastTerm(b) = LastTerm(a) /\ Len(b) >= Len(a)),
           NEW t \in Nat, NEW k \in Nat, 1 <= k, k <= Len(h.log[t]), h.log[t][k].term = t,
           Same(h.log[t], a, k)
    PROVE  Same(h.log[t], b, k) \/ Lacks(h, t, k, u)
<1>1. /\ \A v \in Nat : h.log[v] \in Seq(EntryType)
      /\ LogsGood(h)
    BY HistoryFields DEF HistoryGood
<1> DEFINE v == LastTerm(b)
           w == LastTerm(a)
           lb == Len(b)
           la == Len(a)
<1>2. /\ w = a[la].term /\ w \in Nat /\ 1 <= la /\ la \in Nat /\ k <= la
      /\ Same(h.log[w], a, la)
  <2>1. k <= Len(a) /\ Len(a) \in Nat
      BY DEF Same
  <2>2. w = a[Len(a)].term
      BY <2>1 DEF LastTerm
  <2> QED BY <2>1, <2>2, EntryTerm DEF Agrees
<1>3. t <= w
  <2>1. h.log[w][k] = h.log[t][k] /\ k <= Len(h.log[w])
      BY <1>2, SMTT(30) DEF Same
  <2> HIDE DEF w
  <2> QED BY <1>1, <1>2, <2>1, SMTT(30) DEF LogsGood
<1>4. v \in Nat /\ lb \in Nat
  <2>1. CASE lb = 0
      BY <2>1 DEF LastTerm
  <2>2. CASE lb # 0
      BY <2>2, EntryTerm DEF LastTerm
  <2> QED BY <2>1, <2>2
<1>5. v >= w /\ (v = w => lb >= la)
    BY <1>2, <1>4
<1>6. w >= 1
    BY <1>2 DEF Agrees
<1>7. lb # 0 /\ v = b[lb].term /\ Same(h.log[v], b, lb) /\ v <= u
  <2>1. lb # 0
      BY <1>2, <1>4, <1>5, <1>6 DEF LastTerm
  <2>2. v = b[lb].term
      BY <2>1 DEF LastTerm
  <2> QED BY <1>4, <2>1, <2>2 DEF Agrees
<1> HIDE DEF v, w, la, lb
<1>8. CASE v = t
  <2>1. k <= lb
      BY <1>2, <1>3, <1>4, <1>5, <1>8
  <2> QED BY <1>1, <1>4, <1>7, <1>8, <2>1, SameFacts
<1>9. CASE v > t
  <2>1. h.log[v] # <<>>
    <3>1. lb <= Len(h.log[v])
        BY <1>7 DEF Same
    <3> QED BY <1>1, <1>4, <1>7, <3>1
  <2>2. CASE ~Same(h.log[t], h.log[v], k)
      BY <1>4, <1>7, <1>9, <2>1, <2>2 DEF Lacks
  <2>3. CASE Same(h.log[t], h.log[v], k)
    <3>1. k <= lb
      <4> SUFFICES ASSUME lb < k PROVE FALSE
          BY <1>4
      <4>1. h.log[t][lb] = h.log[v][lb] /\ h.log[v][lb] = b[lb]
          BY <1>4, <1>7, <2>3 DEF Same
      <4>2. h.log[t][lb].term <= t
        <5>1. lb \in 1..Len(h.log[t])
            BY <1>1, <1>4, <1>7
        <5> QED BY <1>1, <5>1 DEF LogsGood
      <4> QED BY <1>4, <1>7, <1>9, <4>1, <4>2
    <3>2. Same(h.log[v], b, k)
        BY <1>1, <1>4, <1>7, <3>1, SameFacts
    <3> QED BY <1>1, <1>4, <2>3, <3>2, SameFacts
  <2> QED BY <2>2, <2>3
<1> QED BY <1>3, <1>4, <1>5, <1>2, <1>8, <1>9

-----------------------------------------------------------------------------
(* What a history says stays true when it continues.                       *)

(* The facts of Continues that every use needs.                            *)
LEMMA ContinuesFacts ==
    ASSUME NEW g \in HistoryType, NEW h \in HistoryType, NEW i, Continues(g, h, i)
    PROVE  /\ \A t \in Nat : /\ g.log[t] \in Seq(EntryType) /\ h.log[t] \in Seq(EntryType)
                             /\ Len(g.log[t]) <= Len(h.log[t])
                             /\ Same(g.log[t], h.log[t], Len(g.log[t]))
                             /\ g.log[t] # <<>> => h.log[t] # <<>>
           /\ \A t, k \in Nat : k <= Len(g.log[t]) => Same(g.log[t], h.log[t], k)
<1>1. \A t \in Nat : g.log[t] \in Seq(EntryType) /\ h.log[t] \in Seq(EntryType)
    BY HistoryFields
<1>2. ASSUME NEW t \in Nat
      PROVE  /\ Len(g.log[t]) <= Len(h.log[t])
             /\ Same(g.log[t], h.log[t], Len(g.log[t]))
             /\ g.log[t] # <<>> => h.log[t] # <<>>
  <2>1. Same(g.log[t], h.log[t], Len(g.log[t]))
      BY DEF Continues, Grows
  <2>2. Len(g.log[t]) <= Len(h.log[t])
      BY <2>1 DEF Same
  <2> QED BY <1>1, <2>1, <2>2, EmptyLog
<1>3. ASSUME NEW t \in Nat, NEW k \in Nat, k <= Len(g.log[t])
      PROVE  Same(g.log[t], h.log[t], k)
    BY <1>1, <1>2, <1>3, SameFacts
<1> QED BY <1>1, <1>2, <1>3

LEMMA SameContinues ==
    ASSUME NEW g \in HistoryType, NEW h \in HistoryType, NEW i, Continues(g, h, i),
           NEW t \in Nat, NEW k \in Nat, NEW log \in Seq(EntryType), Same(g.log[t], log, k)
    PROVE  Same(h.log[t], log, k)
<1>1. g.log[t] \in Seq(EntryType) /\ h.log[t] \in Seq(EntryType)
    BY ContinuesFacts
<1>2. k <= Len(g.log[t])
    BY DEF Same
<1>3. Same(h.log[t], g.log[t], k)
    BY <1>1, <1>2, ContinuesFacts, SameFacts
<1> QED BY <1>1, <1>3, SameFacts

LEMMA AgreesContinues ==
    ASSUME NEW g \in HistoryType, NEW h \in HistoryType, NEW i, Continues(g, h, i),
           NEW log \in Seq(EntryType), Agrees(g, log)
    PROVE  Agrees(h, log)
<1> SUFFICES ASSUME NEW k \in 1..Len(log)
             PROVE  log[k].term >= 1 /\ Same(h.log[log[k].term], log, k)
    BY DEF Agrees
<1>1. log[k].term >= 1 /\ Same(g.log[log[k].term], log, k)
    BY DEF Agrees
<1>2. log[k].term \in Nat /\ k \in Nat
    BY EntryTerm
<1> QED BY <1>1, <1>2, SameContinues

LEMMA LacksContinues ==
    ASSUME NEW g, HistoryGood(g), NEW h \in HistoryType, NEW i, Continues(g, h, i),
           NEW t \in Nat, NEW k \in Nat, 1 <= k, k <= Len(g.log[t]), NEW u \in Nat, Lacks(g, t, k, u)
    PROVE  Lacks(h, t, k, u)
<1>1. g \in HistoryType /\ LogsGood(g)
    BY DEF HistoryGood
<1>2. PICK v \in Nat : t < v /\ v <= u /\ g.log[v] # <<>> /\ ~Same(g.log[t], g.log[v], k)
    BY DEF Lacks
<1>3. /\ g.log[t] \in Seq(EntryType) /\ h.log[t] \in Seq(EntryType)
      /\ g.log[v] \in Seq(EntryType) /\ h.log[v] \in Seq(EntryType)
      /\ Same(g.log[t], h.log[t], k) /\ Same(g.log[v], h.log[v], Len(g.log[v]))
      /\ h.log[v] # <<>>
    BY <1>1, <1>2, ContinuesFacts
<1>4. ASSUME Same(h.log[t], h.log[v], k)
      PROVE  FALSE
  <2>1. Same(g.log[t], h.log[v], k)
      BY <1>3, <1>4, SameFacts
  <2>2. CASE k <= Len(g.log[v])
    <3>1. Same(h.log[v], g.log[v], k)
        BY <1>3, <2>2, SameFacts
    <3> QED BY <1>2, <1>3, <2>1, <3>1, SameFacts
  <2>3. CASE k > Len(g.log[v])
    <3>1. h.log[v][k].term = v
      <4>1. k \in (Len(g.log[v]) + 1)..Len(h.log[v])
          BY <1>3, <2>1, <2>3 DEF Same
      <4> QED BY <1>2, <4>1 DEF Continues, Grows
    <3>2. g.log[t][k] = h.log[v][k]
        BY <2>1 DEF Same
    <3>3. g.log[t][k].term <= t
        BY <1>1, <1>3 DEF LogsGood
    <3> QED BY <1>2, <3>1, <3>2, <3>3
  <2> QED BY <1>3, <2>2, <2>3
<1> QED BY <1>2, <1>3, <1>4 DEF Lacks

LEMMA LacksLater ==
    ASSUME NEW h, NEW t \in Nat, NEW k, NEW u \in Nat, NEW v \in Nat, u <= v, Lacks(h, t, k, u)
    PROVE  Lacks(h, t, k, v)
BY DEF Lacks

LEMMA ChosenContinues ==
    ASSUME NEW g \in HistoryType, NEW h \in HistoryType, NEW i, Continues(g, h, i),
           NEW t \in Nat, NEW k \in Nat, Chosen(g, t, k)
    PROVE  Chosen(h, t, k)
<1>1. g.log[t] \in Seq(EntryType) /\ h.log[t] \in Seq(EntryType)
    BY ContinuesFacts
<1>2. Same(g.log[t], h.log[t], k) /\ 1 <= k
  <2>1. 1 <= k /\ k <= Len(g.log[t])
      BY <1>1 DEF Chosen
  <2> QED BY <2>1, ContinuesFacts
<1>3. k \in 1..Len(h.log[t]) /\ h.log[t][k].term = t
    BY <1>1, <1>2, SMTT(30) DEF Same, Chosen
<1>4. PICK Q : Quorum(Q) /\ \A q \in Q : k <= g.acked[q][t]
    BY DEF Chosen
<1>5. ASSUME NEW q \in Q
      PROVE  k <= h.acked[q][t]
  <2>1. q \in Server
      BY <1>4 DEF Quorum
  <2>2. g.acked[q][t] <= h.acked[q][t] /\ g.acked[q][t] \in Nat /\ h.acked[q][t] \in Nat
      BY <2>1, HistoryFields DEF Continues
  <2> QED BY <1>4, <2>2
<1> QED BY <1>3, <1>4, <1>5 DEF Chosen

LEMMA SettledContinues ==
    ASSUME NEW g \in HistoryType, NEW h \in HistoryType, NEW i, Continues(g, h, i),
           NEW log \in Seq(EntryType), NEW x \in Nat, NEW u \in Nat, Settled(g, log, x, u)
    PROVE  Settled(h, log, x, u)
<1>1. CASE x = 0
    BY <1>1 DEF Settled
<1>2. CASE x # 0
  <2>1. PICK t, k \in Nat : t <= u /\ x <= k /\ Chosen(g, t, k) /\ Same(g.log[t], log, x)
      BY <1>2 DEF Settled
  <2>2. Chosen(h, t, k) /\ Same(h.log[t], log, x)
      BY <2>1, ChosenContinues, SameContinues
  <2> QED BY <2>1, <2>2 DEF Settled
<1> QED BY <1>1, <1>2

(* Settled depends only on the settled part, and lasts.                    *)
LEMMA SettledSame ==
    ASSUME NEW h \in HistoryType, NEW a \in Seq(EntryType), NEW b \in Seq(EntryType),
           NEW x \in Nat, NEW y \in Nat, y <= x, NEW u \in Nat, NEW v \in Nat, u <= v,
           Settled(h, a, x, u), Same(a, b, y)
    PROVE  Settled(h, b, y, v)
<1>1. CASE y = 0
    BY <1>1 DEF Settled
<1>2. CASE y # 0
  <2>1. PICK t, k \in Nat : t <= u /\ x <= k /\ Chosen(h, t, k) /\ Same(h.log[t], a, x)
      BY <1>2 DEF Settled
  <2>2. h.log[t] \in Seq(EntryType)
      BY HistoryFields
  <2>3. Same(h.log[t], a, y)
      BY <2>1, <2>2, SameFacts
  <2>4. Same(h.log[t], b, y)
      BY <2>2, <2>3, SameFacts
  <2> QED BY <2>1, <2>4 DEF Settled
<1> QED BY <1>1, <1>2

LEMMA SettledLess ==
    ASSUME NEW h \in HistoryType, NEW a \in Seq(EntryType),
           NEW x \in Nat, NEW y \in Nat, y <= x, NEW u \in Nat, NEW v \in Nat, u <= v,
           Settled(h, a, x, u)
    PROVE  Settled(h, a, y, v)
<1>1. CASE y = 0
    BY <1>1 DEF Settled
<1>2. CASE y # 0
  <2>1. PICK t, k \in Nat : t <= u /\ x <= k /\ Chosen(h, t, k) /\ Same(h.log[t], a, x)
      BY <1>2 DEF Settled
  <2>2. Same(h.log[t], a, y)
      BY <2>1, HistoryFields, SameFacts
  <2> QED BY <2>1, <2>2 DEF Settled
<1> QED BY <1>1, <1>2

(* What covered an acknowledgement goes on covering it, as long as the     *)
(* voter acknowledges nothing more of terms below u.                       *)
LEMMA CoveredContinues ==
    ASSUME NEW g, HistoryGood(g), NEW h \in HistoryType, NEW i, Continues(g, h, i),
           NEW q \in Server, NEW u \in Nat, NEW a \in Seq(EntryType), NEW b \in Seq(EntryType),
           Covered(g, q, u, a), Same(a, b, Len(a)),
           \A t \in Nat : t < u => h.acked[q][t] = g.acked[q][t]
    PROVE  Covered(h, q, u, b)
<1> SUFFICES ASSUME NEW t \in Nat, NEW k \in Nat, t < u, 1 <= k, k <= h.acked[q][t],
                    h.log[t][k].term = t
             PROVE  Same(h.log[t], b, k) \/ Lacks(h, t, k, u - 1)
    BY DEF Covered
<1>1. /\ g \in HistoryType /\ g.log[t] \in Seq(EntryType) /\ h.log[t] \in Seq(EntryType)
      /\ g.acked[q][t] \in Nat
    BY HistoryFields DEF HistoryGood
<1>2. k <= g.acked[q][t]
    OBVIOUS
<1>3. k <= Len(g.log[t])
    BY <1>1, <1>2, SMTT(30) DEF HistoryGood, AcksGood
<1>4. g.log[t][k].term = t
  <2>1. Same(g.log[t], h.log[t], k)
      BY <1>1, <1>3, ContinuesFacts
  <2> QED BY <2>1, SMTT(30) DEF Same
<1>5. CASE Same(g.log[t], a, k)
  <2>1. k <= Len(a)
      BY <1>5 DEF Same
  <2>2. Same(a, b, k)
      BY <2>1, SameFacts
  <2>3. Same(g.log[t], b, k)
      BY <1>1, <1>5, <2>2, SameFacts
  <2> QED BY <1>1, <2>3, SameContinues
<1>6. CASE Lacks(g, t, k, u - 1)
  <2>1. u - 1 \in Nat
      OBVIOUS
  <2> QED BY <1>3, <1>6, <2>1, LacksContinues
<1> QED BY <1>2, <1>4, <1>5, <1>6 DEF Covered

LEMMA SumWithin ==
    \A a, b, c, d \in Nat : a + b <= c /\ c <= d => a + b <= d
OBVIOUS

LEMMA MsgContinues ==
    ASSUME NEW g \in HistoryType, NEW h \in HistoryType, NEW i, Continues(g, h, i),
           NEW m \in MessageType, MsgGood(g, m)
    PROVE  MsgGood(h, m)
<1>1. /\ m.type \in MsgTypes /\ m.from \in Server /\ m.to \in Server /\ m.term \in Nat
      /\ m.index \in Nat /\ m.entries \in Seq(EntryType) /\ m.commit \in Nat
    BY MessageFields
<1> DEFINE t == m.term
<1>2. /\ g.log[t] \in Seq(EntryType) /\ h.log[t] \in Seq(EntryType)
      /\ Len(g.log[t]) <= Len(h.log[t]) /\ Same(g.log[t], h.log[t], Len(g.log[t]))
    BY <1>1, ContinuesFacts
<1>3. /\ g.winner[t] # Nil => h.winner[t] = g.winner[t]
      /\ \A q \in Server : /\ g.acked[q][t] <= h.acked[q][t]
                           /\ g.acked[q][t] \in Nat /\ h.acked[q][t] \in Nat
                           /\ g.vote[q][t] # Nil => h.vote[q][t] = g.vote[q][t]
                           /\ g.vote[q][t] = q => h.stood[q][t] = g.stood[q][t]
    BY <1>1, HistoryFields, SMTT(30) DEF Continues
<1>4. m.from # Nil /\ m.to # Nil
    BY <1>1, ServerAssumption
<1>5. ASSUME m.type \in {"MsgApp", "MsgHeartbeat"}
      PROVE  h.winner[t] = m.from /\ Settled(h, h.log[t], m.commit, t)
  <2>1. g.winner[t] = m.from /\ Settled(g, g.log[t], m.commit, t)
      BY <1>5 DEF MsgGood
  <2>2. CASE m.commit = 0
      BY <1>3, <1>4, <2>1, <2>2 DEF Settled
  <2>3. CASE m.commit # 0
    <3>1. Same(g.log[t], h.log[t], m.commit)
      <4>1. m.commit <= Len(g.log[t])
          BY <2>1, <2>3 DEF Settled, Same
      <4> QED BY <1>1, <1>2, <4>1, SameFacts
    <3>2. Settled(h, g.log[t], m.commit, t)
        BY <1>1, <1>2, <2>1, SettledContinues
    <3> QED BY <1>1, <1>2, <1>3, <1>4, <2>1, <3>1, <3>2, SettledSame
  <2> QED BY <2>2, <2>3
<1>6. ASSUME m.type = "MsgApp"
      PROVE  AppGood(h, m)
  <2>1. AppGood(g, m)
      BY <1>6 DEF MsgGood
  <2>2. \A x \in 1..Len(g.log[t]) : h.log[t][x] = g.log[t][x]
      BY <1>2 DEF Same
  <2>3. /\ Len(m.entries) \in Nat /\ Len(g.log[t]) \in Nat /\ Len(h.log[t]) \in Nat
        /\ m.index \in Nat /\ Len(g.log[t]) <= Len(h.log[t])
        /\ m.index + Len(m.entries) <= Len(g.log[t])
      BY <1>1, <1>2, <2>1 DEF AppGood
  <2>4. \A x \in 1..Len(m.entries) : m.entries[x] = h.log[t][m.index + x]
    <3>1. ASSUME NEW x \in 1..Len(m.entries)
          PROVE  m.entries[x] = h.log[t][m.index + x]
      <4>1. m.index + x \in 1..Len(g.log[t])
          BY <1>1, <2>3, SMTT(30)
      <4> QED BY <2>1, <2>2, <4>1 DEF AppGood
    <3> QED BY <3>1
  <2>5. m.index # 0 => h.log[t][m.index] = g.log[t][m.index]
    <3>1. m.index # 0 => m.index \in 1..Len(g.log[t])
        BY <1>1, <2>3
    <3> QED BY <2>2, <3>1
  <2>6. m.index + Len(m.entries) <= Len(h.log[t])
      BY <2>3, SumWithin, Zenon
  <2> QED BY <2>1, <2>4, <2>5, <2>6 DEF AppGood
<1>7. m.type = "MsgHeartbeat" => m.commit <= h.acked[m.to][m.term]
    BY <1>1, <1>3 DEF MsgGood
<1>8. m.type = "MsgAppResp" /\ ~m.reject => m.index <= h.acked[m.from][m.term]
    BY <1>1, <1>3 DEF MsgGood
<1>9. m.type = "MsgVote" => /\ h.vote[m.from][m.term] = m.from
                            /\ m.index = Len(h.stood[m.from][m.term])
                            /\ m.log_term = LastTerm(h.stood[m.from][m.term])
    BY <1>1, <1>3, <1>4 DEF MsgGood
<1>10. m.type = "MsgVoteResp" /\ ~m.reject => h.vote[m.from][m.term] = m.to
    BY <1>1, <1>3, <1>4 DEF MsgGood
<1>11. m.type \in {"MsgProp", "MsgTransferLeader"} => h.winner[m.term] = m.to
    BY <1>3, <1>4 DEF MsgGood
<1> QED BY <1>5, <1>6, <1>7, <1>8, <1>9, <1>10, <1>11 DEF MsgGood

(* The log of a Raft object stays good; so do its acknowledgements, unless *)
(* new ones are made.                                                      *)
LEMMA LogContinues ==
    ASSUME NEW g \in HistoryType, NEW h \in HistoryType, NEW i, Continues(g, h, i),
           NEW n, NodeOK(n), LogGood(g, n)
    PROVE  LogGood(h, n)
<1>1. n.log \in Seq(EntryType) /\ n.term \in Nat /\ n.committed \in Nat
    BY NodeFields
<1>2. Agrees(h, n.log)
    BY <1>1, AgreesContinues DEF LogGood
<1>3. Settled(h, n.log, n.committed, n.term)
    BY <1>1, SettledContinues DEF LogGood
<1> QED BY <1>2, <1>3 DEF LogGood

LEMMA AckContinues ==
    ASSUME NEW g, HistoryGood(g), NEW h \in HistoryType, NEW i, Continues(g, h, i),
           NEW n, NodeOK(n), NEW t \in Nat, NEW k \in Nat, 1 <= k, k <= g.acked[n.id][t],
           AckGood(g, n)
    PROVE  t <= n.term /\ (Same(h.log[t], n.log, k) \/ Lacks(h, t, k, n.term))
<1>1. n.log \in Seq(EntryType) /\ n.term \in Nat /\ n.id \in Server
    BY NodeFields
<1>2. g \in HistoryType /\ g.log[t] \in Seq(EntryType) /\ g.acked[n.id][t] \in Nat
    BY <1>1, HistoryFields DEF HistoryGood
<1>3. t <= n.term /\ (Same(g.log[t], n.log, k) \/ Lacks(g, t, k, n.term))
    BY DEF AckGood
<1>4. k <= Len(g.log[t])
    BY <1>1, <1>2 DEF HistoryGood, AcksGood
<1>5. CASE Same(g.log[t], n.log, k)
    BY <1>1, <1>2, <1>3, <1>5, SameContinues
<1>6. CASE Lacks(g, t, k, n.term)
    BY <1>1, <1>3, <1>4, <1>6, LacksContinues
<1> QED BY <1>3, <1>5, <1>6

(* Every other server's Raft object stays explained.                       *)
LEMMA OtherContinues ==
    ASSUME NEW g, HistoryGood(g), NEW h \in HistoryType, NEW i, Continues(g, h, i),
           NEW n, NodeOK(n), n.id # i, n.msgs = {}, NodeGood(g, n)
    PROVE  NodeGood(h, n)
<1>1. g \in HistoryType
    BY DEF HistoryGood
<1>2. /\ n.log \in Seq(EntryType) /\ n.term \in Nat /\ n.id \in Server /\ n.lead \in Id
      /\ n.vote \in Id /\ n.prs \in [Server -> ProgressType]
    BY NodeFields
<1>3. h.acked[n.id] = g.acked[n.id] /\ h.vote[n.id] = g.vote[n.id] /\ h.stood[n.id] = g.stood[n.id]
    BY <1>2 DEF Continues
<1>4. /\ g.winner[n.term] # Nil => h.winner[n.term] = g.winner[n.term]
      /\ h.winner[n.term] # g.winner[n.term] => h.winner[n.term] = i
      /\ h.log[n.term] # g.log[n.term] => h.winner[n.term] = i
    BY <1>2 DEF Continues
<1>5. LogGood(h, n)
    BY <1>1, LogContinues DEF NodeGood
<1>6. AckGood(h, n)
  <2> SUFFICES ASSUME NEW t \in Nat, NEW k \in Nat, 1 <= k, k <= h.acked[n.id][t]
               PROVE  t <= n.term /\ (Same(h.log[t], n.log, k) \/ Lacks(h, t, k, n.term))
      BY DEF AckGood
  <2> QED BY <1>3, AckContinues DEF NodeGood
<1>7. VoteGood(h, n)
  <2>1. VoteGood(g, n)
      BY DEF NodeGood
  <2>2. h.winner[n.term] = n.id => g.winner[n.term] = n.id
      BY <1>4
  <2>3. \A j \in Server : g.vote[j][n.term] = n.id => h.vote[j][n.term] = n.id
      BY <1>2, ServerAssumption DEF Continues
  <2> QED BY <1>3, <2>1, <2>2, <2>3 DEF VoteGood
<1>8. LeadGood(h, n)
  <2>1. LeadGood(g, n)
      BY DEF NodeGood
  <2>2. n.lead # Nil => n.lead = h.winner[n.term]
      BY <1>4, <2>1 DEF LeadGood
  <2>3. ASSUME n.state = "Leader"
        PROVE  /\ h.winner[n.term] = n.id
               /\ h.log[n.term] = n.log
               /\ \A j \in Server : /\ n.prs[j].match <= h.acked[j][n.term]
                                    /\ n.prs[j].next <= Len(n.log) + 1
    <3>1. h.winner[n.term] = n.id /\ h.log[n.term] = n.log
        BY <1>2, <1>4, <2>1, <2>3, ServerAssumption DEF LeadGood
    <3>2. ASSUME NEW j \in Server
          PROVE  n.prs[j].match <= h.acked[j][n.term]
      <4>1. n.prs[j].match \in Nat
          BY <1>2 DEF ProgressType
      <4>2. g.acked[j][n.term] <= h.acked[j][n.term] /\ g.acked[j][n.term] \in Nat
            /\ h.acked[j][n.term] \in Nat
          BY <1>1, <1>2, HistoryFields DEF Continues
      <4>3. n.prs[j].match <= g.acked[j][n.term]
          BY <2>1, <2>3 DEF LeadGood
      <4> QED BY <4>1, <4>2, <4>3
    <3> QED BY <2>1, <2>3, <3>1, <3>2 DEF LeadGood
  <2> QED BY <2>1, <2>2, <2>3 DEF LeadGood
<1> QED BY <1>5, <1>6, <1>7, <1>8 DEF NodeGood, OutGood

LEMMA DiskContinues ==
    ASSUME NEW g \in HistoryType, NEW h \in HistoryType, NEW i, Continues(g, h, i),
           NEW d \in DiskType, NEW n, DiskGood(g, d, n)
    PROVE  DiskGood(h, d, n)
<1>1. d.log \in Seq(EntryType) /\ d.term \in Nat /\ d.committed \in Nat
    BY DEF DiskType
<1> QED BY <1>1, SettledContinues DEF DiskGood

-----------------------------------------------------------------------------
(* The four ways in which a history goes on.                               *)

History(l, a, v, w, s) == [log |-> l, acked |-> a, vote |-> v, winner |-> w, stood |-> s]

LEMMA HistoryParts ==
    ASSUME NEW h \in HistoryType
    PROVE  /\ h.log \in [Nat -> Seq(EntryType)] /\ h.acked \in [Server -> [Nat -> Nat]]
           /\ h.vote \in [Server -> [Nat -> Id]] /\ h.winner \in [Nat -> Id]
           /\ h.stood \in [Server -> [Nat -> Seq(EntryType)]]
BY DEF HistoryType

(* What only depends on the logs and the acknowledgements.                 *)
LEMMA SameLogs ==
    ASSUME NEW g, NEW h, h.log = g.log, h.acked = g.acked
    PROVE  /\ \A log : Agrees(g, log) <=> Agrees(h, log)
           /\ \A q, u, log : Covered(g, q, u, log) <=> Covered(h, q, u, log)
           /\ LogsGood(g) <=> LogsGood(h)
           /\ AcksGood(g) <=> AcksGood(h)
<1>1. \A log : Agrees(g, log) <=> Agrees(h, log)
    BY DEF Agrees
<1>2. \A t, k, u : Lacks(g, t, k, u) <=> Lacks(h, t, k, u)
    BY DEF Lacks
<1>3. \A q, u, log : Covered(g, q, u, log) <=> Covered(h, q, u, log)
    BY <1>2, SMTT(30) DEF Covered
<1>4. LogsGood(g) <=> LogsGood(h)
    BY <1>1, Zenon DEF LogsGood
<1>5. AcksGood(g) <=> AcksGood(h)
    BY Zenon DEF AcksGood
<1> QED BY <1>1, <1>3, <1>4, <1>5

LEMMA GrowsRefl ==
    ASSUME NEW a \in Seq(EntryType), NEW t
    PROVE  Grows(a, a, t)
<1>1. Len(a) \in Nat
    OBVIOUS
<1> QED BY <1>1 DEF Grows, Same

(* Server i votes for c in term t; it stands with `log' when c is itself.  *)
LEMMA CastVote ==
    ASSUME NEW g, HistoryGood(g), NEW i \in Server, NEW c \in Server, NEW t \in Nat,
           g.vote[i][t] = Nil, NEW log \in Seq(EntryType),
           c = i => Agrees(g, log) /\ \A k \in 1..Len(log) : log[k].term < t,
           c # i => g.vote[c][t] = c /\ log = g.stood[c][t],
           g.winner[t] = Nil => Covered(g, i, t, log)
    PROVE  \E h : /\ HistoryGood(h) /\ Continues(g, h, i)
                  /\ h.log = g.log /\ h.acked = g.acked /\ h.winner = g.winner
                  /\ h.vote[i][t] = c
                  /\ \A u \in Nat : u # t => h.vote[i][u] = g.vote[i][u]
                  /\ c = i => h.stood[i][t] = log
<1> DEFINE v == [g.vote EXCEPT ![i] = [g.vote[i] EXCEPT ![t] = c]]
           s == IF c = i THEN [g.stood EXCEPT ![i] = [g.stood[i] EXCEPT ![t] = log]] ELSE g.stood
           h == History(g.log, g.acked, v, g.winner, s)
<1>1. /\ g \in HistoryType /\ LogsGood(g) /\ AcksGood(g) /\ WinnersGood(g)
      /\ VotersGood(g) /\ StoodGood(g)
    BY DEF HistoryGood
<1>2. /\ g.log \in [Nat -> Seq(EntryType)] /\ g.acked \in [Server -> [Nat -> Nat]]
      /\ g.vote \in [Server -> [Nat -> Id]] /\ g.winner \in [Nat -> Id]
      /\ g.stood \in [Server -> [Nat -> Seq(EntryType)]]
    BY <1>1, HistoryParts
<1>3. c \in Id /\ c # Nil /\ i # Nil
    BY ServerAssumption DEF Id
<1>4. v \in [Server -> [Nat -> Id]] /\ s \in [Server -> [Nat -> Seq(EntryType)]]
    BY <1>2, <1>3
<1>6. /\ v[i][t] = c
      /\ \A q \in Server, u \in Nat : q # i \/ u # t => v[q][u] = g.vote[q][u]
      /\ \A q \in Server : q # i => v[q] = g.vote[q]
    BY <1>2
<1>7. /\ c = i => s[i][t] = log
      /\ \A q \in Server, u \in Nat : q # i \/ u # t => s[q][u] = g.stood[q][u]
      /\ \A q \in Server : q # i => s[q] = g.stood[q]
      /\ c # i => s = g.stood
    BY <1>2
<1> HIDE DEF v, s
<1>5. /\ h \in HistoryType
      /\ h.log = g.log /\ h.acked = g.acked /\ h.vote = v /\ h.winner = g.winner /\ h.stood = s
    BY <1>2, <1>4 DEF History, HistoryType
<1> HIDE DEF h
<1>8. Continues(g, h, i)
  <2>1. \A u \in Nat : Grows(g.log[u], h.log[u], u)
      BY <1>2, <1>5, GrowsRefl
  <2>2. ASSUME NEW q \in Server, NEW u \in Nat
        PROVE  /\ g.acked[q][u] <= h.acked[q][u]
               /\ g.vote[q][u] # Nil => h.vote[q][u] = g.vote[q][u]
               /\ g.vote[q][u] = q => h.stood[q][u] = g.stood[q][u]
    <3>1. g.acked[q][u] \in Nat /\ h.acked[q][u] = g.acked[q][u]
        BY <1>2, <1>5, SMTT(30)
    <3> QED BY <1>3, <1>5, <1>6, <1>7, <3>1
  <2> QED BY <1>5, <1>6, <1>7, <2>1, <2>2 DEF Continues
<1>9. /\ \A a : Agrees(g, a) <=> Agrees(h, a)
      /\ \A q, u, a : Covered(g, q, u, a) <=> Covered(h, q, u, a)
      /\ LogsGood(h) /\ AcksGood(h)
    BY <1>1, <1>5, SameLogs
<1>10. WinnersGood(h)
  <2> SUFFICES ASSUME NEW u \in Nat
               PROVE  /\ h.winner[u] = Nil /\ u # 1 => h.log[u] = <<>>
                      /\ h.winner[u] # Nil =>
                            /\ u >= 2 /\ h.log[u] # <<>>
                            /\ h.vote[h.winner[u]][u] = h.winner[u]
                            /\ \E Q : Quorum(Q) /\ Elects(h, u, Q)
      BY DEF WinnersGood
  <2>1. /\ g.winner[u] = Nil /\ u # 1 => g.log[u] = <<>>
        /\ g.winner[u] # Nil => u >= 2 /\ g.log[u] # <<>> /\ g.vote[g.winner[u]][u] = g.winner[u]
      BY <1>1 DEF WinnersGood
  <2>2. ASSUME g.winner[u] # Nil
        PROVE  \E Q : Quorum(Q) /\ Elects(h, u, Q)
    <3>1. PICK Q : Quorum(Q) /\ Elects(g, u, Q)
        BY <1>1, <2>2 DEF WinnersGood
    <3>2. ASSUME NEW q \in Q
          PROVE  h.vote[q][u] = h.winner[u] /\ Covered(h, q, u, h.log[u])
      <4>1. q \in Server /\ g.vote[q][u] = g.winner[u] /\ Covered(g, q, u, g.log[u])
          BY <3>1 DEF Elects, Quorum
      <4>2. h.vote[q][u] = g.vote[q][u]
          BY <1>5, <1>6, <2>2, <4>1
      <4> QED BY <1>5, <1>9, <4>1, <4>2
    <3> QED BY <3>1, <3>2 DEF Elects
  <2>3. g.winner[u] # Nil => h.vote[g.winner[u]][u] = g.winner[u]
    <3>1. g.winner[u] # Nil => g.winner[u] \in Server
        BY <1>2 DEF Id
    <3> QED BY <1>5, <1>6, <2>1, <3>1
  <2> QED BY <1>5, <2>1, <2>2, <2>3
<1>11. VotersGood(h)
  <2> SUFFICES ASSUME NEW q \in Server, NEW d \in Server, NEW u \in Nat, h.vote[q][u] = d
               PROVE  /\ h.vote[d][u] = d
                      /\ h.winner[u] = Nil => Covered(h, q, u, h.stood[d][u])
      BY DEF VotersGood
  <2>1. CASE q = i /\ u = t
    <3>1. d = c
        BY <1>5, <1>6, <2>1
    <3>2. h.vote[c][t] = c
        BY <1>5, <1>6
    <3>3. h.stood[c][t] = log
        BY <1>5, <1>7
    <3> QED BY <1>5, <1>9, <2>1, <3>1, <3>2, <3>3
  <2>2. CASE q # i \/ u # t
    <3>1. g.vote[q][u] = d
        BY <1>5, <1>6, <2>2
    <3>2. g.vote[d][u] = d /\ (g.winner[u] = Nil => Covered(g, q, u, g.stood[d][u]))
        BY <1>1, <3>1 DEF VotersGood
    <3>3. d # i \/ u # t
        BY <1>3, <3>2
    <3> QED BY <1>5, <1>6, <1>7, <1>9, <3>2, <3>3
  <2> QED BY <2>1, <2>2
<1>12. StoodGood(h)
  <2> SUFFICES ASSUME NEW d \in Server, NEW u \in Nat, h.vote[d][u] = d
               PROVE  /\ Agrees(h, h.stood[d][u])
                      /\ \A k \in 1..Len(h.stood[d][u]) : h.stood[d][u][k].term < u
      BY DEF StoodGood
  <2>1. CASE d = i /\ u = t
    <3>1. c = i /\ h.stood[d][u] = log
        BY <1>5, <1>6, <1>7, <2>1
    <3> QED BY <1>9, <2>1, <3>1
  <2>2. CASE d # i \/ u # t
    <3>1. g.vote[d][u] = d /\ h.stood[d][u] = g.stood[d][u]
        BY <1>5, <1>6, <1>7, <2>2
    <3> QED BY <1>1, <1>9, <3>1 DEF StoodGood
  <2> QED BY <2>1, <2>2
<1>13. HistoryGood(h)
    BY <1>5, <1>9, <1>10, <1>11, <1>12 DEF HistoryGood
<1> QED BY <1>5, <1>6, <1>7, <1>8, <1>13

(* What the last two ways have in common: only the log of term t and what  *)
(* i has acknowledged of it change, and i has not voted in a later term.   *)
LEMMA RestContinues ==
    ASSUME NEW g, HistoryGood(g), NEW h \in HistoryType, NEW i \in Server, NEW t \in Nat,
           Continues(g, h, i), h.vote = g.vote, h.stood = g.stood,
           \A u \in Nat : u # t => h.log[u] = g.log[u] /\ h.winner[u] = g.winner[u],
           \A q \in Server, u \in Nat : q # i \/ u # t => h.acked[q][u] = g.acked[q][u],
           \A u \in Nat : u > t => g.vote[i][u] = Nil,
           g.winner[t] # Nil => h.winner[t] = g.winner[t]
    PROVE  /\ StoodGood(h) /\ VotersGood(h)
           /\ \A q \in Server, u \in Nat, a, b \in Seq(EntryType) :
                 g.vote[q][u] # Nil /\ Covered(g, q, u, a) /\ Same(a, b, Len(a))
                     => Covered(h, q, u, b)
           /\ \A u \in Nat : g.winner[u] # Nil =>
                 \E Q : Quorum(Q) /\ Elects(h, u, Q)
<1>1. /\ g \in HistoryType /\ LogsGood(g) /\ AcksGood(g) /\ WinnersGood(g)
      /\ VotersGood(g) /\ StoodGood(g)
    BY DEF HistoryGood
<1>2. ASSUME NEW q \in Server, NEW u \in Nat, NEW a \in Seq(EntryType), NEW b \in Seq(EntryType),
             g.vote[q][u] # Nil, Covered(g, q, u, a), Same(a, b, Len(a))
      PROVE  Covered(h, q, u, b)
  <2>1. ASSUME NEW v \in Nat, v < u
        PROVE  h.acked[q][v] = g.acked[q][v]
      BY <1>2, <2>1
  <2> QED BY <1>2, <2>1, CoveredContinues
<1>3. ASSUME NEW c \in Server, NEW u \in Nat, h.vote[c][u] = c
      PROVE  /\ Agrees(h, h.stood[c][u])
             /\ \A k \in 1..Len(h.stood[c][u]) : h.stood[c][u][k].term < u
  <2>1. Agrees(g, g.stood[c][u]) /\ \A k \in 1..Len(g.stood[c][u]) : g.stood[c][u][k].term < u
      BY <1>1, <1>3 DEF StoodGood
  <2>2. g.stood[c][u] \in Seq(EntryType)
      BY <1>1, HistoryFields
  <2> QED BY <1>1, <2>1, <2>2, AgreesContinues
<1>4. ASSUME NEW q \in Server, NEW c \in Server, NEW u \in Nat, h.vote[q][u] = c
      PROVE  /\ h.vote[c][u] = c
             /\ h.winner[u] = Nil => Covered(h, q, u, h.stood[c][u])
  <2>1. g.vote[c][u] = c /\ (g.winner[u] = Nil => Covered(g, q, u, g.stood[c][u]))
      BY <1>1, <1>4 DEF VotersGood
  <2>2. h.winner[u] = Nil => g.winner[u] = Nil
      OBVIOUS
  <2>3. g.stood[c][u] \in Seq(EntryType)
      BY <1>1, HistoryFields
  <2>4. Same(g.stood[c][u], g.stood[c][u], Len(g.stood[c][u]))
      BY <2>3 DEF Same
  <2>5. g.vote[q][u] # Nil
      BY <1>4, ServerAssumption
  <2> QED BY <1>2, <2>1, <2>2, <2>3, <2>4, <2>5
<1>5. ASSUME NEW u \in Nat, g.winner[u] # Nil
      PROVE  \E Q : Quorum(Q) /\ Elects(h, u, Q)
  <2>1. PICK Q : Quorum(Q) /\ Elects(g, u, Q)
      BY <1>1, <1>5 DEF WinnersGood
  <2>2. ASSUME NEW q \in Q
        PROVE  h.vote[q][u] = h.winner[u] /\ Covered(h, q, u, h.log[u])
    <3>1. q \in Server /\ g.vote[q][u] = g.winner[u] /\ Covered(g, q, u, g.log[u])
        BY <2>1 DEF Quorum, Elects
    <3>2. /\ g.log[u] \in Seq(EntryType) /\ h.log[u] \in Seq(EntryType)
          /\ Same(g.log[u], h.log[u], Len(g.log[u]))
        BY <1>1, ContinuesFacts
    <3>3. Covered(h, q, u, h.log[u])
        BY <1>2, <1>5, <3>1, <3>2
    <3>4. h.winner[u] = g.winner[u]
        BY <1>5
    <3> QED BY <3>1, <3>3, <3>4
  <2> QED BY <2>1, <2>2 DEF Elects
<1>6. StoodGood(h)
    BY <1>3 DEF StoodGood
<1>7. VotersGood(h)
    BY <1>4 DEF VotersGood
<1> QED BY <1>2, <1>5, <1>6, <1>7

(* Server i acknowledges the log of term t up to x.                        *)
LEMMA Acknowledge ==
    ASSUME NEW g, HistoryGood(g), NEW i \in Server, NEW t \in Nat,
           NEW x \in Nat, x <= Len(g.log[t]),
           \A u \in Nat : u > t => g.vote[i][u] = Nil
    PROVE  \E h : /\ HistoryGood(h) /\ Continues(g, h, i)
                  /\ h.log = g.log /\ h.vote = g.vote
                  /\ h.winner = g.winner /\ h.stood = g.stood
                  /\ x <= h.acked[i][t]
                  /\ h.acked[i][t] = x \/ h.acked[i][t] = g.acked[i][t]
                  /\ \A u \in Nat : u # t => h.acked[i][u] = g.acked[i][u]
<1> DEFINE y == IF g.acked[i][t] < x THEN x ELSE g.acked[i][t]
           a == [g.acked EXCEPT ![i] = [g.acked[i] EXCEPT ![t] = y]]
           h == History(g.log, a, g.vote, g.winner, g.stood)
<1>1. /\ g \in HistoryType /\ LogsGood(g) /\ AcksGood(g) /\ WinnersGood(g)
      /\ VotersGood(g) /\ StoodGood(g)
    BY DEF HistoryGood
<1>2. /\ g.log \in [Nat -> Seq(EntryType)] /\ g.acked \in [Server -> [Nat -> Nat]]
      /\ g.vote \in [Server -> [Nat -> Id]] /\ g.winner \in [Nat -> Id]
      /\ g.stood \in [Server -> [Nat -> Seq(EntryType)]]
    BY <1>1, HistoryParts
<1>3. /\ y \in Nat /\ x <= y /\ g.acked[i][t] <= y /\ y <= Len(g.log[t])
      /\ y = x \/ y = g.acked[i][t]
  <2>1. g.acked[i][t] \in Nat /\ Len(g.log[t]) \in Nat
      BY <1>1, HistoryFields
  <2>2. g.acked[i][t] <= Len(g.log[t])
      BY <1>1 DEF AcksGood
  <2> QED BY <2>1, <2>2
<1> HIDE DEF y
<1>4. a \in [Server -> [Nat -> Nat]]
    BY <1>2, <1>3
<1>5. /\ a[i][t] = y
      /\ \A q \in Server, u \in Nat : q # i \/ u # t => a[q][u] = g.acked[q][u]
      /\ \A q \in Server : q # i => a[q] = g.acked[q]
    BY <1>2
<1> HIDE DEF a
<1>6. /\ h \in HistoryType
      /\ h.log = g.log /\ h.acked = a /\ h.vote = g.vote /\ h.winner = g.winner
      /\ h.stood = g.stood
    BY <1>2, <1>4 DEF History, HistoryType
<1> HIDE DEF h
<1>7. Continues(g, h, i)
  <2>1. \A u \in Nat : Grows(g.log[u], h.log[u], u)
      BY <1>2, <1>6, GrowsRefl
  <2>2. ASSUME NEW q \in Server, NEW u \in Nat
        PROVE  g.acked[q][u] <= h.acked[q][u]
    <3>1. g.acked[q][u] \in Nat
        BY <1>2
    <3> QED BY <1>3, <1>5, <1>6, <3>1
  <2> QED BY <1>5, <1>6, <2>1, <2>2 DEF Continues
<1>8. /\ StoodGood(h) /\ VotersGood(h)
      /\ \A u \in Nat : g.winner[u] # Nil => \E Q : Quorum(Q) /\ Elects(h, u, Q)
  <2>1. \A u \in Nat : u # t => h.log[u] = g.log[u] /\ h.winner[u] = g.winner[u]
      BY <1>6, Zenon
  <2>2. \A q \in Server, u \in Nat : q # i \/ u # t => h.acked[q][u] = g.acked[q][u]
      BY <1>5, <1>6, Zenon
  <2> QED BY <1>6, <1>7, <2>1, <2>2, RestContinues, SMTT(60)
<1>9. WinnersGood(h)
    BY <1>1, <1>6, <1>8 DEF WinnersGood
<1>10. AcksGood(h)
  <2> SUFFICES ASSUME NEW q \in Server, NEW u \in Nat
               PROVE  h.acked[q][u] <= Len(h.log[u])
      BY DEF AcksGood
  <2> QED BY <1>1, <1>3, <1>5, <1>6 DEF AcksGood
<1>11. LogsGood(h)
  <2>1. \A log : Agrees(g, log) <=> Agrees(h, log)
      BY <1>6 DEF Agrees
  <2> QED BY <1>1, <1>6, <2>1 DEF LogsGood
<1>12. HistoryGood(h)
    BY <1>6, <1>8, <1>9, <1>10, <1>11 DEF HistoryGood
<1> QED BY <1>3, <1>5, <1>6, <1>7, <1>12

(* Server i leads term t, or has just won it, and appends an entry of its  *)
(* term to its log.                                                        *)
LEMMA Lead ==
    ASSUME NEW g, HistoryGood(g), NEW i \in Server, NEW t \in Nat, t >= 2,
           NEW log \in Seq(EntryType), NEW e \in EntryType, e.term = t,
           Agrees(g, log), \A k \in 1..Len(log) : log[k].term <= t,
           \/ g.winner[t] = Nil
           \/ g.winner[t] = i /\ log = g.log[t],
           g.vote[i][t] = i, \A u \in Nat : u > t => g.vote[i][u] = Nil,
           NEW Q, Quorum(Q), \A q \in Q : g.vote[q][t] = i /\ Covered(g, q, t, log)
    PROVE  \E h : /\ HistoryGood(h) /\ Continues(g, h, i)
                  /\ h.vote = g.vote /\ h.stood = g.stood
                  /\ h.log[t] = Append(log, e) /\ h.winner[t] = i
                  /\ h.acked[i][t] = Len(log) + 1
                  /\ \A u \in Nat : u # t =>
                        /\ h.acked[i][u] = g.acked[i][u]
                        /\ h.log[u] = g.log[u] /\ h.winner[u] = g.winner[u]
<1> DEFINE b == Append(log, e)
           l == [g.log EXCEPT ![t] = b]
           w == [g.winner EXCEPT ![t] = i]
           z == Len(log) + 1
           a == [g.acked EXCEPT ![i] = [g.acked[i] EXCEPT ![t] = z]]
           h == History(l, a, g.vote, w, g.stood)
<1>1. /\ g \in HistoryType /\ LogsGood(g) /\ AcksGood(g) /\ WinnersGood(g)
      /\ VotersGood(g) /\ StoodGood(g)
    BY DEF HistoryGood
<1>2. /\ g.log \in [Nat -> Seq(EntryType)] /\ g.acked \in [Server -> [Nat -> Nat]]
      /\ g.vote \in [Server -> [Nat -> Id]] /\ g.winner \in [Nat -> Id]
      /\ g.stood \in [Server -> [Nat -> Seq(EntryType)]]
    BY <1>1, HistoryParts
<1>3. /\ b \in Seq(EntryType) /\ Len(log) \in Nat /\ Len(b) = Len(log) + 1
      /\ \A x \in 1..Len(log) : b[x] = log[x]
      /\ b[Len(log) + 1] = e
    OBVIOUS
<1>4. Same(log, b, Len(log))
    BY <1>3 DEF Same
<1>5. i \in Id /\ i # Nil
    BY ServerAssumption DEF Id
<1> HIDE DEF b
<1>6. /\ l \in [Nat -> Seq(EntryType)] /\ l[t] = b /\ \A u \in Nat : u # t => l[u] = g.log[u]
      /\ w \in [Nat -> Id] /\ w[t] = i /\ \A u \in Nat : u # t => w[u] = g.winner[u]
    BY <1>2, <1>3, <1>5
<1>7. /\ a \in [Server -> [Nat -> Nat]]
      /\ a[i][t] = z
      /\ \A q \in Server, u \in Nat : q # i \/ u # t => a[q][u] = g.acked[q][u]
      /\ \A q \in Server : q # i => a[q] = g.acked[q]
  <2>1. z \in Nat
      BY <1>3
  <2> HIDE DEF z
  <2> QED BY <1>2, <2>1
<1> HIDE DEF a, l, w
<1>8. /\ h \in HistoryType
      /\ h.log = l /\ h.acked = a /\ h.vote = g.vote /\ h.winner = w
      /\ h.stood = g.stood
    BY <1>2, <1>6, <1>7 DEF History, HistoryType
<1> HIDE DEF h
<1>9. Grows(g.log[t], b, t) /\ Len(g.log[t]) <= Len(log) /\ Len(g.log[t]) \in Nat
  <2>1. CASE g.winner[t] = Nil
    <3>1. g.log[t] = <<>>
        BY <1>1, <2>1 DEF WinnersGood
    <3> QED BY <1>3, <3>1 DEF Grows, Same
  <2>2. CASE log = g.log[t]
    <3>1. ASSUME NEW x \in (Len(log) + 1)..Len(b)
          PROVE  b[x].term = t
      <4>1. x = Len(log) + 1
          BY <1>3
      <4> QED BY <1>3, <4>1
    <3> QED BY <1>3, <1>4, <2>2, <3>1 DEF Grows
  <2> QED BY <2>1, <2>2
<1>10. Continues(g, h, i)
  <2>1. ASSUME NEW u \in Nat
        PROVE  /\ Grows(g.log[u], h.log[u], u)
               /\ h.log[u] # g.log[u] => h.winner[u] = i
               /\ g.winner[u] # Nil => h.winner[u] = g.winner[u]
               /\ h.winner[u] # g.winner[u] => h.winner[u] = i
    <3>1. CASE u = t
        BY <1>6, <1>8, <1>9, <3>1
    <3>2. CASE u # t
        BY <1>2, <1>6, <1>8, <3>2, GrowsRefl
    <3> QED BY <3>1, <3>2
  <2>2. ASSUME NEW q \in Server, NEW u \in Nat
        PROVE  g.acked[q][u] <= h.acked[q][u]
    <3>1. g.acked[q][u] \in Nat /\ g.acked[i][t] \in Nat
        BY <1>2, ZenonT(60)
    <3>2. g.acked[i][t] <= Len(g.log[t])
        BY <1>1 DEF AcksGood
    <3>3. g.acked[i][t] <= z
        BY <1>3, <1>9, <3>1, <3>2
    <3>4. CASE q = i /\ u = t
        BY <1>7, <1>8, <3>3, <3>4
    <3>5. CASE q # i \/ u # t
      <4>1. h.acked[q][u] = g.acked[q][u]
          BY <1>7, <1>8, <3>5
      <4> QED BY <3>1, <4>1
    <3> QED BY <3>4, <3>5
  <2> QED BY <1>7, <1>8, <2>1, <2>2 DEF Continues
<1>11. /\ StoodGood(h) /\ VotersGood(h)
       /\ \A q \in Server, u \in Nat, c, d \in Seq(EntryType) :
             g.vote[q][u] # Nil /\ Covered(g, q, u, c) /\ Same(c, d, Len(c))
                 => Covered(h, q, u, d)
       /\ \A u \in Nat : g.winner[u] # Nil => \E P : Quorum(P) /\ Elects(h, u, P)
  <2>1. g.winner[t] # Nil => h.winner[t] = g.winner[t]
      BY <1>6, <1>8
  <2>2. /\ \A u \in Nat : u # t => h.log[u] = g.log[u] /\ h.winner[u] = g.winner[u]
        /\ \A q \in Server, u \in Nat : q # i \/ u # t => h.acked[q][u] = g.acked[q][u]
      BY <1>6, <1>7, <1>8
  <2>3. h.vote = g.vote /\ h.stood = g.stood
      BY <1>8
  <2> QED BY <1>8, <1>10, <2>1, <2>2, <2>3, RestContinues
<1>12. AcksGood(h)
  <2> SUFFICES ASSUME NEW q \in Server, NEW u \in Nat
               PROVE  h.acked[q][u] <= Len(h.log[u])
      BY DEF AcksGood
  <2>1. g.acked[q][u] <= Len(g.log[u]) /\ g.acked[q][u] \in Nat
      BY <1>1, <1>2, ZenonT(60) DEF AcksGood
  <2>2. CASE u = t /\ q = i
    <3>1. h.acked[q][u] = z /\ h.log[u] = b
        BY <1>6, <1>7, <1>8, <2>2
    <3> QED BY <1>3, <3>1
  <2>3. CASE u = t /\ q # i
    <3>1. h.acked[q][u] = g.acked[q][u] /\ h.log[u] = b
        BY <1>6, <1>7, <1>8, <2>3
    <3> QED BY <1>3, <1>9, <2>1, <2>3, <3>1
  <2>4. CASE u # t
      BY <1>6, <1>7, <1>8, <2>1, <2>4
  <2> QED BY <2>2, <2>3, <2>4
<1>13. LogsGood(h)
  <2> SUFFICES ASSUME NEW u \in Nat
               PROVE  /\ Agrees(h, h.log[u])
                      /\ \A k \in 1..Len(h.log[u]) : h.log[u][k].term <= u
                      /\ h.log[u] # <<>> => h.log[u][Len(h.log[u])].term = u
      BY DEF LogsGood
  <2>1. CASE u # t
    <3>1. h.log[u] = g.log[u] /\ g.log[u] \in Seq(EntryType)
        BY <1>2, <1>6, <1>8, <2>1
    <3>2. Agrees(h, g.log[u])
        BY <1>1, <1>8, <1>10, <3>1, AgreesContinues DEF LogsGood
    <3> QED BY <1>1, <3>1, <3>2 DEF LogsGood
  <2>2. CASE u = t
    <3>1. h.log[u] = b
        BY <1>6, <1>8, <2>2
    <3>2. ASSUME NEW k \in 1..Len(b)
          PROVE  b[k].term >= 1 /\ b[k].term <= t /\ Same(h.log[b[k].term], b, k)
      <4>1. CASE k = Len(log) + 1
        <5>1. b[k].term = t
            BY <1>3, <4>1
        <5>2. Same(b, b, k)
            BY <1>3, <4>1 DEF Same
        <5> QED BY <2>2, <3>1, <5>1, <5>2
      <4>2. CASE k \in 1..Len(log)
        <5>1. Agrees(h, log)
            BY <1>1, <1>8, <1>10, AgreesContinues
        <5>2. log[k].term >= 1 /\ Same(h.log[log[k].term], log, k) /\ b[k] = log[k]
            BY <1>3, <4>2, <5>1 DEF Agrees
        <5>3. Same(log, b, k)
            BY <1>3, <1>4, <4>2, SameFacts
        <5>4. h.log[log[k].term] \in Seq(EntryType)
            BY <1>8, <4>2, EntryTerm, HistoryFields
        <5> QED BY <1>3, <4>2, <5>2, <5>3, <5>4, SameFacts
      <4> QED BY <1>3, <4>1, <4>2
    <3>3. b[Len(b)].term = t
        BY <1>3
    <3> QED BY <2>2, <3>1, <3>2, <3>3 DEF Agrees
  <2> QED BY <2>1, <2>2
<1>14. WinnersGood(h)
  <2> SUFFICES ASSUME NEW u \in Nat
               PROVE  /\ h.winner[u] = Nil /\ u # 1 => h.log[u] = <<>>
                      /\ h.winner[u] # Nil =>
                            /\ u >= 2 /\ h.log[u] # <<>>
                            /\ h.vote[h.winner[u]][u] = h.winner[u]
                            /\ \E P : Quorum(P) /\ Elects(h, u, P)
      BY DEF WinnersGood
  <2>1. CASE u # t
    <3>1. h.winner[u] = g.winner[u] /\ h.log[u] = g.log[u] /\ h.vote = g.vote
        BY <1>6, <1>8, <2>1
    <3>2. /\ g.winner[u] = Nil /\ u # 1 => g.log[u] = <<>>
          /\ g.winner[u] # Nil =>
                u >= 2 /\ g.log[u] # <<>> /\ g.vote[g.winner[u]][u] = g.winner[u]
        BY <1>1, Zenon DEF WinnersGood
    <3>3. g.winner[u] # Nil => \E P : Quorum(P) /\ Elects(h, u, P)
        BY <1>11, Zenon
    <3> QED BY <3>1, <3>2, <3>3, Zenon
  <2>2. CASE u = t
    <3>1. h.winner[u] = i /\ h.log[u] = b /\ b # <<>>
        BY <1>3, <1>6, <1>8, <2>2
    <3>2. ASSUME NEW q \in Q
          PROVE  h.vote[q][u] = i /\ Covered(h, q, u, b)
      <4>1. q \in Server
          BY DEF Quorum
      <4>2. Covered(h, q, t, b)
          BY <1>3, <1>4, <1>5, <1>11, <4>1
      <4> QED BY <1>8, <2>2, <4>2
    <3>3. Elects(h, u, Q)
        BY <3>1, <3>2 DEF Elects
    <3> QED BY <1>5, <1>8, <2>2, <3>1, <3>3
  <2> QED BY <2>1, <2>2
<1>15. HistoryGood(h)
    BY <1>8, <1>11, <1>12, <1>13, <1>14 DEF HistoryGood
<1> QED BY <1>3, <1>6, <1>7, <1>8, <1>10, <1>15, ZenonT(60) DEF b

-----------------------------------------------------------------------------
(* The operators of module Raft, seen from a history: each turns a Raft    *)
(* object that the history explains into one that the history or its       *)
(* continuation explains.                                                  *)

(* r is an explained Raft object with the role, the term and the log of n. *)
Keeps(h, n, r) ==
    /\ NodeOK(r) /\ NodeGood(h, r)
    /\ r.id = n.id /\ r.term = n.term /\ r.state = n.state /\ r.log = n.log

LEMMA KeepsTrans ==
    ASSUME NEW h, NEW n, NEW r, NEW q, Keeps(h, n, r), Keeps(h, r, q)
    PROVE  Keeps(h, n, q)
BY DEF Keeps

(* Fields that no history speaks of may change freely.                     *)
LEMMA GoodSame ==
    ASSUME NEW h, NEW n, NodeGood(h, n), NEW r, NodeOK(r),
           r.id = n.id, r.term = n.term, r.vote = n.vote, r.state = n.state,
           r.votes = n.votes, r.log = n.log, r.committed = n.committed, r.lead = n.lead,
           r.prs = n.prs, r.msgs = n.msgs, r.fatal = n.fatal
    PROVE  Keeps(h, n, r)
<1>1. LogGood(h, r) /\ AckGood(h, r)
    BY Zenon DEF NodeGood, LogGood, AckGood
<1>2. VoteGood(h, r)
    BY Zenon DEF NodeGood, VoteGood
<1>3. LeadGood(h, r)
    BY Zenon DEF NodeGood, LeadGood
<1>4. OutGood(h, r)
    BY Zenon DEF NodeGood, OutGood, Outgoing
<1> QED BY <1>1, <1>2, <1>3, <1>4, Zenon DEF NodeGood, Keeps

(* New progress records that say no more than was acknowledged.            *)
LEMMA GoodPrs ==
    ASSUME NEW h, NEW n, NodeOK(n), NodeGood(h, n), NEW f \in [Server -> ProgressType],
           n.state = "Leader" =>
              \A j \in Server : /\ f[j].match <= h.acked[j][n.term]
                                /\ f[j].next <= Len(n.log) + 1
    PROVE  /\ Keeps(h, n, [n EXCEPT !.prs = f])
           /\ [n EXCEPT !.prs = f].prs = f
           /\ [n EXCEPT !.prs = f].committed = n.committed
<1> DEFINE r == [n EXCEPT !.prs = f]
<1>1. NodeOK(r)
    BY PrsQuiet DEF Quiet
<1>2. /\ r.id = n.id /\ r.term = n.term /\ r.vote = n.vote /\ r.state = n.state
      /\ r.votes = n.votes /\ r.log = n.log /\ r.committed = n.committed /\ r.lead = n.lead
      /\ r.prs = f /\ r.msgs = n.msgs /\ r.fatal = n.fatal
    BY DEF NodeOK, NodeType
<1> HIDE DEF r
<1>3. LogGood(h, r) /\ AckGood(h, r)
    BY <1>2, Zenon DEF NodeGood, LogGood, AckGood
<1>4. VoteGood(h, r)
    BY <1>2, Zenon DEF NodeGood, VoteGood
<1>5. LeadGood(h, r)
    BY <1>2, Zenon DEF NodeGood, LeadGood
<1>6. OutGood(h, r)
    BY <1>2, Zenon DEF NodeGood, OutGood, Outgoing
<1>7. Keeps(h, n, r)
    BY <1>1, <1>2, <1>3, <1>4, <1>5, <1>6, Zenon DEF NodeGood, Keeps
<1> QED BY <1>2, <1>7 DEF r

-----------------------------------------------------------------------------
(* Sending.                                                                *)

(* A draft as send puts it into the outbox.                                *)
Stamp(n, m) == [m EXCEPT !.from = n.id,
                         !.term = IF m.type \in VoteTypes THEN @ ELSE n.term]

LEMMA StampFields ==
    ASSUME NEW n, NEW m \in Draft
    PROVE  LET x == Stamp(n, m)
           IN  /\ x.type = m.type /\ x.to = m.to /\ x.from = n.id
               /\ x.term = (IF m.type \in VoteTypes THEN m.term ELSE n.term)
               /\ x.log_term = m.log_term /\ x.index = m.index /\ x.entries = m.entries
               /\ x.commit = m.commit /\ x.reject = m.reject
BY DEF Stamp, Draft

LEMMA SendGood ==
    ASSUME NEW h, NEW n, NodeOK(n), NodeGood(h, n), NEW ms \in SUBSET Draft,
           \A m \in ms : m.type = "MsgProp" => Len(m.entries) = 1,
           \A m \in ms : m.type \in VoteTypes <=> m.term # 0,
           \A m \in ms : Outgoing(h, n, Stamp(n, m))
    PROVE  /\ Keeps(h, n, send(n, ms))
           /\ send(n, ms).prs = n.prs /\ send(n, ms).committed = n.committed
<1> DEFINE out == n.msgs \cup {Stamp(n, m) : m \in ms}
           r == [n EXCEPT !.msgs = out]
<1>1. send(n, ms) = r
    BY DEF send, Stamp
<1>2. NodeOK(r)
  <2>1. NodeOK(send(n, ms))
      BY SendAny
  <2> HIDE DEF r
  <2> QED BY <1>1, <2>1
<1> HIDE DEF out
<1>3. /\ r.id = n.id /\ r.term = n.term /\ r.vote = n.vote /\ r.state = n.state
      /\ r.votes = n.votes /\ r.log = n.log /\ r.committed = n.committed /\ r.lead = n.lead
      /\ r.prs = n.prs /\ r.msgs = out /\ r.fatal = n.fatal
    BY DEF NodeOK, NodeType
<1> HIDE DEF r
<1>4. LogGood(h, r) /\ AckGood(h, r)
    BY <1>3, Zenon DEF NodeGood, LogGood, AckGood
<1>5. VoteGood(h, r)
    BY <1>3, Zenon DEF NodeGood, VoteGood
<1>6. LeadGood(h, r)
    BY <1>3, Zenon DEF NodeGood, LeadGood
<1>7. OutGood(h, r)
  <2>1. \A m \in out : Outgoing(h, n, m)
      BY DEF NodeGood, OutGood, out
  <2> QED BY <1>3, <2>1, Zenon DEF OutGood, Outgoing
<1>8. Keeps(h, n, r)
    BY <1>2, <1>3, <1>4, <1>5, <1>6, <1>7, Zenon DEF NodeGood, Keeps
<1> QED BY <1>1, <1>3, <1>8

-----------------------------------------------------------------------------
(* A leader replicates its log.                                            *)

LEMMA LeaderFacts ==
    ASSUME NEW h, HistoryGood(h), NEW n, NodeOK(n), NodeGood(h, n), n.state = "Leader"
    PROVE  /\ n.id \in Server /\ n.term \in Nat /\ n.term >= 1
           /\ n.log \in Seq(EntryType) /\ Len(n.log) \in Nat /\ n.committed \in Nat
           /\ h.winner[n.term] = n.id /\ h.log[n.term] = n.log
           /\ Settled(h, n.log, n.committed, n.term)
           /\ n.prs \in [Server -> ProgressType]
           /\ \A j \in Server :
                 /\ n.prs[j].match \in Nat /\ h.acked[j][n.term] \in Nat
                 /\ n.prs[j].match <= h.acked[j][n.term]
                 /\ h.acked[j][n.term] <= Len(n.log)
                 /\ n.prs[j].next \in Nat \ {0} /\ n.prs[j].next <= Len(n.log) + 1
<1>1. /\ n.id \in Server /\ n.term \in Nat /\ n.log \in Seq(EntryType) /\ n.committed \in Nat
      /\ n.prs \in [Server -> ProgressType]
    BY NodeFields
<1>2. /\ h.winner[n.term] = n.id /\ h.log[n.term] = n.log
      /\ \A j \in Server : /\ n.prs[j].match <= h.acked[j][n.term]
                           /\ n.prs[j].next <= Len(n.log) + 1
    BY DEF NodeGood, LeadGood
<1>3. n.term >= 1 /\ Settled(h, n.log, n.committed, n.term)
    BY DEF NodeGood, LogGood
<1>4. \A j \in Server : n.prs[j].match \in Nat /\ n.prs[j].next \in Nat \ {0}
    BY <1>1 DEF ProgressType
<1>5. \A j \in Server : h.acked[j][n.term] \in Nat /\ h.acked[j][n.term] <= Len(n.log)
    BY <1>1, <1>2, HistoryFields DEF HistoryGood, AcksGood
<1> QED BY <1>1, <1>2, <1>3, <1>4, <1>5

(* What SubSeq returns, index by index.                                    *)
LEMMA SubSeqItems ==
    ASSUME NEW s \in Seq(EntryType), NEW a \in Nat \ {0}, NEW b \in Nat, a <= b + 1, b <= Len(s)
    PROVE  /\ Len(SubSeq(s, a, b)) = b - a + 1
           /\ \A x \in 1..(b - a + 1) : SubSeq(s, a, b)[x] = s[a + x - 1]
<1>1. CASE a <= b
    BY <1>1, SubSeqProperties
<1>2. CASE a = b + 1
  <2>1. Len(SubSeq(s, a, b)) = 0
      BY <1>2, SubSeqProperties
  <2> QED BY <1>2, <2>1
<1> QED BY <1>1, <1>2

LEMMA AppMessageGood ==
    ASSUME NEW h, HistoryGood(h), NEW n, NodeOK(n), NodeGood(h, n), n.state = "Leader",
           NEW to \in Server, to # n.id, NEW next \in Nat \ {0}, next <= Len(n.log) + 1
    PROVE  /\ AppMessage(n, to, next) \in Draft
           /\ AppMessage(n, to, next).type = "MsgApp"
           /\ AppMessage(n, to, next).term = 0
           /\ Outgoing(h, n, Stamp(n, AppMessage(n, to, next)))
<1> DEFINE end == ChunkEnd(n, next, 1)
           ents == SubSeq(n.log, next, end)
           m == AppMessage(n, to, next)
           t == n.term
<1>1. /\ n.id \in Server /\ t \in Nat /\ t >= 1
      /\ n.log \in Seq(EntryType) /\ Len(n.log) \in Nat /\ n.committed \in Nat
      /\ h.winner[t] = n.id /\ h.log[t] = n.log
      /\ Settled(h, n.log, n.committed, t)
    BY LeaderFacts
<1>2. end \in Nat /\ end <= Len(n.log)
    BY ChunkEndType
<1>3. next <= end + 1
  <2>1. 1 * MaxMsgEntries = MaxMsgEntries /\ MaxMsgEntries \in Nat /\ MaxMsgEntries >= 1
      BY ConfigAssumption
  <2>2. end = IF next + MaxMsgEntries - 1 < Len(n.log) THEN next + MaxMsgEntries - 1 ELSE Len(n.log)
      BY <2>1 DEF ChunkEnd, last_index
  <2> HIDE DEF end
  <2> QED BY <1>1, <2>1, <2>2
<1> HIDE DEF end
<1>4. /\ ents \in Seq(EntryType) /\ Len(ents) = end - next + 1
      /\ \A x \in 1..Len(ents) : ents[x] = n.log[next + x - 1]
    BY <1>1, <1>2, <1>3, SubSeqType, SubSeqItems
<1> HIDE DEF ents
<1>5. m \in Draft /\ m.type = "MsgApp"
    BY AppMessageDraft
<1>6. /\ m.to = to /\ m.term = 0 /\ m.index = next - 1 /\ m.log_term = log_term(n, next - 1)
      /\ m.entries = ents /\ m.commit = n.committed
    BY DEF AppMessage, Message, ents, end
<1> DEFINE x == Stamp(n, m)
<1> HIDE DEF m
<1>7. /\ x.type = "MsgApp" /\ x.to = to /\ x.from = n.id /\ x.term = t
      /\ x.log_term = log_term(n, next - 1) /\ x.index = next - 1 /\ x.entries = ents
      /\ x.commit = n.committed
  <2>1. "MsgApp" \notin VoteTypes
      BY DEF VoteTypes
  <2> QED BY <1>5, <1>6, <2>1, StampFields
<1> HIDE DEF x
<1>8. AppGood(h, x)
  <2>1. x.index + Len(x.entries) <= Len(h.log[x.term])
      BY <1>1, <1>2, <1>4, <1>7, SMTT(30)
  <2>2. \A y \in 1..Len(x.entries) : x.entries[y] = h.log[x.term][x.index + y]
    <3>1. ASSUME NEW y \in 1..Len(ents)
          PROVE  ents[y] = n.log[(next - 1) + y]
      <4>1. next + y - 1 = (next - 1) + y
          OBVIOUS
      <4> QED BY <1>4, <4>1
    <3> QED BY <1>1, <1>7, <3>1
  <2>3. x.log_term = IF x.index = 0 THEN 0 ELSE h.log[x.term][x.index].term
    <3>1. next - 1 \in 1..Len(n.log) <=> next - 1 # 0
        BY <1>1
    <3>2. DOMAIN n.log = 1..Len(n.log)
        BY <1>1
    <3> QED BY <1>1, <1>7, <3>1, <3>2 DEF log_term
  <2> QED BY <2>1, <2>2, <2>3 DEF AppGood
<1>9. MsgGood(h, x)
    BY <1>1, <1>7, <1>8 DEF MsgGood
<1>10. Outgoing(h, n, x)
    BY <1>7, <1>9 DEF Outgoing
<1> QED BY <1>5, <1>6, <1>10 DEF m, x

LEMMA SentGood ==
    ASSUME NEW p \in ProgressType, NEW last \in Nat
    PROVE  /\ Sent(p, last).match = p.match
           /\ Sent(p, last).next \in {p.next, last + 1}
BY DEF Sent, add, ProgressType

LEMMA SendAppendGood ==
    ASSUME NEW h, HistoryGood(h), NEW n, NodeOK(n), NodeGood(h, n), n.state = "Leader",
           NEW tos \in SUBSET (Server \ {n.id})
    PROVE  Keeps(h, n, send_append(n, tos)) /\ send_append(n, tos).committed = n.committed
<1> DEFINE ready == {j \in tos : ~is_paused(n.prs[j])}
           ms == {AppMessage(n, j, n.prs[j].next) : j \in ready}
           s == send(n, ms)
           f == [j \in Server |->
                   IF j \in ready THEN Sent(n.prs[j], ChunkEnd(n, n.prs[j].next, 1))
                   ELSE s.prs[j]]
<1>1. /\ n.prs \in [Server -> ProgressType] /\ Len(n.log) \in Nat
      /\ \A j \in Server :
            /\ n.prs[j].match <= h.acked[j][n.term]
            /\ n.prs[j].next \in Nat \ {0} /\ n.prs[j].next <= Len(n.log) + 1
    BY LeaderFacts
<1>2. ready \subseteq Server /\ \A j \in ready : j # n.id
    OBVIOUS
<1> HIDE DEF ready
<1>3. \A m \in ms : /\ m \in Draft /\ m.type = "MsgApp" /\ m.term = 0
                    /\ Outgoing(h, n, Stamp(n, m))
    BY <1>1, <1>2, AppMessageGood
<1>4. Keeps(h, n, s) /\ s.prs = n.prs /\ s.committed = n.committed
  <2>1. ms \in SUBSET Draft
      BY <1>3
  <2>2. \A m \in ms : m.type # "MsgProp" /\ m.type \notin VoteTypes
      BY <1>3 DEF VoteTypes
  <2> HIDE DEF ms
  <2> QED BY <1>3, <2>1, <2>2, SendGood
<1>5. ASSUME NEW j \in Server
      PROVE  /\ f[j] \in ProgressType /\ f[j].match <= h.acked[j][n.term]
             /\ f[j].next <= Len(n.log) + 1
  <2>1. n.prs[j] \in ProgressType
      BY <1>1
  <2>2. CASE j \in ready
    <3> DEFINE e == ChunkEnd(n, n.prs[j].next, 1)
    <3>1. e \in Nat /\ e <= Len(n.log)
        BY <1>1, ChunkEndType
    <3> HIDE DEF e
    <3>2. /\ Sent(n.prs[j], e) \in ProgressType
          /\ Sent(n.prs[j], e).match = n.prs[j].match
          /\ Sent(n.prs[j], e).next \in {n.prs[j].next, e + 1}
        BY <2>1, <3>1, SentGood, SentType
    <3>3. f[j] = Sent(n.prs[j], e)
        BY <2>2 DEF e
    <3> HIDE DEF f
    <3> QED BY <1>1, <3>1, <3>2, <3>3
  <2>3. CASE j \notin ready
    <3>1. f[j] = n.prs[j]
        BY <1>4, <2>3
    <3> QED BY <1>1, <2>1, <3>1
  <2> QED BY <2>2, <2>3
<1>6. f \in [Server -> ProgressType]
    BY <1>5
<1>7. send_append(n, tos) = [s EXCEPT !.prs = f]
    BY DEF send_append, ready
<1> HIDE DEF s, f
<1>8. Keeps(h, s, [s EXCEPT !.prs = f]) /\ [s EXCEPT !.prs = f].committed = s.committed
    BY <1>4, <1>5, <1>6, GoodPrs DEF Keeps
<1> QED BY <1>4, <1>7, <1>8, KeepsTrans

(* The k-th of `todo' chunks starts within what is left to send.           *)
LEMMA ChunkStarts ==
    ASSUME NEW left \in Nat, NEW size \in Nat \ {0}, NEW k \in Nat,
           k + 1 <= (left + size) \div size
    PROVE  k * size <= left
<1> DEFINE d == (left + size) \div size
<1>1. d \in Nat /\ d * size <= left + size
    BY Z3
<1> HIDE DEF d
<1>2. (k + 1) * size <= d * size
  <2>1. \E e \in Nat : d = k + 1 + e
    <3>1. d - (k + 1) \in Nat /\ d = k + 1 + (d - (k + 1))
        BY <1>1 DEF d
    <3> QED BY <3>1
  <2>2. PICK e \in Nat : d = k + 1 + e
      BY <2>1
  <2>3. d * size = (k + 1) * size + e * size /\ e * size \in Nat /\ (k + 1) * size \in Nat
      BY <2>2, Z3
  <2> QED BY <2>3
<1>3. (k + 1) * size = k * size + size /\ k * size \in Nat
    BY Z3
<1>4. d * size \in Nat
    BY <1>1, Z3
<1> QED BY <1>1, <1>2, <1>3, <1>4

LEMMA NoChunk ==
    ASSUME NEW size \in Nat \ {0}
    PROVE  (size - 1) \div size = 0
BY Z3

LEMMA SendRestGood ==
    ASSUME NEW h, HistoryGood(h), NEW n, NodeOK(n), NodeGood(h, n), n.state = "Leader",
           NEW to \in Server, to # n.id
    PROVE  Keeps(h, n, send_rest(n, to))
<1> DEFINE p == n.prs[to]
           todo == (last_index(n) - p.next + MaxMsgEntries) \div MaxMsgEntries
           room == MaxInflight - Len(p.ins)
           count == IF todo < room THEN todo ELSE room
           ends == [k \in 1..count |-> ChunkEnd(n, p.next, k)]
           ms == {AppMessage(n, to, p.next + k * MaxMsgEntries) : k \in 0..(count - 1)}
           s == send(n, ms)
           q == [p EXCEPT !.next = ends[count] + 1, !.ins = p.ins \o ends]
           f == [s.prs EXCEPT ![to] = q]
<1>1. p \in ProgressType /\ n.prs \in [Server -> ProgressType]
    BY NodeFields
<1>2. /\ p.next \in Nat \ {0} /\ p.ins \in Seq(Nat) /\ last_index(n) \in Nat
      /\ last_index(n) = Len(n.log) /\ p.next <= Len(n.log) + 1
      /\ MaxMsgEntries \in Nat \ {0} /\ MaxInflight \in Nat
    BY <1>1, NodeFields, LeaderFacts, ConfigAssumption DEF ProgressType, last_index
<1>3. todo \in Int /\ room \in Int
    BY <1>2
<1>4. CASE count <= 0
    BY <1>4 DEF send_rest, Keeps
<1>5. CASE ~(count <= 0)
  <2>1. count \in Nat \ {0} /\ count <= todo
    <3> HIDE DEF todo, room
    <3> QED BY <1>3, <1>5
  <2>2. ASSUME NEW k \in 0..(count - 1)
        PROVE  p.next + k * MaxMsgEntries \in Nat \ {0}
               /\ p.next + k * MaxMsgEntries <= Len(n.log) + 1
    <3>1. k \in Nat /\ k + 1 <= todo
      <4> HIDE DEF todo, room, count
      <4> QED BY <1>3, <2>1
    <3>2. CASE p.next = Len(n.log) + 1
      <4>1. todo = 0
        <5>1. last_index(n) - p.next + MaxMsgEntries = MaxMsgEntries - 1
            BY <1>2, <3>2
        <5>2. (MaxMsgEntries - 1) \div MaxMsgEntries = 0
            BY <1>2, NoChunk
        <5> QED BY <5>1, <5>2
      <4> QED BY <3>1, <4>1
    <3>3. CASE p.next <= Len(n.log)
      <4> DEFINE left == Len(n.log) - p.next
      <4>1. left \in Nat
          BY <1>2, <3>3
      <4>2. k + 1 <= (left + MaxMsgEntries) \div MaxMsgEntries
          BY <1>2, <3>1
      <4>3. k * MaxMsgEntries <= left /\ k * MaxMsgEntries \in Nat
        <5> HIDE DEF left
        <5>1. k * MaxMsgEntries \in Nat
            BY <1>2, <3>1
        <5> QED BY <1>2, <3>1, <4>1, <4>2, <5>1, ChunkStarts
      <4>4. PICK y \in Nat : y = k * MaxMsgEntries /\ y <= left
          BY <4>3
      <4>5. p.next + left = Len(n.log)
          BY <1>2
      <4> HIDE DEF left
      <4>6. y <= left
          BY <4>4
      <4>7. p.next + y \in Nat \ {0} /\ p.next + y <= Len(n.log) + 1
        <5> HIDE DEF p
        <5> QED BY <1>2, <4>1, <4>5, <4>6, SMTT(30)
      <4> QED BY <4>4, <4>7
    <3> QED BY <1>2, <3>2, <3>3, SMTT(30)
  <2> HIDE DEF p, count
  <2>3. ends[count] \in Nat /\ ends[count] <= Len(n.log)
    <3>1. ends[count] = ChunkEnd(n, p.next, count)
        BY <2>1
    <3> QED BY <1>2, <2>1, <3>1, ChunkEndType
  <2>4. \A m \in ms : /\ m \in Draft /\ m.type = "MsgApp" /\ m.term = 0
                      /\ Outgoing(h, n, Stamp(n, m))
      BY <2>2, AppMessageGood
  <2>5. Keeps(h, n, s) /\ s.prs = n.prs
    <3>1. ms \in SUBSET Draft
        BY <2>4
    <3>2. \A m \in ms : m.type # "MsgProp" /\ m.type \notin VoteTypes
        BY <2>4 DEF VoteTypes
    <3> HIDE DEF ms
    <3> QED BY <2>4, <3>1, <3>2, SendGood
  <2>6. q.match = p.match /\ q.next = ends[count] + 1
    <3> HIDE DEF ends
    <3> QED BY <1>1 DEF ProgressType
  <2>7. q \in ProgressType
    <3>1. ends \in Seq(Nat)
      <4>1. \A k \in 1..count : ChunkEnd(n, p.next, k) \in Nat
        <5>1. \A k \in Nat \ {0} : ChunkEnd(n, p.next, k) \in Nat
            BY <1>2, ChunkEndType
        <5>2. \A k \in 1..count : k \in Nat \ {0}
            BY <2>1
        <5> QED BY <5>1, <5>2
      <4> QED BY <2>1, <4>1
    <3> HIDE DEF ends
    <3>2. p.ins \o ends \in Seq(Nat) /\ ends[count] + 1 \in Nat \ {0}
        BY <1>2, <2>3, <3>1
    <3> QED BY <1>1, <3>2, Zenon DEF ProgressType
  <2> HIDE DEF q, s
  <2>8. /\ f \in [Server -> ProgressType]
        /\ \A j \in Server : /\ f[j].match <= h.acked[j][n.term]
                             /\ f[j].next <= Len(n.log) + 1
    <3>1. \A j \in Server : f[j] = IF j = to THEN q ELSE n.prs[j]
        BY <1>1, <2>5
    <3>2. \A j \in Server : /\ n.prs[j].match <= h.acked[j][n.term]
                            /\ n.prs[j].next <= Len(n.log) + 1
        BY LeaderFacts
    <3>3. q.match <= h.acked[to][n.term] /\ q.next <= Len(n.log) + 1
        BY <1>2, <2>3, <2>6, <3>2 DEF p
    <3>4. f \in [Server -> ProgressType]
        BY <1>1, <2>5, <2>7
    <3> HIDE DEF f
    <3> QED BY <3>1, <3>2, <3>3, <3>4
  <2>9. send_rest(n, to) = [s EXCEPT !.prs = f]
      BY <1>5 DEF send_rest, p, count, s, q
  <2> HIDE DEF f
  <2>10. Keeps(h, s, [s EXCEPT !.prs = f])
      BY <2>5, <2>8, GoodPrs DEF Keeps
  <2> QED BY <2>5, <2>9, <2>10, KeepsTrans
<1> QED BY <1>4, <1>5

(* One message whose type is not about votes.                              *)
LEMMA SendOneGood ==
    ASSUME NEW h, NEW n, NodeOK(n), NodeGood(h, n), NEW m \in Draft,
           m.type \notin VoteTypes, m.term = 0, m.type = "MsgProp" => Len(m.entries) = 1,
           Outgoing(h, n, Stamp(n, m))
    PROVE  /\ Keeps(h, n, send(n, {m}))
           /\ send(n, {m}).prs = n.prs /\ send(n, {m}).committed = n.committed
BY SendGood

LEMMA TimeoutNowGood ==
    ASSUME NEW h, HistoryGood(h), NEW n, NodeOK(n), NodeGood(h, n), n.state = "Leader",
           NEW to \in Server, to # n.id, n.prs[to].match = last_index(n)
    PROVE  Keeps(h, n, timeout_now(n, to))
<1> DEFINE m == Message("MsgTimeoutNow", to)
           x == Stamp(n, m)
<1>1. m \in Draft /\ m.type = "MsgTimeoutNow" /\ m.to = to
    BY MessageDraft DEF MsgTypes
<1>2. m.term = 0 /\ "MsgTimeoutNow" \notin VoteTypes
    BY DEF Message, VoteTypes
<1> HIDE DEF m
<1>3. x.type = "MsgTimeoutNow" /\ x.to = to /\ x.from = n.id /\ x.term = n.term
    BY <1>1, <1>2, StampFields
<1> HIDE DEF x
<1>4. n.term >= 1 /\ Len(n.log) <= h.acked[to][n.term]
    BY LeaderFacts DEF last_index
<1>5. Outgoing(h, n, x)
    BY <1>3, <1>4 DEF Outgoing, MsgGood
<1> QED BY <1>1, <1>2, <1>5, SendOneGood DEF timeout_now, m, x

LEMMA HeartbeatsGood ==
    ASSUME NEW h, HistoryGood(h), NEW n, NodeOK(n), NodeGood(h, n), n.state = "Leader"
    PROVE  Keeps(h, n, bcast_heartbeat(n))
<1> DEFINE commit(j) == IF n.prs[j].match < n.committed THEN n.prs[j].match ELSE n.committed
           draft(j) == [Message("MsgHeartbeat", j) EXCEPT !.commit = commit(j)]
           ms == {draft(j) : j \in Peers(n)}
<1>1. /\ n.id \in Server /\ n.term \in Nat /\ n.term >= 1
      /\ n.log \in Seq(EntryType) /\ Len(n.log) \in Nat /\ n.committed \in Nat
      /\ h.winner[n.term] = n.id /\ h.log[n.term] = n.log
      /\ Settled(h, n.log, n.committed, n.term)
      /\ \A j \in Server :
            /\ n.prs[j].match \in Nat /\ h.acked[j][n.term] \in Nat
            /\ n.prs[j].match <= h.acked[j][n.term]
    BY LeaderFacts
<1>2. ASSUME NEW j \in Peers(n)
      PROVE  /\ draft(j) \in Draft /\ draft(j).type = "MsgHeartbeat" /\ draft(j).term = 0
             /\ Outgoing(h, n, Stamp(n, draft(j)))
  <2>0. j \in Server /\ j # n.id
      BY DEF Peers
  <2>1. commit(j) \in Nat /\ commit(j) <= n.committed /\ commit(j) <= h.acked[j][n.term]
      BY <1>1, <2>0
  <2> DEFINE c == commit(j)
             d == [Message("MsgHeartbeat", j) EXCEPT !.commit = c]
             x == Stamp(n, d)
  <2> HIDE DEF c
  <2>2. Message("MsgHeartbeat", j) \in Draft
      BY <2>0, MessageDraft DEF MsgTypes
  <2>3. d \in Draft
      BY <2>1, <2>2, Zenon DEF Draft, c
  <2>4. d.type = "MsgHeartbeat" /\ d.to = j /\ d.term = 0 /\ d.commit = c
      BY DEF Message
  <2> HIDE DEF d
  <2>5. /\ x.type = "MsgHeartbeat" /\ x.to = j /\ x.from = n.id /\ x.term = n.term
        /\ x.commit = c
    <3>1. "MsgHeartbeat" \notin VoteTypes
        BY DEF VoteTypes
    <3> QED BY <2>3, <2>4, <3>1, StampFields
  <2>6. Settled(h, n.log, c, n.term)
    <3>1. h \in HistoryType
        BY DEF HistoryGood
    <3> QED BY <1>1, <2>1, <3>1, SettledLess DEF c
  <2> HIDE DEF x
  <2>7. Outgoing(h, n, x)
      BY <1>1, <2>0, <2>1, <2>5, <2>6 DEF Outgoing, MsgGood, c
  <2> QED BY <2>3, <2>4, <2>7 DEF d, x, c
<1> HIDE DEF draft
<1>3. \A m \in ms : /\ m \in Draft /\ m.type = "MsgHeartbeat" /\ m.term = 0
                    /\ Outgoing(h, n, Stamp(n, m))
    BY <1>2
<1>4. bcast_heartbeat(n) = send(n, ms)
    BY DEF bcast_heartbeat, draft
<1>5. ms \in SUBSET Draft
    BY <1>3
<1>6. \A m \in ms : m.type # "MsgProp" /\ m.type \notin VoteTypes
    BY <1>3 DEF VoteTypes
<1> HIDE DEF ms
<1> QED BY <1>3, <1>4, <1>5, <1>6, SendGood

-----------------------------------------------------------------------------
(* The commit index.                                                       *)

LEMMA CommitGood ==
    ASSUME NEW h, NEW n, NodeOK(n), NodeGood(h, n), NEW idx \in Nat,
           idx > n.committed => idx <= Len(n.log) /\ Settled(h, n.log, idx, n.term)
    PROVE  Keeps(h, n, commit_to(n, idx)) /\ commit_to(n, idx).prs = n.prs
<1>0. n.committed \in Nat /\ Len(n.log) \in Nat
    BY NodeFields DEF last_index
<1>1. CASE idx <= n.committed
    BY <1>1 DEF commit_to, Keeps
<1>2. CASE ~(idx <= n.committed)
  <2> DEFINE r == [n EXCEPT !.committed = idx]
  <2>1. idx <= Len(n.log) /\ Settled(h, n.log, idx, n.term)
      BY <1>0, <1>2
  <2>2. commit_to(n, idx) = r
      BY <1>0, <1>2, <2>1 DEF commit_to, last_index
  <2>3. NodeOK(commit_to(n, idx))
      BY CommitToQuiet DEF Quiet
  <2>4. /\ r.id = n.id /\ r.term = n.term /\ r.vote = n.vote /\ r.state = n.state
        /\ r.votes = n.votes /\ r.log = n.log /\ r.committed = idx /\ r.lead = n.lead
        /\ r.prs = n.prs /\ r.msgs = n.msgs /\ r.fatal = n.fatal
      BY DEF NodeOK, NodeType
  <2> HIDE DEF r
  <2>5. LogGood(h, r) /\ AckGood(h, r)
      BY <2>1, <2>4, Zenon DEF NodeGood, LogGood, AckGood
  <2>6. VoteGood(h, r)
      BY <2>4, Zenon DEF NodeGood, VoteGood
  <2>7. LeadGood(h, r)
      BY <2>4, Zenon DEF NodeGood, LeadGood
  <2>8. OutGood(h, r)
      BY <2>4, Zenon DEF NodeGood, OutGood, Outgoing
  <2> QED BY <2>2, <2>3, <2>4, <2>5, <2>6, <2>7, <2>8, Zenon DEF NodeGood, Keeps
<1> QED BY <1>1, <1>2

LEMMA QuorumMatchIs ==
    ASSUME NEW n, NodeOK(n)
    PROVE  /\ QuorumMatch(n) \in Nat
           /\ Quorum({k \in Server : n.prs[k].match >= QuorumMatch(n)})
<1> DEFINE match == [j \in Server |-> n.prs[j].match]
<1>1. \A j \in Server : n.prs[j].match \in Nat
    BY NodeFields DEF ProgressType
<1>2. match \in [Server -> Nat]
    BY <1>1
<1>3. \E x \in {match[j] : j \in Server} :
              /\ Cardinality({k \in Server : match[k] >= x}) >= quorum
              /\ Cardinality({k \in Server : match[k] > x}) < quorum
    BY <1>2, QuorumMatchExists
<1>4. {match[j] : j \in Server} = {n.prs[j].match : j \in Server}
    OBVIOUS
<1>5. \A x : /\ {k \in Server : match[k] >= x} = {k \in Server : n.prs[k].match >= x}
             /\ {k \in Server : match[k] > x} = {k \in Server : n.prs[k].match > x}
    OBVIOUS
<1>6. \E x \in {n.prs[j].match : j \in Server} :
              /\ Cardinality({k \in Server : n.prs[k].match >= x}) >= quorum
              /\ Cardinality({k \in Server : n.prs[k].match > x}) < quorum
  <2> HIDE DEF match
  <2> QED BY <1>3, <1>4, <1>5
<1>7. Cardinality({k \in Server : n.prs[k].match >= QuorumMatch(n)}) >= quorum
    BY <1>6, Zenon DEF QuorumMatch
<1> QED BY <1>7, QuorumMatchType DEF Quorum

LEMMA MaybeCommitGood ==
    ASSUME NEW h, HistoryGood(h), NEW n, NodeOK(n), NodeGood(h, n), n.state = "Leader"
    PROVE  Keeps(h, n, maybe_commit(n)) /\ maybe_commit(n).prs = n.prs
<1> DEFINE x == QuorumMatch(n)
           Q == {k \in Server : n.prs[k].match >= x}
<1>1. x \in Nat /\ Quorum(Q)
    BY QuorumMatchIs
<1>2. /\ n.term \in Nat /\ n.term >= 1 /\ n.log \in Seq(EntryType) /\ Len(n.log) \in Nat
      /\ h.log[n.term] = n.log
      /\ \A j \in Server :
            /\ n.prs[j].match \in Nat /\ h.acked[j][n.term] \in Nat
            /\ n.prs[j].match <= h.acked[j][n.term]
    BY LeaderFacts
<1>3. CASE x > n.committed /\ log_term(n, x) = n.term
  <2>1. maybe_commit(n) = commit_to(n, x)
      BY <1>3 DEF maybe_commit
  <2>2. \A q \in Q : x <= h.acked[q][n.term]
    <3> HIDE DEF x
    <3> QED BY <1>1, <1>2
  <2> HIDE DEF x, Q
  <2>3. x \in 1..Len(n.log) /\ n.log[x].term = n.term
    <3>1. DOMAIN n.log = 1..Len(n.log)
        BY <1>2
    <3> QED BY <1>2, <1>3, <3>1 DEF log_term
  <2>4. Chosen(h, n.term, x)
      BY <1>1, <1>2, <2>2, <2>3 DEF Chosen
  <2>5. Same(h.log[n.term], n.log, x)
      BY <1>2, <2>3 DEF Same
  <2>6. Settled(h, n.log, x, n.term)
      BY <1>1, <1>2, <2>4, <2>5 DEF Settled
  <2> QED BY <1>1, <2>1, <2>3, <2>6, CommitGood
<1>4. CASE ~(x > n.committed /\ log_term(n, x) = n.term)
    BY <1>4 DEF maybe_commit, Keeps
<1> QED BY <1>3, <1>4

(* One progress record changes.                                            *)
LEMMA GoodPr ==
    ASSUME NEW h, HistoryGood(h), NEW n, NodeOK(n), NodeGood(h, n), n.state = "Leader",
           NEW j \in Server, NEW p \in ProgressType,
           p.match <= h.acked[j][n.term], p.next <= Len(n.log) + 1
    PROVE  /\ Keeps(h, n, [n EXCEPT !.prs[j] = p])
           /\ [n EXCEPT !.prs[j] = p].prs = [n.prs EXCEPT ![j] = p]
           /\ [n EXCEPT !.prs[j] = p].committed = n.committed
<1> DEFINE f == [n.prs EXCEPT ![j] = p]
<1>1. /\ n.prs \in [Server -> ProgressType]
      /\ \A k \in Server : /\ n.prs[k].match <= h.acked[k][n.term]
                           /\ n.prs[k].next <= Len(n.log) + 1
    BY LeaderFacts
<1>2. f \in [Server -> ProgressType]
    BY <1>1
<1>3. \A k \in Server : /\ f[k].match <= h.acked[k][n.term]
                        /\ f[k].next <= Len(n.log) + 1
    BY <1>1
<1>4. [n EXCEPT !.prs[j] = p] = [n EXCEPT !.prs = f]
    BY DEF NodeOK, NodeType
<1> HIDE DEF f
<1>5. /\ Keeps(h, n, [n EXCEPT !.prs = f])
      /\ [n EXCEPT !.prs = f].prs = f
      /\ [n EXCEPT !.prs = f].committed = n.committed
    BY <1>2, <1>3, GoodPrs
<1> QED BY <1>4, <1>5 DEF f

-----------------------------------------------------------------------------
(* The answers that a leader gets.                                         *)

LEMMA ProgressMoves ==
    ASSUME NEW p \in ProgressType, NEW idx \in Nat, NEW to
    PROVE  /\ become_replicate(p).match = p.match /\ become_replicate(p).next = p.match + 1
           /\ become_probe(p).match = p.match /\ become_probe(p).next = p.match + 1
           /\ free_to(p, to).match = p.match /\ free_to(p, to).next = p.next
           /\ maybe_update(p, idx).match \in {p.match, idx}
           /\ maybe_update(p, idx).next \in {p.next, idx + 1}
<1>1. /\ become_replicate(p).match = p.match /\ become_replicate(p).next = p.match + 1
      /\ become_probe(p).match = p.match /\ become_probe(p).next = p.match + 1
    BY DEF become_replicate, become_probe, reset_state, ProgressType
<1>2. free_to(p, to).match = p.match /\ free_to(p, to).next = p.next
    BY DEF free_to, ProgressType
<1>3. /\ maybe_update(p, idx).match \in {p.match, idx}
      /\ maybe_update(p, idx).next \in {p.next, idx + 1}
    BY DEF maybe_update, ProgressType
<1> QED BY <1>1, <1>2, <1>3

LEMMA DecreaseMoves ==
    ASSUME NEW p \in ProgressType, NEW idx \in Nat, NEW last \in Nat, decreases(p, idx)
    PROVE  LET r == maybe_decreases_to(p, idx, last)
           IN  /\ r.match = p.match /\ r.state = p.state
               /\ r.state # "Replicate" => r.next <= p.next
<1>1. p.next \in Nat \ {0} /\ p.match \in Nat /\ p.state \in {"Probe", "Replicate"}
    BY DEF ProgressType
<1> DEFINE lower == IF idx < last + 1 THEN idx ELSE last + 1
           low == IF lower < 1 THEN 1 ELSE lower
<1>2. CASE p.state = "Replicate"
    BY <1>2 DEF maybe_decreases_to, ProgressType
<1>3. CASE p.state # "Replicate"
  <2>1. low <= p.next
      BY <1>1, <1>3 DEF decreases
  <2>2. maybe_decreases_to(p, idx, last) = [p EXCEPT !.next = low, !.paused = FALSE]
      BY <1>3 DEF maybe_decreases_to
  <2> HIDE DEF low
  <2> QED BY <1>3, <2>1, <2>2 DEF ProgressType
<1> QED BY <1>2, <1>3

LEMMA AppRespRejectedGood ==
    ASSUME NEW h, HistoryGood(h), NEW n, NodeOK(n), NodeGood(h, n), n.state = "Leader",
           NEW m \in MessageType, m.from # n.id
    PROVE  Keeps(h, n, app_resp_rejected(n, m))
<1> DEFINE p == n.prs[m.from]
           p1 == maybe_decreases_to(p, m.index, m.reject_hint)
           p2 == IF p1.state = "Replicate" THEN become_probe(p1) ELSE p1
           n1 == [n EXCEPT !.prs[m.from] = p2]
<1>1. m.from \in Server /\ m.index \in Nat /\ m.reject_hint \in Nat
    BY MessageFields
<1>2. /\ p \in ProgressType /\ Len(n.log) \in Nat /\ p.match \in Nat /\ p.next \in Nat
      /\ p.match <= h.acked[m.from][n.term] /\ h.acked[m.from][n.term] \in Nat
      /\ h.acked[m.from][n.term] <= Len(n.log) /\ p.next <= Len(n.log) + 1
    BY <1>1, LeaderFacts
<1>3. CASE ~decreases(p, m.index)
    BY <1>3 DEF app_resp_rejected, Keeps
<1>4. CASE decreases(p, m.index)
  <2>1. app_resp_rejected(n, m) = send_append(n1, {m.from})
      BY <1>4 DEF app_resp_rejected
  <2> HIDE DEF p
  <2>2. p1 \in ProgressType
      BY <1>1, <1>2, DecreasesType
  <2>3. p1.match = p.match /\ p1.state = p.state /\ (p1.state # "Replicate" => p1.next <= p.next)
      BY <1>1, <1>2, <1>4, DecreaseMoves
  <2> HIDE DEF p1
  <2>4. /\ p2 \in ProgressType
        /\ p2.match = p.match /\ p2.next <= Len(n.log) + 1
    <3>1. p1.next \in Nat
        BY <2>2 DEF ProgressType
    <3>2. CASE p1.state = "Replicate"
      <4>1. p2 = become_probe(p1)
          BY <3>2
      <4>2. p2 \in ProgressType /\ p2.match = p1.match /\ p2.next = p1.match + 1
          BY <1>1, <2>2, <4>1, ProgressMoves, ProgressTypes
      <4> HIDE DEF p2
      <4> QED BY <1>2, <2>3, <4>2, SMTT(30)
    <3>3. CASE p1.state # "Replicate"
        BY <1>2, <2>2, <2>3, <3>1, <3>3
    <3> QED BY <3>2, <3>3
  <2> HIDE DEF p2
  <2>5. Keeps(h, n, n1)
      BY <1>1, <1>2, <2>4, GoodPr
  <2> HIDE DEF n1
  <2>6. Keeps(h, n1, send_append(n1, {m.from}))
      BY <1>1, <2>5, SendAppendGood DEF Keeps
  <2> QED BY <2>1, <2>5, <2>6, KeepsTrans
<1> QED BY <1>3, <1>4

LEMMA AppRespAcceptedGood ==
    ASSUME NEW h, HistoryGood(h), NEW n, NodeOK(n), NodeGood(h, n), n.state = "Leader",
           NEW m \in MessageType, m.from # n.id, m.index <= h.acked[m.from][n.term]
    PROVE  Keeps(h, n, app_resp_accepted(n, m))
<1> DEFINE p == n.prs[m.from]
           p1 == maybe_update(p, m.index)
           p2 == IF p1.state = "Probe" THEN become_replicate(p1) ELSE free_to(p1, m.index)
           n1 == [n EXCEPT !.prs[m.from] = p1]
           n2 == [n EXCEPT !.prs[m.from] = p2]
           n3 == maybe_commit(n2)
           n4 == IF n3.committed # n2.committed THEN bcast_append(n3)
                 ELSE IF is_paused(p) THEN send_append(n3, {m.from}) ELSE n3
           n5 == send_rest(n4, m.from)
           n6 == timeout_now(n5, m.from)
<1>1. m.from \in Server /\ m.index \in Nat
    BY MessageFields
<1>2. /\ p \in ProgressType /\ Len(n.log) \in Nat /\ p.match \in Nat /\ p.next \in Nat
      /\ p.match <= h.acked[m.from][n.term] /\ h.acked[m.from][n.term] \in Nat
      /\ h.acked[m.from][n.term] <= Len(n.log) /\ p.next <= Len(n.log) + 1
    BY <1>1, LeaderFacts
<1>3. \/ app_resp_accepted(n, m) \in {n1, n5}
      \/ app_resp_accepted(n, m) = n6 /\ n5.prs[m.from].match = last_index(n5)
    BY DEF app_resp_accepted
<1> HIDE DEF p
<1>4. /\ p1 \in ProgressType
      /\ p1.match <= h.acked[m.from][n.term] /\ p1.next <= Len(n.log) + 1
  <2>1. p1 \in ProgressType
      BY <1>1, <1>2, ProgressTypes
  <2>2. p1.match \in {p.match, m.index} /\ p1.next \in {p.next, m.index + 1}
      BY <1>1, <1>2, ProgressMoves
  <2> HIDE DEF p1
  <2> QED BY <1>1, <1>2, <2>1, <2>2, SMTT(30)
<1> HIDE DEF p1
<1>5. /\ p2 \in ProgressType
      /\ p2.match <= h.acked[m.from][n.term] /\ p2.next <= Len(n.log) + 1
  <2>1. p1.match \in Nat
      BY <1>4 DEF ProgressType
  <2>2. CASE p1.state = "Probe"
    <3>1. p2 = become_replicate(p1)
        BY <2>2
    <3>2. p2 \in ProgressType /\ p2.match = p1.match /\ p2.next = p1.match + 1
        BY <1>4, <3>1, ProgressTypes, ProgressMoves
    <3> HIDE DEF p2
    <3> QED BY <1>2, <1>4, <2>1, <3>2
  <2>3. CASE p1.state # "Probe"
    <3>1. p2 = free_to(p1, m.index)
        BY <2>3
    <3>2. p2 \in ProgressType /\ p2.match = p1.match /\ p2.next = p1.next
        BY <1>1, <1>4, <3>1, FreeToType, ProgressMoves
    <3> HIDE DEF p2
    <3> QED BY <1>4, <3>2
  <2> QED BY <2>2, <2>3
<1> HIDE DEF p2
<1>6. Keeps(h, n, n1)
    BY <1>1, <1>4, GoodPr
<1>7. Keeps(h, n, n2)
    BY <1>1, <1>5, GoodPr
<1> HIDE DEF n1, n2
<1>8. Keeps(h, n2, n3)
    BY <1>7, MaybeCommitGood DEF Keeps
<1> HIDE DEF n3
<1>9. Keeps(h, n3, n4)
  <2>1. n3.state = "Leader" /\ NodeOK(n3) /\ NodeGood(h, n3) /\ n3.id = n.id
      BY <1>7, <1>8 DEF Keeps
  <2>2. Peers(n3) \in SUBSET (Server \ {n3.id}) /\ {m.from} \in SUBSET (Server \ {n3.id})
      BY <1>1, <2>1 DEF Peers
  <2>3. Keeps(h, n3, bcast_append(n3)) /\ Keeps(h, n3, send_append(n3, {m.from}))
      BY <2>1, <2>2, SendAppendGood DEF bcast_append
  <2>4. Keeps(h, n3, n3)
      BY <2>1 DEF Keeps
  <2> QED BY <2>3, <2>4
<1> HIDE DEF n4
<1>10. n4.state = "Leader" /\ NodeOK(n4) /\ NodeGood(h, n4) /\ n4.id = n.id
    BY <1>7, <1>8, <1>9 DEF Keeps
<1>11. Keeps(h, n4, n5)
    BY <1>1, <1>10, SendRestGood
<1> HIDE DEF n5
<1>12. n5.state = "Leader" /\ NodeOK(n5) /\ NodeGood(h, n5) /\ n5.id = n.id
    BY <1>10, <1>11 DEF Keeps
<1>13. Keeps(h, n, n5)
    BY <1>7, <1>8, <1>9, <1>11, KeepsTrans
<1>14. n5.prs[m.from].match = last_index(n5) => Keeps(h, n5, n6)
    BY <1>1, <1>12, TimeoutNowGood
<1> HIDE DEF n6
<1> QED BY <1>3, <1>6, <1>13, <1>14, KeepsTrans

LEMMA AppRespGood ==
    ASSUME NEW h, HistoryGood(h), NEW n, NodeOK(n), NodeGood(h, n), n.state = "Leader",
           NEW m \in MessageType, m.from # n.id,
           ~m.reject => m.index <= h.acked[m.from][n.term]
    PROVE  Keeps(h, n, handle_app_resp(n, m))
<1> DEFINE p == [n.prs[m.from] EXCEPT !.recent_active = TRUE]
           n1 == [n EXCEPT !.prs[m.from] = p]
<1>1. m.from \in Server
    BY MessageFields
<1>2. /\ n.prs[m.from] \in ProgressType
      /\ n.prs[m.from].match <= h.acked[m.from][n.term]
      /\ n.prs[m.from].next <= Len(n.log) + 1
    BY <1>1, LeaderFacts
<1>3. p \in ProgressType /\ p.match = n.prs[m.from].match /\ p.next = n.prs[m.from].next
  <2>1. p \in ProgressType
      BY <1>2, Zenon DEF ProgressType
  <2> QED BY <1>2, <2>1 DEF ProgressType
<1>4. handle_app_resp(n, m) = IF m.reject THEN app_resp_rejected(n1, m) ELSE app_resp_accepted(n1, m)
    BY DEF handle_app_resp
<1> HIDE DEF p
<1>5. Keeps(h, n, n1)
    BY <1>1, <1>2, <1>3, GoodPr
<1> HIDE DEF n1
<1>6. NodeOK(n1) /\ NodeGood(h, n1) /\ n1.state = "Leader" /\ n1.id = n.id /\ n1.term = n.term
    BY <1>5 DEF Keeps
<1>7. CASE m.reject
    BY <1>4, <1>5, <1>6, <1>7, AppRespRejectedGood, KeepsTrans
<1>8. CASE ~m.reject
    BY <1>4, <1>5, <1>6, <1>8, AppRespAcceptedGood, KeepsTrans
<1> QED BY <1>7, <1>8

LEMMA HeartbeatRespGood ==
    ASSUME NEW h, HistoryGood(h), NEW n, NodeOK(n), NodeGood(h, n), n.state = "Leader",
           NEW m \in MessageType, m.from # n.id
    PROVE  Keeps(h, n, handle_heartbeat_resp(n, m))
<1> DEFINE p == [n.prs[m.from] EXCEPT !.recent_active = TRUE, !.paused = FALSE]
           p1 == IF p.state = "Replicate" /\ is_full(p) THEN free_first_one(p) ELSE p
           n1 == [n EXCEPT !.prs[m.from] = p1]
<1>1. m.from \in Server
    BY MessageFields
<1>2. /\ n.prs[m.from] \in ProgressType
      /\ n.prs[m.from].match <= h.acked[m.from][n.term]
      /\ n.prs[m.from].next <= Len(n.log) + 1
    BY <1>1, LeaderFacts
<1>3. p \in ProgressType /\ p.match = n.prs[m.from].match /\ p.next = n.prs[m.from].next
  <2>1. p \in ProgressType
      BY <1>2, Zenon DEF ProgressType
  <2> QED BY <1>2, <2>1 DEF ProgressType
<1>4. handle_heartbeat_resp(n, m) \in {n1, send_append(n1, {m.from})}
    BY DEF handle_heartbeat_resp
<1> HIDE DEF p
<1>5. p1 \in ProgressType /\ p1.match = n.prs[m.from].match /\ p1.next = n.prs[m.from].next
  <2>1. /\ free_first_one(p) \in ProgressType
        /\ free_first_one(p).match = p.match /\ free_first_one(p).next = p.next
      BY <1>3, FreeToType, ProgressMoves DEF free_first_one
  <2> QED BY <1>3, <2>1
<1> HIDE DEF p1
<1>6. Keeps(h, n, n1)
    BY <1>1, <1>2, <1>5, GoodPr
<1> HIDE DEF n1
<1>7. Keeps(h, n1, send_append(n1, {m.from}))
    BY <1>1, <1>6, SendAppendGood DEF Keeps
<1> QED BY <1>4, <1>6, <1>7, KeepsTrans

LEMMA TransferGood ==
    ASSUME NEW h, HistoryGood(h), NEW n, NodeOK(n), NodeGood(h, n), n.state = "Leader",
           NEW to \in Server
    PROVE  Keeps(h, n, handle_transfer_leader(n, to))
<1> DEFINE n1 == [n EXCEPT !.transferee = to, !.lapsed = FALSE]
           n2 == [n EXCEPT !.transferee = Nil]
<1>1. \/ handle_transfer_leader(n, to) \in {n, n2}
      \/ to # n.id /\ n.prs[to].match = last_index(n)
            /\ handle_transfer_leader(n, to) = timeout_now(n1, to)
      \/ to # n.id /\ handle_transfer_leader(n, to) = send_append(n1, {to})
    BY DEF handle_transfer_leader
<1>2. NodeOK(n1) /\ NodeOK(n2)
    BY MarksQuiet DEF Quiet, Id
<1>3. \A r \in {n1, n2} :
         /\ r.id = n.id /\ r.term = n.term /\ r.vote = n.vote /\ r.state = n.state
         /\ r.votes = n.votes /\ r.log = n.log /\ r.committed = n.committed /\ r.lead = n.lead
         /\ r.prs = n.prs /\ r.msgs = n.msgs /\ r.fatal = n.fatal
    BY DEF NodeOK, NodeType
<1> HIDE DEF n1, n2
<1>4. Keeps(h, n, n1) /\ Keeps(h, n, n2) /\ Keeps(h, n, n)
    BY <1>2, <1>3, GoodSame DEF Keeps
<1>5. NodeOK(n1) /\ NodeGood(h, n1) /\ n1.state = "Leader" /\ n1.id = n.id
    BY <1>4 DEF Keeps
<1>6. to # n.id => Keeps(h, n1, send_append(n1, {to}))
    BY <1>5, SendAppendGood
<1>7. to # n.id /\ n.prs[to].match = last_index(n) => Keeps(h, n1, timeout_now(n1, to))
    BY <1>3, <1>5, TimeoutNowGood DEF last_index
<1> QED BY <1>1, <1>4, <1>6, <1>7, KeepsTrans

-----------------------------------------------------------------------------
(* A server that follows.                                                  *)

LEMMA FollowerFields ==
    ASSUME NEW n, NodeOK(n), NEW t \in Nat, NEW lead \in Id
    PROVE  LET r == become_follower(n, t, lead)
           IN  /\ r.log = n.log /\ r.committed = n.committed /\ r.lead = lead
               /\ r.fatal = n.fatal
BY DEF become_follower, reset, NodeOK, NodeType

(* What a later term keeps.                                                *)
LEMMA LaterGood ==
    ASSUME NEW h, HistoryGood(h), NEW n, NodeOK(n), NodeGood(h, n), NEW r, NodeOK(r),
           r.id = n.id, r.log = n.log, r.committed = n.committed, r.term >= n.term
    PROVE  LogGood(h, r) /\ AckGood(h, r)
<1>1. /\ n.log \in Seq(EntryType) /\ n.term \in Nat /\ r.term \in Nat /\ n.committed \in Nat
      /\ h \in HistoryType
    BY NodeFields DEF HistoryGood
<1>2. LogGood(h, n) /\ AckGood(h, n)
    BY DEF NodeGood
<1>3. Settled(h, r.log, r.committed, r.term)
    BY <1>1, <1>2, SettledLess DEF LogGood
<1>4. \A k \in 1..Len(r.log) : r.log[k].term <= r.term
  <2> TAKE k \in 1..Len(r.log)
  <2>1. n.log[k].term \in Nat /\ n.log[k].term <= n.term
      BY <1>1, <1>2, EntryTerm DEF LogGood
  <2> QED BY <1>1, <2>1
<1>5. LogGood(h, r)
    BY <1>1, <1>2, <1>3, <1>4 DEF LogGood
<1>6. ASSUME NEW t \in Nat, NEW k \in Nat, 1 <= k, k <= h.acked[r.id][t]
      PROVE  t <= r.term /\ (Same(h.log[t], r.log, k) \/ Lacks(h, t, k, r.term))
  <2>1. t <= n.term /\ (Same(h.log[t], n.log, k) \/ Lacks(h, t, k, n.term))
      BY <1>2, <1>6 DEF AckGood
  <2> QED BY <1>1, <2>1, LacksLater
<1> QED BY <1>5, <1>6 DEF AckGood

LEMMA FollowerGood ==
    ASSUME NEW h, HistoryGood(h), NEW n, NodeOK(n), NodeGood(h, n), n.msgs = {},
           NEW t \in Nat, t >= n.term, NEW lead \in Id, lead # n.id,
           lead # Nil => lead = h.winner[t]
    PROVE  LET r == become_follower(n, t, lead)
           IN  /\ NodeOK(r) /\ NodeGood(h, r) /\ r.id = n.id /\ r.msgs = {}
               /\ r.term = t /\ r.log = n.log /\ r.committed = n.committed
               /\ r.state = "Follower" /\ r.lead = lead
               /\ r.vote = (IF t = n.term THEN n.vote ELSE Nil)
<1> DEFINE r == become_follower(n, t, lead)
<1>1. /\ NodeOK(r) /\ r.id = n.id /\ r.msgs = n.msgs /\ r.state = "Follower"
      /\ r.term = t /\ r.vote = (IF t = n.term THEN n.vote ELSE Nil)
    BY BecomeFollower, SMTT(60)
<1>2. r.log = n.log /\ r.committed = n.committed /\ r.lead = lead /\ r.fatal = n.fatal
    BY FollowerFields
<1> HIDE DEF r
<1>3. LogGood(h, r) /\ AckGood(h, r)
    BY <1>1, <1>2, LaterGood
<1>4. VoteGood(h, r)
  <2>1. n.term \in Nat
      BY NodeFields
  <2>2. h.vote[n.id][t] = r.vote
    <3>1. CASE t = n.term
        BY <1>1, <3>1 DEF NodeGood, VoteGood
    <3>2. CASE t # n.term
      <4>1. t > n.term
          BY <2>1, <3>2
      <4> QED BY <1>1, <3>2, <4>1 DEF NodeGood, VoteGood
    <3> QED BY <3>1, <3>2
  <2>3. \A u \in Nat : u > t => h.vote[n.id][u] = Nil
    <3> TAKE u \in Nat
    <3> HAVE u > t
    <3>1. u > n.term
        BY <2>1
    <3> QED BY <3>1 DEF NodeGood, VoteGood
  <2> QED BY <1>1, <2>2, <2>3 DEF VoteGood
<1>5. LeadGood(h, r)
    BY <1>1, <1>2 DEF LeadGood
<1>6. OutGood(h, r)
    BY <1>1 DEF OutGood
<1>7. NodeGood(h, r)
    BY <1>2, <1>3, <1>4, <1>5, <1>6 DEF NodeGood
<1> QED BY <1>1, <1>2, <1>7, Zenon DEF r

LEMMA CatchUpGood ==
    ASSUME NEW h, HistoryGood(h), NEW n, NodeOK(n), NodeGood(h, n), n.msgs = {},
           NEW m \in MessageType, MsgGood(h, m), m.to = n.id, m.term >= n.term
    PROVE  LET c == catch_up(n, m)
           IN  /\ NodeOK(c) /\ NodeGood(h, c) /\ c.id = n.id /\ c.msgs = {}
               /\ c.term = m.term /\ c.log = n.log /\ c.committed = n.committed
               /\ m.term = n.term => c = n
               /\ m.term > n.term =>
                     /\ c.state = "Follower" /\ c.vote = Nil
                     /\ m.type \notin {"MsgApp", "MsgHeartbeat"} => c.lead = Nil
<1>1. /\ m.term \in Nat /\ m.from \in Server /\ m.to \in Server /\ n.term \in Nat /\ Nil \notin Server
    BY MessageFields, NodeFields, ServerAssumption
<1>2. /\ m.from # m.to /\ m.type \notin {"MsgPreVote", "MsgPreVoteResp"}
      /\ m.type \in {"MsgApp", "MsgHeartbeat"} => h.winner[m.term] = m.from
    BY DEF MsgGood
<1>3. CASE m.term = n.term
    BY <1>1, <1>3 DEF catch_up
<1>4. CASE m.term # n.term
  <2> DEFINE lead == IF m.type \in {"MsgApp", "MsgHeartbeat"} THEN m.from ELSE Nil
             r == become_follower(n, m.term, lead)
  <2>1. catch_up(n, m) = r
      BY <1>2, <1>4 DEF catch_up
  <2>2. lead \in Id /\ lead # n.id /\ (lead # Nil => lead = h.winner[m.term])
      BY <1>1, <1>2, NodeFields DEF Id
  <2>3. m.type \notin {"MsgApp", "MsgHeartbeat"} => lead = Nil
      OBVIOUS
  <2> HIDE DEF lead
  <2>4. /\ NodeOK(r) /\ NodeGood(h, r) /\ r.id = n.id /\ r.msgs = {}
        /\ r.term = m.term /\ r.log = n.log /\ r.committed = n.committed
        /\ r.state = "Follower" /\ r.lead = lead
        /\ r.vote = (IF m.term = n.term THEN n.vote ELSE Nil)
    <3>1. m.term \in Nat
        BY <1>1
    <3> QED BY <2>2, <3>1, FollowerGood
  <2> HIDE DEF r
  <2> QED BY <1>4, <2>1, <2>3, <2>4
<1> QED BY <1>3, <1>4

LEMMA HeardLeaderGood ==
    ASSUME NEW h, HistoryGood(h), NEW n, NodeOK(n), NodeGood(h, n), n.msgs = {},
           NEW m \in MessageType, MsgGood(h, m), m.to = n.id, m.term = n.term,
           m.type \in {"MsgApp", "MsgHeartbeat"}, n.state # "Leader"
    PROVE  LET r == heard_leader(n, m)
           IN  /\ NodeOK(r) /\ NodeGood(h, r) /\ r.id = n.id /\ r.msgs = {}
               /\ r.term = n.term /\ r.log = n.log /\ r.committed = n.committed
               /\ r.state = "Follower"
<1>1. /\ m.term \in Nat /\ m.from \in Id /\ m.from # Nil /\ m.from # n.id
      /\ h.winner[n.term] = m.from
    BY MessageFields, ServerAssumption DEF MsgGood, Id
<1>2. CASE n.state = "Follower"
  <2> DEFINE r == [n EXCEPT !.lapsed = FALSE, !.lead = m.from]
  <2>1. heard_leader(n, m) = r
      BY <1>2 DEF heard_leader
  <2>2. NodeOK(r)
      BY <1>1, MarksQuiet DEF Quiet
  <2>3. /\ r.id = n.id /\ r.term = n.term /\ r.vote = n.vote /\ r.state = n.state
        /\ r.votes = n.votes /\ r.log = n.log /\ r.committed = n.committed /\ r.lead = m.from
        /\ r.msgs = n.msgs /\ r.fatal = n.fatal
      BY DEF NodeOK, NodeType
  <2> HIDE DEF r
  <2>4. LogGood(h, r) /\ AckGood(h, r)
      BY <2>3, Zenon DEF NodeGood, LogGood, AckGood
  <2>5. VoteGood(h, r)
      BY <2>3, Zenon DEF NodeGood, VoteGood
  <2>6. LeadGood(h, r)
      BY <1>1, <1>2, <2>3 DEF LeadGood
  <2>7. OutGood(h, r)
      BY <2>3 DEF OutGood
  <2> QED BY <1>2, <2>1, <2>2, <2>3, <2>4, <2>5, <2>6, <2>7 DEF NodeGood
<1>3. CASE n.state # "Follower"
  <2> DEFINE r == become_follower(n, m.term, m.from)
  <2>1. heard_leader(n, m) = r
      BY <1>3 DEF heard_leader
  <2>2. m.term >= n.term
      BY <1>1
  <2>3. /\ NodeOK(r) /\ NodeGood(h, r) /\ r.id = n.id /\ r.msgs = {}
        /\ r.term = m.term /\ r.log = n.log /\ r.committed = n.committed
        /\ r.state = "Follower" /\ r.lead = m.from
        /\ r.vote = (IF m.term = n.term THEN n.vote ELSE Nil)
      BY <1>1, <2>2, FollowerGood
  <2> HIDE DEF r
  <2> QED BY <2>1, <2>3
<1> QED BY <1>2, <1>3

LEMMA HeartbeatGood ==
    ASSUME NEW h, HistoryGood(h), NEW n, NodeOK(n), NodeGood(h, n),
           NEW m \in MessageType, MsgGood(h, m), m.to = n.id, m.term = n.term,
           m.type = "MsgHeartbeat"
    PROVE  Keeps(h, n, handle_heartbeat(n, m))
<1> DEFINE t == n.term
           r == commit_to(n, m.commit)
           d == Reply(m, "MsgHeartbeatResp")
           x == Stamp(r, d)
<1>1. /\ n.term \in Nat /\ n.log \in Seq(EntryType) /\ n.committed \in Nat /\ m.commit \in Nat
      /\ m.from \in Server /\ n.id \in Server /\ Len(n.log) \in Nat /\ h \in HistoryType
    BY NodeFields, MessageFields DEF HistoryGood
<1>2. /\ m.from # n.id /\ t >= 1 /\ m.commit <= h.acked[n.id][t]
      /\ Settled(h, h.log[t], m.commit, t)
    BY DEF MsgGood
<1>3. m.commit > n.committed => m.commit <= Len(n.log) /\ Settled(h, n.log, m.commit, t)
  <2> HAVE m.commit > n.committed
  <2>1. 1 <= m.commit
      BY <1>1
  <2>2. Same(h.log[t], n.log, m.commit) \/ Lacks(h, t, m.commit, t)
      BY <1>1, <1>2, <2>1 DEF NodeGood, AckGood
  <2>3. ~Lacks(h, t, m.commit, t)
      BY <1>1 DEF Lacks
  <2>4. Same(h.log[t], n.log, m.commit)
      BY <2>2, <2>3
  <2>5. Settled(h, n.log, m.commit, t)
      BY <1>1, <1>2, <2>4, HistoryFields, SettledSame
  <2> QED BY <2>4, <2>5 DEF Same
<1>4. Keeps(h, n, r)
    BY <1>1, <1>3, CommitGood
<1>5. NodeOK(r) /\ NodeGood(h, r) /\ r.id = n.id /\ r.term = n.term
    BY <1>4 DEF Keeps
<1>6. handle_heartbeat(n, m) = send(r, {d})
    BY DEF handle_heartbeat
<1>7. d \in Draft /\ d.type = "MsgHeartbeatResp" /\ d.to = m.from
    BY <1>1, MessageDraft DEF MsgTypes, Reply
<1>8. d.term = 0 /\ "MsgHeartbeatResp" \notin VoteTypes
    BY DEF Message, VoteTypes, Reply
<1> HIDE DEF r, d
<1>9. x.type = "MsgHeartbeatResp" /\ x.to = m.from /\ x.from = r.id /\ x.term = r.term
    BY <1>7, <1>8, StampFields
<1> HIDE DEF x
<1>10. Outgoing(h, r, x)
    BY <1>2, <1>5, <1>9 DEF Outgoing, MsgGood
<1>11. Keeps(h, r, send(r, {d}))
    BY <1>5, <1>7, <1>8, <1>10, SendOneGood DEF x
<1> QED BY <1>4, <1>6, <1>11, KeepsTrans

(* The answer to a deposed leader.                                         *)
LEMMA StaleReplyGood ==
    ASSUME NEW h, HistoryGood(h), NEW n, NodeOK(n), NodeGood(h, n),
           NEW m \in MessageType, MsgGood(h, m), m.to = n.id
    PROVE  Keeps(h, n, send(n, {Reply(m, "MsgAppResp")}))
<1> DEFINE d == Reply(m, "MsgAppResp")
           x == Stamp(n, d)
<1>1. n.term \in Nat /\ m.from \in Server /\ n.id \in Server /\ h \in HistoryType
    BY NodeFields, MessageFields DEF HistoryGood
<1>2. m.from # n.id /\ n.term >= 1 /\ 0 <= h.acked[n.id][n.term]
    BY <1>1, HistoryFields DEF MsgGood, NodeGood, LogGood
<1>3. d \in Draft /\ d.type = "MsgAppResp" /\ d.to = m.from
    BY <1>1, MessageDraft DEF MsgTypes, Reply
<1>4. d.term = 0 /\ d.index = 0 /\ "MsgAppResp" \notin VoteTypes
    BY DEF Message, VoteTypes, Reply
<1> HIDE DEF d
<1>5. /\ x.type = "MsgAppResp" /\ x.to = m.from /\ x.from = n.id /\ x.term = n.term
      /\ x.index = 0
    BY <1>3, <1>4, StampFields
<1> HIDE DEF x
<1>6. Outgoing(h, n, x)
    BY <1>2, <1>5 DEF Outgoing, MsgGood
<1>7. Keeps(h, n, send(n, {d}))
    BY <1>3, <1>4, <1>6, SendOneGood DEF x
<1> QED BY <1>7 DEF d

LEMMA RejectVoteGood ==
    ASSUME NEW h, NEW n, NodeOK(n), NodeGood(h, n),
           NEW m \in MessageType, MsgGood(h, m), m.to = n.id, m.type = "MsgVote"
    PROVE  Keeps(h, n, reject_vote(n, m))
<1> DEFINE b == Reply(m, "MsgVoteResp")
           d == [b EXCEPT !.term = n.term, !.reject = TRUE]
           x == Stamp(n, d)
<1>1. n.term \in Nat /\ m.from \in Server /\ n.id \in Server
    BY NodeFields, MessageFields
<1>2. m.from # n.id /\ n.term >= 1
    BY DEF MsgGood, NodeGood, LogGood
<1>3. b \in Draft /\ b.type = "MsgVoteResp" /\ b.to = m.from
    BY <1>1, MessageDraft DEF MsgTypes, VoteTypes, Reply
<1>4. reject_vote(n, m) = send(n, {d})
    BY DEF reject_vote, vote_resp_msg_type
<1> HIDE DEF b
<1>5. d \in Draft
    BY <1>1, <1>3, Zenon DEF Draft
<1>6. d.type = "MsgVoteResp" /\ d.to = m.from /\ d.term = n.term /\ d.reject = TRUE
    BY <1>3 DEF Draft
<1> HIDE DEF d
<1>7. /\ x.type = "MsgVoteResp" /\ x.to = m.from /\ x.from = n.id /\ x.term = n.term
      /\ x.reject = TRUE
    BY <1>5, <1>6, StampFields DEF VoteTypes
<1> HIDE DEF x
<1>8. Outgoing(h, n, x)
    BY <1>2, <1>7 DEF Outgoing, MsgGood
<1>9. \A y \in {d} : /\ y.type = "MsgProp" => Len(y.entries) = 1
                     /\ y.type \in VoteTypes <=> y.term # 0
                     /\ Outgoing(h, n, Stamp(n, y))
    BY <1>1, <1>2, <1>6, <1>8 DEF VoteTypes, x
<1>10. Keeps(h, n, send(n, {d}))
    BY <1>5, <1>9, SendGood
<1> QED BY <1>4, <1>10

(* A follower passes a proposal or a transfer request of its own           *)
(* application on to the leader it knows.                                  *)
LEMMA PassOnGood ==
    ASSUME NEW h, NEW n, NodeOK(n), NodeGood(h, n), n.state = "Follower", n.lead # Nil,
           NEW m \in Local, m.type \in {"MsgProp", "MsgTransferLeader"}, m.term = 0,
           m.type = "MsgProp" => Len(m.entries) = 1
    PROVE  Keeps(h, n, send(n, {[m EXCEPT !.to = n.lead]}))
<1> DEFINE d == [m EXCEPT !.to = n.lead]
           x == Stamp(n, d)
<1>1. n.term \in Nat /\ n.lead \in Server /\ n.id \in Server
    BY NodeFields DEF Id
<1>2. n.lead = h.winner[n.term] /\ n.lead # n.id /\ n.term >= 1
    BY DEF NodeGood, LeadGood, LogGood
<1>3. d \in Draft
    BY <1>1, Zenon DEF Draft, Local
<1>4. d.type = m.type /\ d.to = n.lead /\ d.term = 0 /\ d.entries = m.entries
    BY DEF Local
<1> HIDE DEF d
<1>5. d.type \notin VoteTypes
    BY <1>4 DEF VoteTypes
<1>6. /\ x.type = m.type /\ x.to = n.lead /\ x.from = n.id /\ x.term = n.term
    BY <1>3, <1>4, <1>5, StampFields
<1> HIDE DEF x
<1>7. Outgoing(h, n, x)
    BY <1>2, <1>6 DEF Outgoing, MsgGood
<1>8. Keeps(h, n, send(n, {d}))
    BY <1>3, <1>4, <1>5, <1>7, SendOneGood DEF x
<1> QED BY <1>8 DEF d

(* A follower never gets such a message: it would have to be the leader    *)
(* that it follows.                                                        *)
LEMMA NotPassedOn ==
    ASSUME NEW h, NEW n, NodeOK(n), NodeGood(h, n), n.state = "Follower",
           NEW m \in MessageType, MsgGood(h, m), m.to = n.id, m.term = n.term,
           m.type \in {"MsgProp", "MsgTransferLeader"}
    PROVE  n.lead = Nil
BY DEF NodeGood, LeadGood, MsgGood

-----------------------------------------------------------------------------
(* Events that the history has to record.                                  *)

LEMMA ContinuesRefl ==
    ASSUME NEW g \in HistoryType, NEW i
    PROVE  Continues(g, g, i)
<1>1. \A t \in Nat : Grows(g.log[t], g.log[t], t)
    BY HistoryFields, GrowsRefl
<1>2. \A q \in Server, t \in Nat : g.acked[q][t] <= g.acked[q][t]
  <2> TAKE q \in Server, t \in Nat
  <2>1. g.acked[q][t] \in Nat
      BY HistoryFields
  <2> QED BY <2>1
<1> QED BY <1>1, <1>2 DEF Continues

LEMMA GrowsTrans ==
    ASSUME NEW a \in Seq(EntryType), NEW b \in Seq(EntryType), NEW c \in Seq(EntryType),
           NEW t, Grows(a, b, t), Grows(b, c, t)
    PROVE  Grows(a, c, t)
<1>1. Len(a) \in Nat /\ Len(b) \in Nat /\ Len(c) \in Nat /\ Len(a) <= Len(b) /\ Len(b) <= Len(c)
    BY DEF Grows, Same
<1>2. Same(a, c, Len(a))
    BY <1>1 DEF Grows, Same
<1>3. ASSUME a # <<>>, NEW x \in (Len(a) + 1)..Len(c)
      PROVE  c[x].term = t
  <2>1. b # <<>>
      BY <1>1, <1>3, EmptyLog
  <2>2. CASE x <= Len(b)
    <3>1. x \in (Len(a) + 1)..Len(b) /\ x \in 1..Len(b)
        BY <1>1, <2>2
    <3> QED BY <1>3, <3>1 DEF Grows, Same
  <2>3. CASE ~(x <= Len(b))
    <3>1. x \in (Len(b) + 1)..Len(c)
        BY <1>1, <2>3
    <3> QED BY <2>1, <3>1 DEF Grows
  <2> QED BY <2>2, <2>3
<1> QED BY <1>2, <1>3 DEF Grows

LEMMA ContinuesTrans ==
    ASSUME NEW g \in HistoryType, NEW h \in HistoryType, NEW f \in HistoryType,
           NEW i \in Server, Continues(g, h, i), Continues(h, f, i)
    PROVE  Continues(g, f, i)
<1>1. ASSUME NEW t \in Nat
      PROVE  /\ Grows(g.log[t], f.log[t], t)
             /\ f.log[t] # g.log[t] => f.winner[t] = i
             /\ g.winner[t] # Nil => f.winner[t] = g.winner[t]
             /\ f.winner[t] # g.winner[t] => f.winner[t] = i
  <2>1. Grows(g.log[t], f.log[t], t)
    <3>1. Grows(g.log[t], h.log[t], t) /\ Grows(h.log[t], f.log[t], t)
        BY DEF Continues
    <3> QED BY <3>1, HistoryFields, GrowsTrans
  <2>2. /\ h.log[t] # g.log[t] => h.winner[t] = i
        /\ g.winner[t] # Nil => h.winner[t] = g.winner[t]
        /\ h.winner[t] # g.winner[t] => h.winner[t] = i
      BY DEF Continues
  <2>3. /\ f.log[t] # h.log[t] => f.winner[t] = i
        /\ h.winner[t] # Nil => f.winner[t] = h.winner[t]
        /\ f.winner[t] # h.winner[t] => f.winner[t] = i
      BY DEF Continues
  <2> QED BY <2>1, <2>2, <2>3, ServerAssumption
<1>2. ASSUME NEW q \in Server, NEW t \in Nat
      PROVE  /\ g.acked[q][t] <= f.acked[q][t]
             /\ g.vote[q][t] # Nil => f.vote[q][t] = g.vote[q][t]
             /\ g.vote[q][t] = q => f.stood[q][t] = g.stood[q][t]
  <2>1. g.acked[q][t] \in Nat /\ h.acked[q][t] \in Nat /\ f.acked[q][t] \in Nat
      BY HistoryFields
  <2>2. /\ g.acked[q][t] <= h.acked[q][t]
        /\ g.vote[q][t] # Nil => h.vote[q][t] = g.vote[q][t]
        /\ g.vote[q][t] = q => h.stood[q][t] = g.stood[q][t]
      BY DEF Continues
  <2>3. /\ h.acked[q][t] <= f.acked[q][t]
        /\ h.vote[q][t] # Nil => f.vote[q][t] = h.vote[q][t]
        /\ h.vote[q][t] = q => f.stood[q][t] = h.stood[q][t]
      BY DEF Continues
  <2> QED BY <2>1, <2>2, <2>3, ServerAssumption
<1>3. \A q \in Server \ {i} : /\ f.acked[q] = g.acked[q] /\ f.vote[q] = g.vote[q]
                              /\ f.stood[q] = g.stood[q]
    BY DEF Continues
<1> QED BY <1>1, <1>2, <1>3 DEF Continues

(* What only depends on the logs and the acknowledgements of a history.    *)
LEMMA SameLogsGood ==
    ASSUME NEW g, NEW h, h.log = g.log, h.acked = g.acked, NEW n
    PROVE  /\ LogGood(g, n) => LogGood(h, n)
           /\ AckGood(g, n) => AckGood(h, n)
<1>1. \A t, k : Chosen(g, t, k) => Chosen(h, t, k)
    BY DEF Chosen
<1>2. \A log, x, u : Settled(g, log, x, u) => Settled(h, log, x, u)
    BY <1>1 DEF Settled
<1>3. \A t, k, u : Lacks(g, t, k, u) => Lacks(h, t, k, u)
    BY DEF Lacks
<1>4. \A log : Agrees(g, log) => Agrees(h, log)
    BY DEF Agrees
<1>5. LogGood(g, n) => LogGood(h, n)
    BY <1>2, <1>4 DEF LogGood
<1>6. AckGood(g, n) => AckGood(h, n)
    BY <1>3 DEF AckGood
<1> QED BY <1>5, <1>6

(* r is what an event of server i leaves, and some history that continues  *)
(* g explains it.                                                          *)
Result(g, i, r) ==
    \E h : /\ HistoryGood(h) /\ Continues(g, h, i)
           /\ NodeOK(r) /\ NodeGood(h, r) /\ r.id = i

LEMMA SameResult ==
    ASSUME NEW g, HistoryGood(g), NEW r, NodeOK(r), NodeGood(g, r)
    PROVE  Result(g, r.id, r)
BY ContinuesRefl DEF Result, HistoryGood

LEMMA KeptResult ==
    ASSUME NEW g, HistoryGood(g), NEW n, NEW r, Keeps(g, n, r)
    PROVE  Result(g, n.id, r)
BY SameResult DEF Keeps

LEMMA LaterResult ==
    ASSUME NEW g, HistoryGood(g), NEW h, HistoryGood(h), NEW i \in Server, Continues(g, h, i),
           NEW r, Result(h, i, r)
    PROVE  Result(g, i, r)
BY ContinuesTrans DEF Result, HistoryGood

-----------------------------------------------------------------------------
(* Elections.                                                              *)

LEMMA PollFields ==
    ASSUME NEW n, NodeOK(n), NEW j \in Server, NEW granted \in BOOLEAN
    PROVE  LET c == poll(n, j, granted)
           IN  /\ c.log = n.log /\ c.committed = n.committed /\ c.lead = n.lead
               /\ c.fatal = n.fatal /\ c.prs = n.prs
BY DEF poll, NodeOK, NodeType

LEMMA CandidateFields ==
    ASSUME NEW n, NodeOK(n), n.state # "Leader"
    PROVE  LET r == become_candidate(n)
           IN  /\ r.log = n.log /\ r.committed = n.committed /\ r.lead = Nil
               /\ r.fatal = n.fatal
BY DEF become_candidate, reset, NodeOK, NodeType

LEMMA StandsGood ==
    ASSUME NEW g, HistoryGood(g), NEW n, NodeOK(n), NodeGood(g, n), n.msgs = {},
           n.state # "Leader"
    PROVE  LET c == poll(become_candidate(n), n.id, TRUE)
           IN  \E h : /\ HistoryGood(h) /\ Continues(g, h, n.id)
                      /\ NodeOK(c) /\ NodeGood(h, c) /\ c.id = n.id /\ c.msgs = {}
                      /\ c.state = "Candidate"
<1> DEFINE i == n.id
           t == n.term + 1
           b == become_candidate(n)
           c == poll(b, i, TRUE)
<1>1. /\ i \in Server /\ n.term \in Nat /\ t \in Nat /\ n.log \in Seq(EntryType)
      /\ n.committed \in Nat /\ g \in HistoryType
    BY NodeFields DEF HistoryGood
<1>2. /\ n.term >= 1 /\ Agrees(g, n.log) /\ \A k \in 1..Len(n.log) : n.log[k].term <= n.term
    BY DEF NodeGood, LogGood
<1>3. \A u \in Nat : u > n.term => g.vote[i][u] = Nil
    BY DEF NodeGood, VoteGood
<1>4. g.vote[i][t] = Nil /\ g.winner[t] # i
  <2>1. g.vote[i][t] = Nil
      BY <1>1, <1>3
  <2>2. g.winner[t] = i => g.vote[i][t] = i
      BY <1>1, ServerAssumption DEF HistoryGood, WinnersGood
  <2> QED BY <1>1, <2>1, <2>2, ServerAssumption
<1>5. \A k \in 1..Len(n.log) : n.log[k].term < t
  <2> TAKE k \in 1..Len(n.log)
  <2>1. n.log[k].term \in Nat
      BY <1>1, EntryTerm
  <2> QED BY <1>1, <1>2, <2>1
<1>6. Covered(g, i, t, n.log)
  <2> SUFFICES ASSUME NEW u \in Nat, NEW k \in Nat, u < t, 1 <= k, k <= g.acked[i][u]
               PROVE  Same(g.log[u], n.log, k) \/ Lacks(g, u, k, t - 1)
      BY DEF Covered
  <2>1. Same(g.log[u], n.log, k) \/ Lacks(g, u, k, n.term)
      BY DEF NodeGood, AckGood
  <2>2. t - 1 = n.term
      BY <1>1
  <2> QED BY <2>1, <2>2
<1>6a. \E h : /\ HistoryGood(h) /\ Continues(g, h, i)
               /\ h.log = g.log /\ h.acked = g.acked /\ h.winner = g.winner
               /\ h.vote[i][t] = i
               /\ \A u \in Nat : u # t => h.vote[i][u] = g.vote[i][u]
               /\ h.stood[i][t] = n.log
  <2>1. Agrees(g, n.log) /\ \A k \in 1..Len(n.log) : n.log[k].term < t
      BY <1>2, <1>5
  <2>2. i \in Server /\ t \in Nat /\ n.log \in Seq(EntryType)
      BY <1>1
  <2>3. g.winner[t] = Nil => Covered(g, i, t, n.log)
      BY <1>6
  <2>4. g.vote[i][t] = Nil
      BY <1>4
  <2> HIDE DEF t, i
  <2> QED BY <2>1, <2>2, <2>3, <2>4, CastVote, SMTT(30)
<1>7. PICK h : /\ HistoryGood(h) /\ Continues(g, h, i)
               /\ h.log = g.log /\ h.acked = g.acked /\ h.winner = g.winner
               /\ h.vote[i][t] = i
               /\ \A u \in Nat : u # t => h.vote[i][u] = g.vote[i][u]
               /\ h.stood[i][t] = n.log
    BY <1>6a
<1>8. /\ NodeOK(b) /\ b.id = i /\ b.msgs = {} /\ b.state = "Candidate"
      /\ b.term = t /\ b.vote = i /\ b.votes = [j \in Server |-> "none"]
      /\ b.log = n.log /\ b.committed = n.committed /\ b.lead = Nil /\ b.fatal = n.fatal
  <2>1. /\ NodeOK(b) /\ b.id = i /\ b.msgs = n.msgs /\ b.state = "Candidate"
        /\ b.term = t /\ b.vote = i /\ b.votes = [j \in Server |-> "none"]
      BY BecomeCandidate, Zenon
  <2>2. b.log = n.log /\ b.committed = n.committed /\ b.lead = Nil /\ b.fatal = n.fatal
      BY CandidateFields, Zenon
  <2> HIDE DEF b
  <2> QED BY <2>1, <2>2
<1> HIDE DEF b
<1>9. /\ NodeOK(c) /\ c.id = i /\ c.msgs = {} /\ c.state = "Candidate"
      /\ c.term = t /\ c.vote = i
      /\ \A k \in Server : c.votes[k] = "granted" => k = i
      /\ c.log = n.log /\ c.committed = n.committed /\ c.lead = Nil /\ c.fatal = n.fatal
  <2>1. NodeOK(b) /\ TRUE \in BOOLEAN
      BY <1>8
  <2>2. /\ NodeOK(c) /\ c.id = b.id /\ c.msgs = b.msgs /\ c.state = b.state
        /\ c.term = b.term /\ c.vote = b.vote
        /\ \A k \in Server : c.votes[k] = "granted" => b.votes[k] = "granted" \/ k = i
      BY <1>1, <2>1, OwnVote
  <2>3. c.log = b.log /\ c.committed = b.committed /\ c.lead = b.lead /\ c.fatal = b.fatal
      BY <1>1, <2>1, PollFields
  <2> HIDE DEF c
  <2>4. \A k \in Server : b.votes[k] # "granted"
      BY <1>8
  <2> QED BY <1>8, <2>2, <2>3, <2>4
<1> HIDE DEF c
<1>10. LogGood(h, c) /\ AckGood(h, c)
  <2>1. c.term >= n.term
      BY <1>1, <1>9
  <2>2. LogGood(g, c) /\ AckGood(g, c)
      BY <1>9, <2>1, LaterGood
  <2> QED BY <1>7, <2>2, SameLogsGood
<1>11. VoteGood(h, c)
  <2>1. \A u \in Nat : u > t => h.vote[i][u] = Nil
    <3> TAKE u \in Nat
    <3> HAVE u > t
    <3>1. u # t /\ u > n.term
        BY <1>1
    <3> QED BY <1>3, <1>7, <3>1
  <2>2. t >= 2
      BY <1>1, <1>2
  <2> QED BY <1>4, <1>7, <1>9, <2>1, <2>2 DEF VoteGood
<1>12. LeadGood(h, c) /\ OutGood(h, c)
    BY <1>9 DEF LeadGood, OutGood
<1>13. NodeGood(h, c)
    BY <1>9, <1>10, <1>11, <1>12 DEF NodeGood
<1> QED BY <1>7, <1>9, <1>13 DEF c, b

LEMMA VoteRequestsGood ==
    ASSUME NEW h, NEW n, NodeOK(n), NodeGood(h, n), n.state = "Candidate"
    PROVE  Keeps(h, n, send(n, VoteRequests(n, "MsgVote", n.term)))
<1> DEFINE ms == VoteRequests(n, "MsgVote", n.term)
           req(j) == [Message("MsgVote", j) EXCEPT !.term = n.term, !.index = last_index(n),
                                                   !.log_term = last_term(n)]
<1>1. /\ n.term \in Nat /\ n.id \in Server /\ n.log \in Seq(EntryType)
      /\ last_index(n) \in Nat /\ last_term(n) \in Nat
    BY NodeFields DEF last_term
<1>2. /\ n.term >= 2 /\ h.vote[n.id][n.term] = n.id /\ h.stood[n.id][n.term] = n.log
    BY DEF NodeGood, VoteGood
<1>3. last_index(n) = Len(n.log) /\ last_term(n) = LastTerm(n.log)
  <2>1. Len(n.log) \in DOMAIN n.log <=> Len(n.log) # 0
      BY <1>1
  <2> QED BY <2>1 DEF last_index, last_term, log_term, LastTerm
<1>4. ASSUME NEW j \in Server, j # n.id
      PROVE  LET x == Stamp(n, req(j))
             IN  /\ req(j) \in Draft /\ req(j).type = "MsgVote" /\ req(j).term = n.term
                 /\ Outgoing(h, n, x)
  <2> DEFINE b == Message("MsgVote", j)
             d == req(j)
             x == Stamp(n, d)
  <2>1. b \in Draft /\ b.type = "MsgVote" /\ b.to = j
      BY MessageDraft DEF MsgTypes, VoteTypes
  <2> HIDE DEF b
  <2>2. d \in Draft
      BY <1>1, <2>1, Zenon DEF Draft, b
  <2>3. /\ d.type = "MsgVote" /\ d.to = j /\ d.term = n.term /\ d.index = last_index(n)
        /\ d.log_term = last_term(n)
      BY <2>1 DEF Draft, b
  <2> HIDE DEF d
  <2>4. /\ x.type = "MsgVote" /\ x.to = j /\ x.from = n.id /\ x.term = n.term
        /\ x.index = last_index(n) /\ x.log_term = last_term(n)
      BY <2>2, <2>3, StampFields DEF VoteTypes
  <2> HIDE DEF x
  <2>5. Outgoing(h, n, x)
      BY <1>1, <1>2, <1>3, <1>4, <2>4 DEF Outgoing, MsgGood
  <2> QED BY <2>2, <2>3, <2>5 DEF d, x
<1> HIDE DEF req
<1>5. ms = {req(j) : j \in Peers(n)}
    BY DEF VoteRequests, req
<1>6. \A m \in ms : /\ m \in Draft /\ m.type = "MsgVote" /\ m.term = n.term
                    /\ Outgoing(h, n, Stamp(n, m))
    BY <1>4, <1>5 DEF Peers
<1> HIDE DEF ms
<1>7. ms \in SUBSET Draft /\ n.term # 0
    BY <1>1, <1>2, <1>6
<1>8. /\ \A m \in ms : m.type = "MsgProp" => Len(m.entries) = 1
      /\ \A m \in ms : m.type \in VoteTypes <=> m.term # 0
    BY <1>6, <1>7 DEF VoteTypes
<1>9. Keeps(h, n, send(n, ms))
    BY <1>6, <1>7, <1>8, SendGood
<1> QED BY <1>9 DEF ms

(* The leader n of term t appends an entry and h records it.               *)
LEMMA AppendEntryGood ==
    ASSUME NEW g, HistoryGood(g), NEW h, HistoryGood(h), NEW n, NodeOK(n),
           Continues(g, h, n.id), ~n.fatal, n.msgs = {}, n.state = "Leader",
           n.lead \in {Nil, n.id}, n.term >= 2, NEW v \in Payload,
           LogGood(g, n), AckGood(g, n),
           g.vote[n.id][n.term] = n.vote, \A u \in Nat : u > n.term => g.vote[n.id][u] = Nil,
           \A j \in Server : /\ j # n.id => n.prs[j].match <= g.acked[j][n.term]
                             /\ n.prs[j].next <= Len(n.log) + 1,
           n.prs[n.id].match <= Len(n.log),
           h.vote = g.vote, h.log[n.term] = Append(n.log, Entry(n.term, v)),
           h.winner[n.term] = n.id, h.acked[n.id][n.term] = Len(n.log) + 1,
           \A u \in Nat : u # n.term => h.acked[n.id][u] = g.acked[n.id][u]
    PROVE  LET r == append_entry(n, v)
           IN  /\ NodeOK(r) /\ NodeGood(h, r) /\ r.id = n.id /\ r.term = n.term
               /\ r.state = "Leader" /\ r.log = Append(n.log, Entry(n.term, v))
<1> DEFINE i == n.id
           t == n.term
           e == Entry(t, v)
           b == Append(n.log, e)
           n1 == append(n, last_index(n), <<e>>)
           p == maybe_update(n.prs[i], Len(n.log) + 1)
           f == [n.prs EXCEPT ![i] = p]
           size == payload_size(<<e>>)
           r == [n EXCEPT !.log = b, !.uncommitted = @ + size, !.prs = f]
<1>1. /\ i \in Server /\ t \in Nat /\ n.log \in Seq(EntryType) /\ Len(n.log) \in Nat
      /\ n.committed \in Nat /\ n.committed <= Len(n.log) /\ n.uncommitted \in Nat
      /\ n.prs \in [Server -> ProgressType] /\ last_index(n) = Len(n.log)
    BY NodeFields DEF last_index
<1>2. e \in EntryType /\ e.term = t
    BY <1>1 DEF Entry, EntryType
<1> HIDE DEF e
<1>3. b \in Seq(EntryType) /\ Len(b) = Len(n.log) + 1 /\ Same(n.log, b, Len(n.log))
    BY <1>1, <1>2 DEF Same
<1>4. size \in Nat
  <2>1. <<e>> \in Seq(EntryType)
      BY <1>2
  <2> QED BY <2>1, PayloadSizeType
<1>5. n1 = [n EXCEPT !.log = b]
  <2>1. SubSeq(n.log, 1, Len(n.log)) \o <<e>> = b
    <3>1. SubSeq(n.log, 1, Len(n.log)) = n.log
        BY <1>1, SubSeqFull
    <3>2. n.log \o <<e>> = Append(n.log, e)
        BY <1>1, <1>2, AppendIsConcat
    <3> QED BY <3>1, <3>2
  <2>2. n1 = [n EXCEPT !.log = SubSeq(n.log, 1, Len(n.log)) \o <<e>>]
      BY <1>1 DEF append
  <2> QED BY <2>1, <2>2
<1>6. p \in ProgressType /\ p.match <= Len(n.log) + 1 /\ p.next <= Len(n.log) + 2
  <2>1. n.prs[i] \in ProgressType /\ Len(n.log) + 1 \in Nat
      BY <1>1
  <2>2. /\ p \in ProgressType /\ p.match \in {n.prs[i].match, Len(n.log) + 1}
        /\ p.next \in {n.prs[i].next, Len(n.log) + 1 + 1}
      BY <2>1, ProgressTypes, ProgressMoves
  <2>3. n.prs[i].match \in Nat /\ n.prs[i].next \in Nat
      BY <2>1 DEF ProgressType
  <2>4. n.prs[i].match <= Len(n.log) + 1
      BY <1>1, <2>3
  <2> HIDE DEF p
  <2> QED BY <1>1, <2>2, <2>3, <2>4, SMTT(30)
<1> HIDE DEF b, size
<1>7. append_entry(n, v) = maybe_commit(r)
  <2>1. last_index(n1) = Len(n.log) + 1
      BY <1>3, <1>5 DEF NodeOK, NodeType, last_index
  <2>2. append_entry(n, v) = maybe_commit([n1 EXCEPT !.uncommitted = @ + size,
                                  !.prs[i] = maybe_update(@, last_index(n1))])
    <3>1. n1.id = n.id
        BY <1>5 DEF NodeOK, NodeType
    <3> QED BY <3>1 DEF append_entry, size, e
  <2>3. [n1 EXCEPT !.uncommitted = @ + size, !.prs[i] = maybe_update(@, last_index(n1))]
            = [n EXCEPT !.log = b, !.uncommitted = @ + size, !.prs = [n.prs EXCEPT ![i] = p]]
      BY <1>5, <2>1 DEF NodeOK, NodeType
  <2> QED BY <2>2, <2>3
<1> HIDE DEF p
<1>8. f \in [Server -> ProgressType]
    BY <1>1, <1>6
<1>9. \A j \in Server : f[j].match <= h.acked[j][t] /\ f[j].next <= Len(b) + 1
  <2> TAKE j \in Server
  <2>1. CASE j = i
    <3>1. f[j] = p
        BY <1>1, <2>1
    <3>2. Len(n.log) + 2 = Len(b) + 1
        BY <1>1, <1>3
    <3> HIDE DEF f
    <3> QED BY <1>6, <2>1, <3>1, <3>2
  <2>2. CASE j # i
    <3>1. f[j] = n.prs[j]
        BY <1>1, <2>2
    <3>2. g.acked[j][t] \in Nat /\ h.acked[j][t] \in Nat /\ g.acked[j][t] <= h.acked[j][t]
        BY <1>1, HistoryFields DEF HistoryGood, Continues
    <3>3. n.prs[j].match \in Nat /\ n.prs[j].next \in Nat
        BY <1>1 DEF ProgressType
    <3>4. n.prs[j].match <= h.acked[j][t]
        BY <2>2, <3>2, <3>3
    <3>5. n.prs[j].next <= Len(b) + 1
        BY <1>1, <1>3, <3>3
    <3> HIDE DEF f
    <3> QED BY <3>1, <3>4, <3>5
  <2> QED BY <2>1, <2>2
<1> HIDE DEF f
<1>10. NodeOK(r)
  <2>1. n.uncommitted + size \in Nat
      BY <1>1, <1>4
  <2>2. r \in NodeType
      BY <1>3, <1>8, <2>1, Zenon DEF NodeOK, NodeType
  <2>3. r.committed = n.committed /\ r.log = b /\ r.msgs = n.msgs
      BY DEF NodeOK, NodeType
  <2> HIDE DEF r
  <2>4. n.committed <= Len(b)
      BY <1>1, <1>3
  <2> QED BY <2>2, <2>3, <2>4 DEF NodeOK
<1>11. /\ r.id = i /\ r.term = t /\ r.vote = n.vote /\ r.state = "Leader"
       /\ r.log = b /\ r.committed = n.committed /\ r.lead = n.lead
       /\ r.prs = f /\ r.msgs = {} /\ r.fatal = n.fatal
    BY DEF NodeOK, NodeType
<1> HIDE DEF r
<1>12. h.log[t] = b /\ h \in HistoryType /\ g \in HistoryType /\ LogsGood(h)
    BY DEF b, e, HistoryGood
<1>13. LogGood(h, r)
  <2>1. Agrees(h, b) /\ \A k \in 1..Len(b) : b[k].term <= t
      BY <1>1, <1>12 DEF LogsGood
  <2>2. Settled(h, n.log, n.committed, t)
      BY <1>1, <1>12, SettledContinues DEF LogGood
  <2>3. Same(n.log, b, n.committed)
      BY <1>1, <1>3, SameFacts
  <2>4. Settled(h, b, n.committed, t)
      BY <1>1, <1>3, <1>12, <2>2, <2>3, SettledSame
  <2> QED BY <1>11, <2>1, <2>4 DEF LogGood
<1>14. AckGood(h, r)
  <2> SUFFICES ASSUME NEW u \in Nat, NEW k \in Nat, 1 <= k, k <= h.acked[i][u]
               PROVE  u <= t /\ (Same(h.log[u], b, k) \/ Lacks(h, u, k, t))
      BY <1>11 DEF AckGood
  <2>1. CASE u = t
      BY <1>1, <1>3, <1>12, <2>1, SMTT(30) DEF Same
  <2>2. CASE u # t
    <3>1. k <= g.acked[i][u]
        BY <2>2
    <3>2. u <= t /\ (Same(h.log[u], n.log, k) \/ Lacks(h, u, k, t))
        BY <1>12, <3>1, AckContinues
    <3>3. Same(h.log[u], n.log, k) => Same(h.log[u], b, k)
      <4> HAVE Same(h.log[u], n.log, k)
      <4>1. k <= Len(n.log) /\ h.log[u] \in Seq(EntryType)
          BY <1>12, HistoryFields DEF Same
      <4>2. Same(n.log, b, k)
          BY <1>1, <1>3, <4>1, SameFacts
      <4> QED BY <1>1, <1>3, <4>1, <4>2, SameFacts
    <3> QED BY <3>2, <3>3
  <2> QED BY <2>1, <2>2
<1>15. VoteGood(h, r)
    BY <1>11 DEF VoteGood
<1>16. LeadGood(h, r)
    BY <1>9, <1>11, <1>12 DEF LeadGood
<1>17. OutGood(h, r)
    BY <1>11 DEF OutGood
<1>18. NodeGood(h, r)
    BY <1>11, <1>13, <1>14, <1>15, <1>16, <1>17 DEF NodeGood
<1>19. Keeps(h, r, maybe_commit(r))
    BY <1>10, <1>11, <1>18, MaybeCommitGood
<1> QED BY <1>7, <1>11, <1>19 DEF Keeps, b, e

(* The record of a Raft object that has just become the leader, before it  *)
(* appends its first entry.                                                *)
NewLeader(n) == [reset(n, n.term) EXCEPT !.lead = n.id, !.state = "Leader",
                                         !.prs[n.id] = become_replicate(@)]

LEMMA NewLeaderFields ==
    ASSUME NEW n, NodeOK(n)
    PROVE  LET r == NewLeader(n)
           IN  /\ NodeOK(r) /\ r.id = n.id /\ r.term = n.term /\ r.vote = n.vote
               /\ r.log = n.log /\ r.committed = n.committed /\ r.lead = n.id
               /\ r.state = "Leader" /\ r.msgs = n.msgs /\ r.fatal = n.fatal
               /\ r.prs[n.id].match = Len(n.log)
               /\ \A j \in Server : /\ j # n.id => r.prs[j].match = 0
                                    /\ r.prs[j].next = Len(n.log) + 1
<1> DEFINE q == reset(n, n.term)
           old == [j \in Server |-> NewProgress(IF j = n.id THEN last_index(n) ELSE 0,
                                                last_index(n) + 1)]
           own == become_replicate(q.prs[n.id])
           f == [q.prs EXCEPT ![n.id] = own]
           l == WithLead(q, n.id, "Leader")
           r == [l EXCEPT !.prs = f]
<1>1. n.id \in Server /\ n.id \in Id /\ n.term \in Nat /\ last_index(n) = Len(n.log) /\ Len(n.log) \in Nat
    BY NodeFields DEF Id, last_index
<1>2. /\ NodeOK(q) /\ q.id = n.id /\ q.msgs = n.msgs /\ q.term = n.term /\ q.vote = n.vote
      /\ q.log = n.log /\ q.fatal = n.fatal
    BY <1>1, ResetNode
<1>3. q.committed = n.committed /\ q.prs = old
    BY DEF reset, NodeOK, NodeType
<1> HIDE DEF q
<1>4. \A j \in Server : /\ old[j].match = (IF j = n.id THEN Len(n.log) ELSE 0)
                        /\ old[j].next = Len(n.log) + 1
    BY <1>1 DEF NewProgress
<1>5. q.prs \in [Server -> ProgressType]
    BY <1>2, NodeFields
<1>6. own \in ProgressType /\ own.match = Len(n.log) /\ own.next = Len(n.log) + 1
  <2>1. q.prs[n.id] \in ProgressType /\ q.prs[n.id].match = Len(n.log)
      BY <1>1, <1>3, <1>4, <1>5
  <2> QED BY <1>1, <2>1, ProgressTypes, ProgressMoves
<1> HIDE DEF own, old
<1>7. f \in [Server -> ProgressType]
    BY <1>1, <1>5, <1>6
<1>8. /\ f[n.id].match = Len(n.log)
      /\ \A j \in Server : /\ j # n.id => f[j].match = 0
                           /\ f[j].next = Len(n.log) + 1
  <2>1. f[n.id] = own
      BY <1>1, <1>5
  <2>2. \A j \in Server : j # n.id => f[j] = old[j]
      BY <1>3, <1>5
  <2> HIDE DEF f
  <2> QED BY <1>4, <1>6, <2>1, <2>2
<1>9. /\ NodeOK(l) /\ l.id = n.id /\ l.term = n.term /\ l.vote = n.vote
      /\ l.state = "Leader" /\ l.msgs = n.msgs
    BY <1>1, <1>2, RoleNode
<1>10. /\ l.log = n.log /\ l.committed = n.committed /\ l.lead = n.id /\ l.fatal = n.fatal
    BY <1>2, <1>3 DEF WithLead, NodeOK, NodeType
<1>11. NewLeader(n) = r
    BY <1>2 DEF NewLeader, NodeOK, NodeType, WithLead, q, own
<1> HIDE DEF l, f
<1>12. NodeOK(r)
    BY <1>7, <1>9, PrsQuiet DEF Quiet
<1>13. /\ r.id = l.id /\ r.term = l.term /\ r.vote = l.vote
       /\ r.log = l.log /\ r.committed = l.committed /\ r.lead = l.lead
       /\ r.state = l.state /\ r.msgs = l.msgs /\ r.fatal = l.fatal /\ r.prs = f
    BY <1>9 DEF NodeOK, NodeType
<1> HIDE DEF r
<1> QED BY <1>8, <1>9, <1>10, <1>11, <1>12, <1>13

LEMMA GrantedQuorum ==
    ASSUME NEW n, NodeOK(n), Count(n, "granted") = quorum
    PROVE  Quorum({j \in Server : n.votes[j] = "granted"})
BY QuorumType DEF Count, Quorum

(* A candidate that a quorum voted for becomes the leader of its term.     *)
LEMMA WinGood ==
    ASSUME NEW g, HistoryGood(g), NEW n, NodeOK(n), NodeGood(g, n), n.msgs = {},
           n.state = "Candidate", Count(n, "granted") = quorum
    PROVE  LET r == become_leader(n)
           IN  \E h : /\ HistoryGood(h) /\ Continues(g, h, n.id)
                      /\ NodeOK(r) /\ NodeGood(h, r) /\ r.id = n.id
                      /\ r.state = "Leader"
<1> DEFINE i == n.id
           t == n.term
           Q == {j \in Server : n.votes[j] = "granted"}
           e == Entry(t, "noop")
           l == NewLeader(n)
           r == become_leader(n)
<1>1. /\ i \in Server /\ t \in Nat /\ n.log \in Seq(EntryType) /\ Len(n.log) \in Nat
      /\ g \in HistoryType /\ Nil \notin Server /\ i # Nil
    BY NodeFields, ServerAssumption DEF HistoryGood
<1>2. /\ g.vote[i][t] = i /\ n.vote = i /\ t >= 2 /\ g.winner[t] # i /\ g.stood[i][t] = n.log
      /\ \A u \in Nat : u > t => g.vote[i][u] = Nil
      /\ \A j \in Q : g.vote[j][t] = i
    BY DEF NodeGood, VoteGood
<1>3. Quorum(Q)
    BY GrantedQuorum
<1> HIDE DEF Q
<1>4. g.winner[t] = Nil
  <2> SUFFICES ASSUME g.winner[t] # Nil PROVE FALSE
      OBVIOUS
  <2>1. PICK P : Quorum(P) /\ Elects(g, t, P)
      BY <1>1 DEF HistoryGood, WinnersGood
  <2>2. PICK q \in Server : q \in P /\ q \in Q
      BY <1>3, <2>1, QuorumsMeet
  <2> QED BY <1>2, <2>1, <2>2 DEF Elects
<1>5. \A q \in Q : g.vote[q][t] = i /\ Covered(g, q, t, n.log)
  <2> TAKE q \in Q
  <2>1. q \in Server
      BY <1>3 DEF Quorum
  <2> QED BY <1>1, <1>2, <1>4, <2>1 DEF HistoryGood, VotersGood
<1>6. e \in EntryType /\ e.term = t
    BY <1>1 DEF Entry, EntryType, Payload
<1>7. Agrees(g, n.log) /\ \A k \in 1..Len(n.log) : n.log[k].term <= t
    BY DEF NodeGood, LogGood
<1> HIDE DEF i, t, e
<1>7a. \E h : /\ HistoryGood(h) /\ Continues(g, h, i)
               /\ h.vote = g.vote /\ h.stood = g.stood
               /\ h.log[t] = Append(n.log, e) /\ h.winner[t] = i
               /\ h.acked[i][t] = Len(n.log) + 1
               /\ \A u \in Nat : u # t =>
                     /\ h.acked[i][u] = g.acked[i][u]
                     /\ h.log[u] = g.log[u] /\ h.winner[u] = g.winner[u]
  <2>1. /\ i \in Server /\ t \in Nat /\ t >= 2 /\ n.log \in Seq(EntryType) /\ e \in EntryType
        /\ e.term = t
      BY <1>1, <1>2, <1>6
  <2>2. g.winner[t] = Nil \/ (g.winner[t] = i /\ n.log = g.log[t])
      BY <1>4
  <2>3. g.vote[i][t] = i /\ \A u \in Nat : u > t => g.vote[i][u] = Nil
      BY <1>2
  <2> QED BY <1>3, <1>5, <1>7, <2>1, <2>2, <2>3, Lead, SMTT(60)
<1>8. PICK h : /\ HistoryGood(h) /\ Continues(g, h, i)
               /\ h.vote = g.vote /\ h.stood = g.stood
               /\ h.log[t] = Append(n.log, e) /\ h.winner[t] = i
               /\ h.acked[i][t] = Len(n.log) + 1
               /\ \A u \in Nat : u # t =>
                     /\ h.acked[i][u] = g.acked[i][u]
                     /\ h.log[u] = g.log[u] /\ h.winner[u] = g.winner[u]
    BY <1>7a
<1>9. /\ NodeOK(l) /\ l.id = i /\ l.term = t /\ l.vote = i
      /\ l.log = n.log /\ l.committed = n.committed /\ l.lead = i
      /\ l.state = "Leader" /\ l.msgs = {} /\ l.fatal = n.fatal
      /\ l.prs[i].match = Len(n.log)
      /\ \A j \in Server : /\ j # i => l.prs[j].match = 0
                           /\ l.prs[j].next = Len(n.log) + 1
    BY <1>2, NewLeaderFields DEF i, t
<1> HIDE DEF l
<1>10. r = append_entry(l, "noop")
    BY DEF become_leader, NewLeader, l
<1>11. ~l.fatal /\ LogGood(g, l) /\ AckGood(g, l)
  <2>1. l.term >= n.term
      BY <1>1, <1>9 DEF t
  <2>2. LogGood(g, l) /\ AckGood(g, l)
      BY <1>9, <2>1, LaterGood DEF i
  <2> QED BY <1>9, <2>2 DEF NodeGood
<1>12. \A j \in Server : /\ j # l.id => l.prs[j].match <= g.acked[j][l.term]
                         /\ l.prs[j].next <= Len(l.log) + 1
  <2> TAKE j \in Server
  <2>1. g.acked[j][t] \in Nat
      BY <1>1, HistoryFields
  <2> QED BY <1>1, <1>9, <2>1
<1>13. NodeOK(r) /\ NodeGood(h, r) /\ r.id = l.id /\ r.state = "Leader"
  <2>1. "noop" \in Payload /\ l.prs[l.id].match <= Len(l.log)
      BY <1>1, <1>9 DEF Payload
  <2>2. h.log[l.term] = Append(l.log, Entry(l.term, "noop"))
      BY <1>8, <1>9 DEF e
  <2>3. /\ Continues(g, h, l.id) /\ l.lead \in {Nil, l.id} /\ l.term >= 2
        /\ g.vote[l.id][l.term] = l.vote /\ \A u \in Nat : u > l.term => g.vote[l.id][u] = Nil
      BY <1>2, <1>8, <1>9
  <2>4. /\ h.vote = g.vote /\ h.winner[l.term] = l.id /\ h.acked[l.id][l.term] = Len(l.log) + 1
        /\ \A u \in Nat : u # l.term => h.acked[l.id][u] = g.acked[l.id][u]
      BY <1>8, <1>9
  <2>5. NodeOK(l) /\ l.msgs = {} /\ l.state = "Leader" /\ HistoryGood(h)
      BY <1>8, <1>9
  <2> DEFINE x == append_entry(l, "noop")
  <2>6. /\ NodeOK(x) /\ NodeGood(h, x) /\ x.id = l.id /\ x.term = l.term /\ x.state = "Leader"
        /\ x.log = Append(l.log, Entry(l.term, "noop"))
      BY <1>11, <1>12, <2>1, <2>2, <2>3, <2>4, <2>5, AppendEntryGood, SMTT(90)
  <2> QED BY <1>10, <2>6
<1> QED BY <1>8, <1>9, <1>13 DEF i

LEMMA CampaignGood ==
    ASSUME NEW g, HistoryGood(g), NEW n, NodeOK(n), NodeGood(g, n), n.msgs = {},
           n.state # "Leader"
    PROVE  Result(g, n.id, campaign_election(n))
<1> DEFINE i == n.id
           c == poll(become_candidate(n), n.id, TRUE)
<1>1. i \in Server
    BY NodeFields
<1>2. PICK h : /\ HistoryGood(h) /\ Continues(g, h, i)
               /\ NodeOK(c) /\ NodeGood(h, c) /\ c.id = i /\ c.msgs = {}
               /\ c.state = "Candidate"
    BY StandsGood
<1>3. campaign_election(n) = IF Count(c, "granted") = quorum THEN become_leader(c)
                             ELSE send(c, VoteRequests(c, "MsgVote", c.term))
    BY DEF campaign_election
<1> HIDE DEF c
<1>4. CASE Count(c, "granted") = quorum
  <2> DEFINE r == become_leader(c)
  <2>1. \E f : /\ HistoryGood(f) /\ Continues(h, f, c.id)
               /\ NodeOK(r) /\ NodeGood(f, r) /\ r.id = c.id /\ r.state = "Leader"
      BY <1>2, <1>4, WinGood
  <2> HIDE DEF r
  <2>2. Result(h, i, r)
      BY <1>2, <2>1 DEF Result
  <2>3. Result(g, i, r)
      BY <1>1, <1>2, <2>2, LaterResult
  <2> QED BY <1>3, <1>4, <2>3 DEF r
<1>5. CASE ~(Count(c, "granted") = quorum)
  <2> DEFINE r == send(c, VoteRequests(c, "MsgVote", c.term))
  <2>1. Keeps(h, c, r)
      BY <1>2, VoteRequestsGood
  <2> HIDE DEF r
  <2>2. Result(h, i, r)
      BY <1>2, <2>1, KeptResult
  <2>3. Result(g, i, r)
      BY <1>1, <1>2, <2>2, LaterResult
  <2> QED BY <1>3, <1>5, <2>3 DEF r
<1> QED BY <1>4, <1>5

LEMMA VoteRespGood ==
    ASSUME NEW g, HistoryGood(g), NEW n, NodeOK(n), NodeGood(g, n), n.msgs = {},
           n.state = "Candidate", NEW m \in MessageType, MsgGood(g, m), m.to = n.id,
           m.term = n.term, m.type = "MsgVoteResp"
    PROVE  Result(g, n.id, handle_vote_resp(n, m))
<1> DEFINE i == n.id
           c == poll(n, m.from, ~m.reject)
<1>1. i \in Server /\ m.from \in Server /\ n.term \in Nat /\ Nil \notin Server
    BY NodeFields, MessageFields, ServerAssumption
<1>2. ~m.reject => g.vote[m.from][n.term] = i
    BY DEF MsgGood
<1>3. /\ NodeOK(c) /\ c.id = i /\ c.msgs = {} /\ c.state = "Candidate"
      /\ c.term = n.term /\ c.vote = n.vote
      /\ \A k \in Server : c.votes[k] = "granted" =>
            n.votes[k] = "granted" \/ (k = m.from /\ ~m.reject)
  <2> DEFINE granted == ~m.reject
  <2>1. granted \in BOOLEAN /\ m.from \in Server
      BY <1>1
  <2> HIDE DEF granted
  <2>2. /\ NodeOK(poll(n, m.from, granted)) /\ poll(n, m.from, granted).id = n.id
        /\ poll(n, m.from, granted).msgs = n.msgs
        /\ poll(n, m.from, granted).state = n.state
        /\ poll(n, m.from, granted).term = n.term /\ poll(n, m.from, granted).vote = n.vote
        /\ \A k \in Server : poll(n, m.from, granted).votes[k] = "granted" =>
              n.votes[k] = "granted" \/ (k = m.from /\ granted)
      BY <2>1, PollNode
  <2> QED BY <2>2, Zenon DEF granted
<1>4. c.log = n.log /\ c.committed = n.committed /\ c.lead = n.lead /\ c.fatal = n.fatal
    BY DEF poll, NodeOK, NodeType
<1>5. handle_vote_resp(n, m) =
         IF Count(c, "granted") = quorum
         THEN bcast_append(become_leader(c))
         ELSE IF Count(c, "rejected") = quorum THEN become_follower(c, c.term, Nil)
         ELSE c
    BY <1>3 DEF handle_vote_resp
<1> HIDE DEF c
<1>6. NodeGood(g, c)
  <2>1. LogGood(g, c) /\ AckGood(g, c)
      BY <1>3, <1>4, Zenon DEF NodeGood, LogGood, AckGood
  <2>2. \A k \in Server : n.votes[k] = "granted" => g.vote[k][n.term] = i
      BY DEF NodeGood, VoteGood
  <2>3. \A k \in Server : c.votes[k] = "granted" => g.vote[k][n.term] = i
      BY <1>2, <1>3, <2>2
  <2>4. VoteGood(g, c)
      BY <1>3, <1>4, <2>3 DEF NodeGood, VoteGood
  <2>5. LeadGood(g, c) /\ OutGood(g, c)
      BY <1>3, <1>4 DEF NodeGood, LeadGood, OutGood
  <2> QED BY <1>4, <2>1, <2>4, <2>5 DEF NodeGood
<1>7. CASE Count(c, "granted") = quorum
  <2> DEFINE r == become_leader(c)
  <2>1. \E h : /\ HistoryGood(h) /\ Continues(g, h, c.id)
               /\ NodeOK(r) /\ NodeGood(h, r) /\ r.id = c.id /\ r.state = "Leader"
      BY <1>3, <1>6, <1>7, WinGood
  <2> HIDE DEF r
  <2>2. PICK h : /\ HistoryGood(h) /\ Continues(g, h, i)
                 /\ NodeOK(r) /\ NodeGood(h, r) /\ r.id = i /\ r.state = "Leader"
      BY <1>3, <2>1
  <2>3. Keeps(h, r, bcast_append(r))
    <3>1. Peers(r) \in SUBSET (Server \ {r.id})
        BY DEF Peers
    <3> QED BY <2>2, <3>1, SendAppendGood DEF bcast_append
  <2>4. Result(h, i, bcast_append(r))
      BY <2>2, <2>3, KeptResult
  <2>5. Result(g, i, bcast_append(r))
      BY <1>1, <2>2, <2>4, LaterResult
  <2> QED BY <1>5, <1>7, <2>5 DEF r
<1>8. CASE ~(Count(c, "granted") = quorum) /\ Count(c, "rejected") = quorum
  <2> DEFINE r == become_follower(c, c.term, Nil)
  <2>1. Nil \in Id /\ Nil # c.id /\ c.term \in Nat /\ c.term >= c.term
      BY <1>1, <1>3 DEF Id
  <2>2. NodeOK(r) /\ NodeGood(g, r) /\ r.id = c.id
      BY <1>3, <1>6, <2>1, FollowerGood
  <2> HIDE DEF r
  <2>3. Result(g, i, r)
      BY <1>3, <2>2, SameResult
  <2> QED BY <1>5, <1>8, <2>3 DEF r
<1>9. CASE ~(Count(c, "granted") = quorum) /\ ~(Count(c, "rejected") = quorum)
    BY <1>3, <1>5, <1>6, <1>9, SameResult
<1> QED BY <1>7, <1>8, <1>9

LEMMA ProposeGood ==
    ASSUME NEW g, HistoryGood(g), NEW n, NodeOK(n), NodeGood(g, n), n.msgs = {},
           n.state = "Leader", NEW v \in Payload
    PROVE  Result(g, n.id, propose(n, v))
<1> DEFINE i == n.id
           t == n.term
           e == Entry(t, v)
           r == append_entry(n, v)
<1>1. /\ i \in Server /\ t \in Nat /\ n.log \in Seq(EntryType) /\ Len(n.log) \in Nat
      /\ g \in HistoryType /\ Nil \notin Server /\ i # Nil
    BY NodeFields, ServerAssumption DEF HistoryGood
<1>2. /\ g.winner[t] = i /\ g.log[t] = n.log
      /\ \A j \in Server : /\ n.prs[j].match <= g.acked[j][t] /\ n.prs[j].next <= Len(n.log) + 1
                           /\ g.acked[j][t] <= Len(n.log)
                           /\ n.prs[j].match \in Nat /\ g.acked[j][t] \in Nat
    BY LeaderFacts
<1>3. t >= 2 /\ g.vote[i][t] = i
    BY <1>1, <1>2 DEF HistoryGood, WinnersGood
<1>4. PICK Q : Quorum(Q) /\ Elects(g, t, Q)
    BY <1>1, <1>2 DEF HistoryGood, WinnersGood
<1>5. \A q \in Q : g.vote[q][t] = i /\ Covered(g, q, t, n.log)
    BY <1>2, <1>4 DEF Elects
<1>6. /\ g.vote[i][t] = n.vote /\ \A u \in Nat : u > t => g.vote[i][u] = Nil
      /\ Agrees(g, n.log) /\ \A k \in 1..Len(n.log) : n.log[k].term <= t
    BY DEF NodeGood, VoteGood, LogGood
<1>7. e \in EntryType /\ e.term = t
    BY <1>1 DEF Entry, EntryType
<1> HIDE DEF i, t, e
<1>8. \E h : /\ HistoryGood(h) /\ Continues(g, h, i)
             /\ h.vote = g.vote /\ h.stood = g.stood
             /\ h.log[t] = Append(n.log, e) /\ h.winner[t] = i
             /\ h.acked[i][t] = Len(n.log) + 1
             /\ \A u \in Nat : u # t =>
                   /\ h.acked[i][u] = g.acked[i][u]
                   /\ h.log[u] = g.log[u] /\ h.winner[u] = g.winner[u]
  <2>1. /\ i \in Server /\ t \in Nat /\ t >= 2 /\ n.log \in Seq(EntryType) /\ e \in EntryType
        /\ e.term = t
      BY <1>1, <1>3, <1>7
  <2>2. g.winner[t] = Nil \/ (g.winner[t] = i /\ n.log = g.log[t])
      BY <1>2
  <2>3. g.vote[i][t] = i /\ \A u \in Nat : u > t => g.vote[i][u] = Nil
      BY <1>3, <1>6
  <2>4. Quorum(Q)
      BY <1>4
  <2>5. Agrees(g, n.log) /\ \A k \in 1..Len(n.log) : n.log[k].term <= t
      BY <1>6
  <2> QED BY <1>5, <2>1, <2>2, <2>3, <2>4, <2>5, Lead, SMTT(60)
<1>9. PICK h : /\ HistoryGood(h) /\ Continues(g, h, i)
               /\ h.vote = g.vote
               /\ h.log[t] = Append(n.log, e) /\ h.winner[t] = i
               /\ h.acked[i][t] = Len(n.log) + 1
               /\ \A u \in Nat : u # t => h.acked[i][u] = g.acked[i][u]
    BY <1>8
<1>10. NodeOK(r) /\ NodeGood(h, r) /\ r.id = i /\ r.state = "Leader"
  <2>1. ~n.fatal /\ LogGood(g, n) /\ AckGood(g, n) /\ n.lead \in {Nil, n.id}
      BY <1>2 DEF NodeGood, LeadGood, i, t
  <2>2. /\ \A j \in Server : /\ j # n.id => n.prs[j].match <= g.acked[j][n.term]
                             /\ n.prs[j].next <= Len(n.log) + 1
        /\ n.prs[n.id].match <= Len(n.log)
      BY <1>1, <1>2 DEF i, t
  <2>3. /\ Continues(g, h, n.id) /\ n.term >= 2
        /\ g.vote[n.id][n.term] = n.vote /\ \A u \in Nat : u > n.term => g.vote[n.id][u] = Nil
      BY <1>3, <1>6, <1>9 DEF i, t
  <2>4. /\ h.vote = g.vote /\ h.winner[n.term] = n.id /\ h.acked[n.id][n.term] = Len(n.log) + 1
        /\ \A u \in Nat : u # n.term => h.acked[n.id][u] = g.acked[n.id][u]
        /\ h.log[n.term] = Append(n.log, Entry(n.term, v)) /\ HistoryGood(h)
      BY <1>9 DEF i, t, e
  <2>5. /\ NodeOK(r) /\ NodeGood(h, r) /\ r.id = n.id /\ r.term = n.term /\ r.state = "Leader"
        /\ r.log = Append(n.log, Entry(n.term, v))
      BY <2>1, <2>2, <2>3, <2>4, AppendEntryGood, SMTT(30)
  <2> HIDE DEF r
  <2> QED BY <2>5 DEF i
<1> HIDE DEF r
<1>11. Keeps(h, r, bcast_append(r))
  <2>1. Peers(r) \in SUBSET (Server \ {r.id})
      BY DEF Peers
  <2> QED BY <1>9, <1>10, <2>1, SendAppendGood DEF bcast_append
<1>12. Result(h, i, bcast_append(r))
    BY <1>9, <1>10, <1>11, KeptResult
<1>13. Result(g, i, bcast_append(r))
    BY <1>1, <1>9, <1>12, LaterResult
<1> QED BY <1>13 DEF propose, r, i

(* The answer that a granted vote sends, once h records the vote.          *)
LEMMA GrantGood ==
    ASSUME NEW h, NEW n, NodeOK(n), ~n.fatal, LogGood(h, n), AckGood(h, n), LeadGood(h, n),
           n.msgs = {}, n.state # "PreCandidate", n.state = "Candidate" => VoteGood(h, n),
           NEW m \in MessageType, m.from # m.to, m.to = n.id, m.term = n.term,
           m.type = "MsgVote", h.vote[n.id][n.term] = m.from,
           \A u \in Nat : u > n.term => h.vote[n.id][u] = Nil
    PROVE  LET r == grant_vote(n, m)
           IN  NodeOK(r) /\ NodeGood(h, r) /\ r.id = n.id
<1> DEFINE b == Reply(m, "MsgVoteResp")
           d == [b EXCEPT !.term = m.term]
           s == send(n, {d})
           x == Stamp(n, d)
           r == [s EXCEPT !.lapsed = FALSE, !.vote = m.from]
<1>1. n.term \in Nat /\ m.from \in Server /\ n.id \in Server /\ m.from \in Id /\ m.term \in Nat
    BY NodeFields, MessageFields DEF Id
<1>2. n.term >= 1
    BY DEF LogGood
<1>3. grant_vote(n, m) = r
    BY DEF grant_vote, vote_resp_msg_type
<1>4. b \in Draft /\ b.type = "MsgVoteResp" /\ b.to = m.from
    BY <1>1, MessageDraft DEF MsgTypes, VoteTypes, Reply
<1> HIDE DEF b
<1>5. d \in Draft
    BY <1>1, <1>4, Zenon DEF Draft
<1>6. d.type = "MsgVoteResp" /\ d.to = m.from /\ d.term = n.term
    BY <1>4 DEF Draft
<1> HIDE DEF d
<1>7. /\ x.type = "MsgVoteResp" /\ x.to = m.from /\ x.from = n.id /\ x.term = n.term
    BY <1>5, <1>6, StampFields DEF VoteTypes
<1>8. s = [n EXCEPT !.msgs = @ \cup {x}]
  <2>1. \A y \in {d} : (y.type \in VoteTypes) <=> (y.term # 0)
      BY <1>1, <1>2, <1>6 DEF VoteTypes
  <2>2. {Stamp(n, y) : y \in {d}} = {x}
      OBVIOUS
  <2> HIDE DEF x
  <2> QED BY <2>1, <2>2 DEF send, Stamp
<1>9. NodeOK(s)
  <2>1. {d} \in SUBSET Draft /\ \A y \in {d} : y.type = "MsgProp" => Len(y.entries) = 1
      BY <1>5, <1>6
  <2> QED BY <2>1, SendAny
<1> HIDE DEF x
<1>10. /\ s.id = n.id /\ s.term = n.term /\ s.vote = n.vote /\ s.state = n.state
       /\ s.votes = n.votes /\ s.log = n.log /\ s.committed = n.committed /\ s.lead = n.lead
       /\ s.prs = n.prs /\ s.msgs = {x} /\ s.fatal = n.fatal
    BY <1>8 DEF NodeOK, NodeType
<1> HIDE DEF s
<1>11. NodeOK(r)
  <2>1. r \in NodeType
      BY <1>1, <1>9, Zenon DEF NodeOK, NodeType
  <2>2. r.committed = s.committed /\ r.log = s.log /\ r.msgs = s.msgs /\ r.id = s.id
      BY <1>9 DEF NodeOK, NodeType
  <2> HIDE DEF r
  <2> QED BY <1>9, <2>1, <2>2, Zenon DEF NodeOK
<1>12. /\ r.id = n.id /\ r.term = n.term /\ r.vote = m.from /\ r.state = n.state
       /\ r.votes = n.votes /\ r.log = n.log /\ r.committed = n.committed /\ r.lead = n.lead
       /\ r.prs = n.prs /\ r.msgs = {x} /\ r.fatal = n.fatal
  <2>1. /\ r.id = s.id /\ r.term = s.term /\ r.vote = m.from /\ r.state = s.state
        /\ r.votes = s.votes /\ r.log = s.log /\ r.committed = s.committed /\ r.lead = s.lead
        /\ r.prs = s.prs /\ r.msgs = s.msgs /\ r.fatal = s.fatal
      BY <1>9 DEF NodeOK, NodeType
  <2> HIDE DEF r
  <2> QED BY <1>10, <2>1
<1> HIDE DEF r
<1>13. LogGood(h, r) /\ AckGood(h, r)
    BY <1>12, Zenon DEF LogGood, AckGood
<1>14. VoteGood(h, r)
  <2>1. n.state = "Candidate" => m.from = n.id
      BY DEF VoteGood
  <2> QED BY <1>12, <2>1 DEF VoteGood
<1>15. LeadGood(h, r)
    BY <1>12, Zenon DEF LeadGood
<1>16. OutGood(h, r)
  <2>1. Outgoing(h, r, x)
      BY <1>2, <1>7 DEF Outgoing, MsgGood
  <2> QED BY <1>12, <2>1 DEF OutGood
<1>17. NodeGood(h, r)
    BY <1>12, <1>13, <1>14, <1>15, <1>16 DEF NodeGood
<1> QED BY <1>3, <1>11, <1>12, <1>17

LEMMA HandleVoteGood ==
    ASSUME NEW g, HistoryGood(g), NEW n, NodeOK(n), NodeGood(g, n), n.msgs = {},
           NEW m \in MessageType, MsgGood(g, m), m.to = n.id, m.term = n.term,
           m.type = "MsgVote"
    PROVE  Result(g, n.id, handle_vote(n, m))
<1> DEFINE i == n.id
           t == n.term
           c == m.from
           b == g.stood[c][t]
           r == grant_vote(n, m)
<1>1. /\ i \in Server /\ c \in Server /\ t \in Nat /\ n.log \in Seq(EntryType) /\ Nil \notin Server
      /\ g \in HistoryType /\ m.index \in Nat /\ m.log_term \in Nat
    BY NodeFields, MessageFields, ServerAssumption DEF HistoryGood
<1>2. c # i /\ g.vote[c][t] = c /\ m.index = Len(b) /\ m.log_term = LastTerm(b)
    BY DEF MsgGood
<1>3. /\ LogGood(g, n) /\ AckGood(g, n) /\ VoteGood(g, n) /\ LeadGood(g, n)
      /\ ~n.fatal /\ n.state # "PreCandidate"
      /\ g.vote[i][t] = n.vote /\ \A u \in Nat : u > t => g.vote[i][u] = Nil
    BY DEF NodeGood, VoteGood
<1>4. CASE ~(can_vote(n, m) /\ is_up_to_date(n, m.index, m.log_term))
  <2>1. handle_vote(n, m) = reject_vote(n, m)
      BY <1>4 DEF handle_vote
  <2>2. Keeps(g, n, reject_vote(n, m))
      BY RejectVoteGood
  <2> QED BY <2>1, <2>2, KeptResult
<1>5. CASE can_vote(n, m) /\ is_up_to_date(n, m.index, m.log_term)
  <2>1. handle_vote(n, m) = r
      BY <1>5 DEF handle_vote
  <2>2. n.vote = c \/ n.vote = Nil
      BY <1>5 DEF can_vote
  <2>3. CASE n.vote = c
    <3>1. NodeOK(r) /\ NodeGood(g, r) /\ r.id = i
        BY <1>1, <1>2, <1>3, <2>3, GrantGood
    <3> HIDE DEF r
    <3> QED BY <2>1, <3>1, SameResult
  <2>4. CASE n.vote = Nil
    <3>1. b \in Seq(EntryType) /\ Agrees(g, b) /\ \A k \in 1..Len(b) : b[k].term < t
        BY <1>1, <1>2, HistoryFields DEF HistoryGood, StoodGood
    <3>2. LastTerm(b) > LastTerm(n.log) \/ (LastTerm(b) = LastTerm(n.log) /\ Len(b) >= Len(n.log))
      <4>1. last_index(n) = Len(n.log) /\ last_term(n) = LastTerm(n.log)
        <5>1. Len(n.log) \in DOMAIN n.log <=> Len(n.log) # 0
            BY <1>1
        <5> QED BY <5>1 DEF last_index, last_term, log_term, LastTerm
      <4> QED BY <1>2, <1>5, <4>1 DEF is_up_to_date
    <3> HIDE DEF b
    <3>3. g.winner[t] = Nil => Covered(g, i, t, b)
      <4> SUFFICES ASSUME g.winner[t] = Nil, NEW u \in Nat, NEW k \in Nat, u < t, 1 <= k,
                          k <= g.acked[i][u], g.log[u][k].term = u
                   PROVE  Same(g.log[u], b, k) \/ Lacks(g, u, k, t - 1)
          BY DEF Covered
      <4>1. Same(g.log[u], n.log, k) \/ Lacks(g, u, k, t)
          BY <1>3 DEF AckGood
      <4>2. g.log[t] = <<>> \/ t = 1
          BY <1>1 DEF HistoryGood, WinnersGood
      <4>3. g.acked[i][u] \in Nat /\ g.log[u] \in Seq(EntryType) /\ g.acked[i][u] <= Len(g.log[u])
          BY <1>1, HistoryFields DEF HistoryGood, AcksGood
      <4>4. t # 1
        <5> SUFFICES ASSUME t = 1 PROVE FALSE
            OBVIOUS
        <5>1. u = 0
            OBVIOUS
        <5>2. g.winner[0] = Nil
            BY DEF HistoryGood, WinnersGood
        <5>3. g.log[0] = <<>>
            BY <5>2 DEF HistoryGood, WinnersGood
        <5> QED BY <4>3, <5>1, <5>3
      <4>5. Lacks(g, u, k, t) => Lacks(g, u, k, t - 1)
        <5> HAVE Lacks(g, u, k, t)
        <5>1. PICK v \in Nat : u < v /\ v <= t /\ g.log[v] # <<>> /\ ~Same(g.log[u], g.log[v], k)
            BY DEF Lacks
        <5>2. v # t
            BY <4>2, <4>4, <5>1
        <5>3. v <= t - 1
            BY <1>1, <5>1, <5>2
        <5> QED BY <5>1, <5>3 DEF Lacks
      <4>6. CASE Same(g.log[u], n.log, k)
        <5>1. t - 1 \in Nat /\ k <= Len(g.log[u])
            BY <1>1, <4>3, SMTT(30)
        <5>2. \A x \in 1..Len(b) : b[x].term <= t - 1
          <6> TAKE x \in 1..Len(b)
          <6>1. b[x].term \in Nat
              BY <3>1, EntryTerm
          <6> QED BY <1>1, <3>1, <6>1
        <5>3. Agrees(g, n.log)
            BY <1>3 DEF LogGood
        <5> HIDE DEF t
        <5> QED BY <1>1, <3>1, <3>2, <4>6, <5>1, <5>2, <5>3, UpToDateHolds
      <4> QED BY <4>1, <4>5, <4>6
    <3>4. \E h : /\ HistoryGood(h) /\ Continues(g, h, i)
                 /\ h.log = g.log /\ h.acked = g.acked /\ h.winner = g.winner
                 /\ h.vote[i][t] = c
                 /\ \A u \in Nat : u # t => h.vote[i][u] = g.vote[i][u]
      <4>1. g.vote[i][t] = Nil
          BY <1>3, <2>4
      <4>2. b = g.stood[c][t]
          BY DEF b
      <4> HIDE DEF i, t, c
      <4> QED BY <1>1, <1>2, <3>1, <3>3, <4>1, <4>2, CastVote, SMTT(60)
    <3>5. PICK h : /\ HistoryGood(h) /\ Continues(g, h, i)
                   /\ h.log = g.log /\ h.acked = g.acked /\ h.winner = g.winner
                   /\ h.vote[i][t] = c
                   /\ \A u \in Nat : u # t => h.vote[i][u] = g.vote[i][u]
        BY <3>4
    <3>6. LogGood(h, n) /\ AckGood(h, n)
        BY <1>3, <3>5, SameLogsGood
    <3>7. LeadGood(h, n)
        BY <1>3, <3>5 DEF LeadGood
    <3>8. n.state # "Candidate"
        BY <1>1, <1>3, <2>4 DEF VoteGood
    <3>9. \A u \in Nat : u > t => h.vote[i][u] = Nil
      <4> TAKE u \in Nat
      <4> HAVE u > t
      <4>1. u # t
          BY <1>1
      <4> QED BY <1>3, <3>5, <4>1
    <3>10. NodeOK(r) /\ NodeGood(h, r) /\ r.id = i
        BY <1>2, <1>3, <3>5, <3>6, <3>7, <3>8, <3>9, GrantGood
    <3> HIDE DEF r
    <3> QED BY <2>1, <3>5, <3>10 DEF Result
  <2> QED BY <2>2, <2>3, <2>4
<1> QED BY <1>4, <1>5

-----------------------------------------------------------------------------
(* Replication.                                                            *)

(* An entry of the same term at the same index makes the logs agree up to  *)
(* there.                                                                  *)
LEMMA SameTermSame ==
    ASSUME NEW g, HistoryGood(g), NEW t \in Nat, NEW log \in Seq(EntryType), Agrees(g, log),
           NEW k \in Nat, k <= Len(g.log[t]), k <= Len(log), k # 0 => log[k].term = g.log[t][k].term
    PROVE  Same(g.log[t], log, k)
<1>1. \A u \in Nat : g.log[u] \in Seq(EntryType)
    BY HistoryFields DEF HistoryGood
<1>2. CASE k = 0
    BY <1>1, <1>2 DEF Same
<1>3. CASE k # 0
  <2> DEFINE w == log[k].term
  <2>1. k \in 1..Len(log) /\ k \in 1..Len(g.log[t])
      BY <1>1, <1>3
  <2>2. w \in Nat
      BY <2>1, EntryTerm
  <2>3. Same(g.log[w], log, k)
      BY <2>1 DEF Agrees
  <2>4. Agrees(g, g.log[t])
      BY DEF HistoryGood, LogsGood
  <2>5. Same(g.log[w], g.log[t], k)
      BY <1>3, <2>1, <2>4 DEF Agrees
  <2> HIDE DEF w
  <2>6. Same(g.log[t], g.log[w], k)
      BY <1>1, <2>2, <2>5, SameFacts
  <2> QED BY <1>1, <2>2, <2>3, <2>6, SameFacts
<1> QED BY <1>2, <1>3

(* The Raft object after the entries of m are appended, before the commit  *)
(* index moves.                                                            *)
Appended(n, m) ==
    LET cs == conflicts(n, m.index, m.entries)
        ci == CHOOSE k \in cs : \A l \in cs : k <= l
    IN  IF cs = {} THEN n
        ELSE append(n, m.index + ci - 1, SubSeq(m.entries, ci, Len(m.entries)))

LEMMA AppendedLog ==
    ASSUME NEW g, HistoryGood(g), NEW n, NodeOK(n), NodeGood(g, n),
           NEW m \in MessageType, MsgGood(g, m), m.term = n.term, m.type = "MsgApp",
           m.index >= n.committed, log_term(n, m.index) = m.log_term
    PROVE  LET r == Appended(n, m)
               L == g.log[n.term]
               z == m.index + Len(m.entries)
           IN  /\ NodeOK(r) /\ Same(L, r.log, z) /\ Same(n.log, r.log, n.committed)
               /\ r.log # n.log => Len(r.log) = z /\ ~Same(L, n.log, z)
               /\ r.id = n.id /\ r.term = n.term /\ r.vote = n.vote /\ r.state = n.state
               /\ r.votes = n.votes /\ r.committed = n.committed /\ r.lead = n.lead
               /\ r.prs = n.prs /\ r.msgs = n.msgs /\ r.fatal = n.fatal
<1> DEFINE t == n.term
           L == g.log[t]
           ents == m.entries
           len == Len(ents)
           z == m.index + len
           cs == conflicts(n, m.index, ents)
           ci == CHOOSE k \in cs : \A l \in cs : k <= l
           after == m.index + ci - 1
           tail == SubSeq(ents, ci, len)
           r == Appended(n, m)
<1>1. /\ t \in Nat /\ n.log \in Seq(EntryType) /\ Len(n.log) \in Nat /\ n.committed \in Nat
      /\ n.committed <= Len(n.log)
      /\ L \in Seq(EntryType) /\ Len(L) \in Nat /\ ents \in Seq(EntryType) /\ len \in Nat
      /\ m.index \in Nat /\ z \in Nat /\ g \in HistoryType
  <2>1. g \in HistoryType
      BY DEF HistoryGood
  <2>2. t \in Nat /\ n.log \in Seq(EntryType) /\ n.committed \in Nat /\ n.committed <= Len(n.log)
      BY NodeFields DEF last_index
  <2>3. ents \in Seq(EntryType) /\ m.index \in Nat
      BY MessageFields
  <2>4. L \in Seq(EntryType)
      BY <2>1, <2>2, HistoryFields
  <2> QED BY <2>1, <2>2, <2>3, <2>4
<1>2. /\ z <= Len(L)
      /\ \A x \in 1..len : ents[x] = L[m.index + x]
      /\ m.log_term = (IF m.index = 0 THEN 0 ELSE L[m.index].term)
      /\ L # <<>>
  <2>1. m.from # Nil
      BY MessageFields, ServerAssumption
  <2>2. g.winner[t] = m.from /\ AppGood(g, m)
      BY DEF MsgGood
  <2> QED BY <1>1, <2>1, <2>2 DEF AppGood, HistoryGood, WinnersGood
<1>3. \A k \in 1..Len(L) : L[k].term \in Nat /\ L[k].term >= 1
    BY <1>1, EntryTerm DEF HistoryGood, LogsGood, Agrees
<1>4. Agrees(g, n.log) /\ Same(L, n.log, n.committed)
  <2>1. Settled(g, n.log, n.committed, t)
      BY DEF NodeGood, LogGood
  <2> QED BY <1>1, <1>2, <2>1, SettledInLeader DEF NodeGood, LogGood
<1>5. DOMAIN n.log = 1..Len(n.log) /\ DOMAIN ents = 1..len
    BY <1>1
<1> HIDE DEF t, L, ents, len
<1>6. Same(L, n.log, m.index)
  <2>1. m.index # 0 => m.index \in 1..Len(n.log) /\ n.log[m.index].term = L[m.index].term
    <3> HAVE m.index # 0
    <3>1. m.index \in 1..Len(L)
        BY <1>1, <1>2
    <3> QED BY <1>2, <1>3, <1>5, <3>1 DEF log_term
  <2>2. m.index <= Len(n.log) /\ m.index <= Len(L)
      BY <1>1, <1>2, <2>1
  <2> QED BY <1>1, <1>4, <2>1, <2>2, SameTermSame DEF L
(* Where the log has no conflict up to an entry, it agrees with L.         *)
<1>7. ASSUME NEW k \in 1..len, k \notin cs
      PROVE  Same(L, n.log, m.index + k)
  <2>1. log_term(n, m.index + k) = ents[k].term
      BY <1>5, <1>7 DEF conflicts
  <2>2. m.index + k \in 1..Len(L) /\ ents[k] = L[m.index + k] /\ m.index + k \in Nat
      BY <1>1, <1>2
  <2> DEFINE y == m.index + k
  <2> HIDE DEF y
  <2>3. y \in 1..Len(n.log) /\ n.log[y].term = L[y].term
      BY <1>3, <1>5, <2>1, <2>2 DEF log_term, y
  <2>4. y \in Nat /\ y <= Len(L) /\ y <= Len(n.log)
      BY <1>1, <2>2, <2>3 DEF y
  <2>5. Same(L, n.log, y)
      BY <1>1, <1>4, <2>3, <2>4, SameTermSame DEF L
  <2> QED BY <2>5 DEF y
<1>8. \A k \in cs : k \in 1..len /\ ~Same(L, n.log, m.index + k)
  <2> SUFFICES ASSUME NEW k \in cs, Same(L, n.log, m.index + k)
               PROVE  FALSE
      BY <1>5 DEF conflicts
  <2>1. k \in 1..len /\ log_term(n, m.index + k) # ents[k].term
      BY <1>5 DEF conflicts
  <2>2. m.index + k \in 1..Len(n.log) /\ ents[k] = L[m.index + k]
      BY <1>1, <1>2, <2>1, SMTT(30) DEF Same
  <2>3. n.log[m.index + k] = L[m.index + k]
    <3> DEFINE y == m.index + k
    <3>1. y \in 1..y
        BY <1>1, <2>1
    <3>2. Same(L, n.log, y)
        OBVIOUS
    <3> HIDE DEF y
    <3>3. n.log[y] = L[y]
        BY <3>1, <3>2 DEF Same
    <3> QED BY <3>3 DEF y
  <2> QED BY <1>5, <2>1, <2>2, <2>3 DEF log_term
<1>9. CASE cs = {}
  <2>1. r = n
      BY <1>9 DEF Appended, ents
  <2>2. Same(L, n.log, z)
    <3>1. CASE len = 0
        BY <1>1, <1>6, <3>1
    <3>2. CASE len # 0
      <4>1. len \in 1..len
          BY <1>1, <3>2
      <4> QED BY <1>7, <1>9, <4>1
    <3> QED BY <3>1, <3>2
  <2>3. Same(n.log, n.log, n.committed)
      BY <1>1 DEF Same
  <2> HIDE DEF r
  <2> QED BY <2>1, <2>2, <2>3 DEF L, t, len, ents, r
<1>10. CASE cs # {}
  <2>1. ci \in cs /\ \A l \in cs : ci <= l
    <3>1. cs \in SUBSET Nat
        BY <1>1, <1>8
    <3>2. \E k \in cs : \A l \in cs : k <= l
        BY <1>10, <3>1, LeastNat
    <3> QED BY <3>2
  <2>2. r = append(n, after, tail)
      BY <1>10 DEF Appended, ents, len
  <2> HIDE DEF ci, cs
  <2>3. ci \in 1..len /\ ~Same(L, n.log, m.index + ci)
      BY <1>8, <2>1
  <2>4. after \in Nat /\ ci \in Nat /\ after + 1 = m.index + ci /\ after + 1 <= z
      BY <1>1, <2>3, SMTT(30)
  <2>5. Same(L, n.log, after)
    <3>1. CASE ci = 1
      <4>1. after = m.index
          BY <1>1, <3>1
      <4> QED BY <1>6, <4>1
    <3>2. CASE ci # 1
      <4>1. ci - 1 \in 1..len /\ ~(ci <= ci - 1) /\ m.index + (ci - 1) = after
          BY <1>1, <2>3, <3>2
      <4>2. ci - 1 \notin cs
          BY <2>1, <4>1
      <4>3. Same(L, n.log, m.index + (ci - 1))
          BY <1>7, <4>1, <4>2
      <4> QED BY <4>1, <4>3
    <3> QED BY <3>1, <3>2
  <2>6. after <= Len(n.log) /\ after <= Len(L) /\ \A x \in 1..after : L[x] = n.log[x]
      BY <2>5 DEF Same
  <2>7. n.committed <= after
    <3> SUFFICES ASSUME ~(n.committed <= after) PROVE FALSE
        OBVIOUS
    <3>1. m.index + ci <= n.committed /\ m.index + ci \in Nat
        BY <1>1, <2>4, SMTT(30)
    <3> QED BY <1>1, <1>4, <2>3, <3>1, SameFacts
  <2>8. ~Same(L, n.log, z)
    <3>1. m.index + ci <= z /\ m.index + ci \in Nat
        BY <1>1, <2>3
    <3> QED BY <1>1, <2>3, <3>1, SameFacts
  <2> DEFINE head == SubSeq(n.log, 1, after)
             log1 == head \o tail
  <2>9. r = [n EXCEPT !.log = log1]
    <3>1. ~(after < n.committed \/ after > last_index(n))
        BY <1>1, <2>4, <2>6, <2>7, SMTT(30) DEF last_index
    <3> HIDE DEF after
    <3> QED BY <2>2, <3>1 DEF append
  <2> HIDE DEF after
  <2>10. /\ head \in Seq(EntryType) /\ Len(head) = after
         /\ \A x \in 1..after : head[x] = n.log[x]
    <3>1. /\ Len(SubSeq(n.log, 1, after)) = after - 1 + 1
          /\ \A x \in 1..(after - 1 + 1) : SubSeq(n.log, 1, after)[x] = n.log[1 + x - 1]
        BY <1>1, <2>4, <2>6, SubSeqItems
    <3>2. head \in Seq(EntryType)
        BY <1>1, <2>4, <2>6, SubSeqType
    <3>3. after - 1 + 1 = after /\ \A x \in 1..after : 1 + x - 1 = x
        BY <2>4
    <3> QED BY <3>1, <3>2, <3>3
  <2>11. /\ tail \in Seq(EntryType) /\ Len(tail) = len - ci + 1
         /\ \A x \in 1..(len - ci + 1) : tail[x] = ents[ci + x - 1]
    <3>1. ci \in Nat \ {0} /\ ci <= len + 1
        BY <1>1, <2>3
    <3> QED BY <1>1, <3>1, SubSeqItems, SubSeqType DEF len
  <2> HIDE DEF head, tail
  <2>12. log1 \in Seq(EntryType) /\ Len(log1) = z
    <3>1. head \in Seq(EntryType) /\ tail \in Seq(EntryType)
        BY <2>10, <2>11
    <3>2. Len(log1) = Len(head) + Len(tail) /\ log1 \in Seq(EntryType)
        BY <3>1, ConcatProperties
    <3>3. len \in Nat /\ ci \in Nat /\ m.index \in Nat /\ after \in Nat /\ after + 1 = m.index + ci
        BY <1>1, <2>4
    <3>4. after + (len - ci + 1) = z
        BY <3>3
    <3> HIDE DEF log1, z
    <3> QED BY <2>10, <2>11, <3>2, <3>4
  <2>13. Same(L, log1, z)
    <3>1. ASSUME NEW x \in 1..z
          PROVE  L[x] = log1[x]
      <4>1. CASE x <= after
        <5>1. x \in 1..after /\ x <= Len(head)
            BY <2>4, <2>10, <4>1
        <5>2. log1[x] = head[x]
            BY <2>10, <2>11, <5>1
        <5> QED BY <2>6, <2>10, <5>1, <5>2
      <4>2. CASE ~(x <= after)
        <5> DEFINE y == x - after
        <5>1. y \in 1..(len - ci + 1) /\ ci + y - 1 \in 1..len /\ m.index + (ci + y - 1) = x
          <6>1. \A i, k, l, a, p : i \in Nat /\ l \in Nat /\ k \in Nat \ {0} /\ a \in Nat
                   /\ a + 1 = i + k /\ p \in 1..(i + l) /\ ~(p <= a)
                  => /\ p - a \in 1..(l - k + 1) /\ k + (p - a) - 1 \in 1..l
                     /\ i + (k + (p - a) - 1) = p
              OBVIOUS
          <6>2. m.index \in Nat /\ len \in Nat /\ ci \in Nat \ {0} /\ after \in Nat
                /\ after + 1 = m.index + ci
              BY <1>1, <2>3, <2>4
          <6>3. x \in 1..(m.index + len)
              OBVIOUS
          <6> QED BY <4>2, <6>1, <6>2, <6>3, SMTT(30)
        <5>2. log1[x] = tail[y]
          <6>1. \A s, u \in Seq(EntryType), j \in Nat :
                   j \in 1..Len(u) => (s \o u)[Len(s) + j] = u[j]
              OBVIOUS
          <6>2. y \in Nat /\ y \in 1..Len(tail) /\ Len(head) + y = x
              BY <2>4, <2>10, <2>11, <5>1
          <6> HIDE DEF y
          <6>3. log1[Len(head) + y] = tail[y]
              BY <2>10, <2>11, <6>1, <6>2, Zenon
          <6> QED BY <6>2, <6>3, Zenon
        <5>3. tail[y] = ents[ci + y - 1]
            BY <2>11, <5>1
        <5>4. ents[ci + y - 1] = L[m.index + (ci + y - 1)]
            BY <1>2, <5>1
        <5> QED BY <5>1, <5>2, <5>3, <5>4
      <4> QED BY <4>1, <4>2
    <3>2. z <= Len(L) /\ z <= Len(log1)
        BY <1>1, <1>2, <2>12
    <3> HIDE DEF log1, z
    <3> QED BY <3>1, <3>2 DEF Same
  <2>14. Same(n.log, log1, n.committed)
    <3>1. n.committed <= z /\ n.committed <= Len(n.log)
        BY <1>1, <2>4, <2>7
    <3>2. Same(L, log1, n.committed)
        BY <1>1, <2>12, <2>13, <3>1, SameFacts
    <3>3. Same(n.log, L, n.committed)
        BY <1>1, <1>4, SameFacts
    <3> QED BY <1>1, <2>12, <3>2, <3>3, SameFacts
  <2>15. NodeOK(r)
    <3>1. tail \in Seq(EntryType)
        BY <2>11
    <3> QED BY <2>2, <2>4, <3>1, AppendQuiet DEF Quiet
  <2> HIDE DEF log1
  <2>16. /\ r.id = n.id /\ r.term = n.term /\ r.vote = n.vote /\ r.state = n.state
         /\ r.votes = n.votes /\ r.committed = n.committed /\ r.lead = n.lead
         /\ r.prs = n.prs /\ r.msgs = n.msgs /\ r.fatal = n.fatal /\ r.log = log1
      BY <2>9 DEF NodeOK, NodeType
  <2> HIDE DEF r
  <2> QED BY <2>8, <2>12, <2>13, <2>14, <2>15, <2>16 DEF L, t, len, ents, r
<1> QED BY <1>9, <1>10

(* A follower that takes x entries of the leader's log, r, once h records  *)
(* that it acknowledged them.                                              *)
LEMMA AckedGood ==
    ASSUME NEW g, HistoryGood(g), NEW h, HistoryGood(h), NEW n, NodeOK(n), NodeGood(g, n),
           n.state = "Follower", n.msgs = {}, Continues(g, h, n.id), g.log[n.term] # <<>>,
           h.log = g.log, h.vote = g.vote, h.winner = g.winner, h.stood = g.stood, NEW x \in Nat,
           h.acked[n.id][n.term] = x \/ h.acked[n.id][n.term] = g.acked[n.id][n.term],
           \A u \in Nat : u # n.term => h.acked[n.id][u] = g.acked[n.id][u],
           NEW r, NodeOK(r), Same(g.log[n.term], r.log, x), Same(n.log, r.log, n.committed),
           r.log # n.log => Len(r.log) = x /\ ~Same(g.log[n.term], n.log, x),
           r.id = n.id, r.term = n.term, r.vote = n.vote, r.state = n.state,
           r.committed = n.committed, r.lead = n.lead, r.msgs = n.msgs, r.fatal = n.fatal
    PROVE  NodeGood(h, r)
<1> DEFINE i == n.id
           t == n.term
           L == g.log[t]
<1>1. /\ i \in Server /\ t \in Nat /\ n.log \in Seq(EntryType) /\ r.log \in Seq(EntryType)
      /\ n.committed \in Nat /\ g \in HistoryType /\ h \in HistoryType /\ L \in Seq(EntryType)
      /\ \A u \in Nat : g.log[u] \in Seq(EntryType)
    BY NodeFields, HistoryFields DEF HistoryGood
<1>2. LogGood(g, n) /\ AckGood(g, n) /\ VoteGood(g, n) /\ LeadGood(g, n) /\ ~n.fatal
    BY DEF NodeGood
<1>3. /\ \A a : Agrees(g, a) => Agrees(h, a)
      /\ \A u, k, v : Lacks(g, u, k, v) => Lacks(h, u, k, v)
    BY DEF Agrees, Lacks
<1>4. Agrees(g, r.log) /\ \A k \in 1..Len(r.log) : r.log[k].term <= t
  <2>1. CASE r.log = n.log
      BY <1>2, <2>1 DEF LogGood
  <2>2. CASE r.log # n.log
    <3>1. ASSUME NEW k \in 1..Len(r.log)
          PROVE  r.log[k].term >= 1 /\ r.log[k].term <= t /\ Same(g.log[r.log[k].term], r.log, k)
      <4> DEFINE w == L[k].term
      <4>1. k \in Nat /\ k <= x /\ k \in 1..x
          BY <1>1, <2>2
      <4>2. k \in 1..Len(L) /\ r.log[k] = L[k]
          BY <1>1, <4>1 DEF Same
      <4>3. Same(L, r.log, k)
          BY <1>1, <4>1, SameFacts
      <4>4. w >= 1 /\ w <= t /\ Same(g.log[w], L, k)
          BY <1>1, <4>2 DEF HistoryGood, LogsGood, Agrees
      <4>5. w \in Nat
          BY <1>1, <4>2, EntryTerm
      <4> HIDE DEF L
      <4>6. Same(g.log[w], r.log, k)
        <5> HIDE DEF w
        <5> QED BY <1>1, <4>1, <4>3, <4>4, <4>5, SameFacts
      <4> QED BY <4>2, <4>4, <4>6
    <3> QED BY <3>1 DEF Agrees
  <2> QED BY <2>1, <2>2
<1>5. Settled(h, r.log, r.committed, t)
  <2>1. Settled(h, n.log, n.committed, t)
      BY <1>1, <1>2, SettledContinues DEF LogGood
  <2>2. n.committed <= n.committed /\ t <= t
      BY <1>1
  <2> QED BY <1>1, <2>1, <2>2, SettledSame
<1>6. LogGood(h, r)
    BY <1>2, <1>3, <1>4, <1>5 DEF LogGood
<1>7. ASSUME NEW u \in Nat, NEW k \in Nat, 1 <= k, k <= h.acked[i][u]
      PROVE  u <= t /\ (Same(g.log[u], r.log, k) \/ Lacks(g, u, k, t))
  <2>0. Same(L, r.log, x)
      OBVIOUS
  <2>1. ASSUME k <= x
        PROVE  Same(L, r.log, k)
      BY <1>1, <2>0, <2>1, SameFacts
  <2>2. ASSUME ~(k <= x), Same(L, n.log, k)
        PROVE  r.log = n.log
    <3>1. x <= k
        BY <2>2
    <3>2. Same(L, n.log, x)
        BY <1>1, <2>2, <3>1, SameFacts
    <3> QED BY <3>2
  <2>3. CASE u = t
    <3>1. ASSUME k <= g.acked[i][t]
          PROVE  Same(L, n.log, k)
      <4>1. Same(L, n.log, k) \/ Lacks(g, t, k, t)
          BY <1>1, <1>2, <1>7, <3>1 DEF AckGood
      <4> QED BY <1>1, <4>1 DEF Lacks
    <3>2. k <= x \/ k <= g.acked[i][t]
        BY <1>7, <2>3
    <3>3. Same(L, r.log, k)
      <4> HIDE DEF L
      <4> QED BY <2>1, <2>2, <3>1, <3>2
    <3> QED BY <1>1, <2>3, <3>3
  <2>4. CASE u # t
    <3>1. k <= g.acked[i][u]
        BY <1>7, <2>4
    <3>2. u <= t /\ (Same(g.log[u], n.log, k) \/ Lacks(g, u, k, t))
        BY <1>2, <1>7, <3>1 DEF AckGood
    <3>3. CASE Same(g.log[u], n.log, k) /\ r.log # n.log
      <4>1. CASE Same(g.log[u], L, k)
        <5>1. Same(L, n.log, k)
          <6>1. Same(L, g.log[u], k)
              BY <1>1, <4>1, SameFacts
          <6> HIDE DEF L
          <6> QED BY <1>1, <3>3, <6>1, SameFacts
        <5>2. k <= x
            BY <2>2, <3>3, <5>1
        <5>3. Same(L, r.log, k)
            BY <2>1, <5>2
        <5> HIDE DEF L
        <5>4. Same(g.log[u], r.log, k)
            BY <1>1, <4>1, <5>3, SameFacts
        <5> QED BY <3>2, <5>4
      <4>2. CASE ~Same(g.log[u], L, k)
        <5>1. u < t /\ t <= t
            BY <1>1, <2>4, <3>2
        <5>2. Lacks(g, u, k, t)
            BY <1>1, <4>2, <5>1 DEF Lacks
        <5> QED BY <3>2, <5>2
      <4> QED BY <4>1, <4>2
    <3> QED BY <3>2, <3>3
  <2> QED BY <2>3, <2>4
<1>8. AckGood(h, r)
  <2> SUFFICES ASSUME NEW u \in Nat, NEW k \in Nat, 1 <= k, k <= h.acked[i][u]
               PROVE  u <= t /\ (Same(h.log[u], r.log, k) \/ Lacks(h, u, k, t))
      BY DEF AckGood
  <2>1. u <= t /\ (Same(g.log[u], r.log, k) \/ Lacks(g, u, k, t))
      BY <1>7
  <2> QED BY <1>3, <2>1
<1>9. VoteGood(h, r)
    BY <1>2 DEF VoteGood
<1>10. LeadGood(h, r)
    BY <1>2 DEF LeadGood
<1>11. OutGood(h, r)
    BY DEF OutGood
<1> QED BY <1>2, <1>6, <1>8, <1>9, <1>10, <1>11 DEF NodeGood

(* The answer that acknowledges x entries.                                 *)
LEMMA AckReplyGood ==
    ASSUME NEW h, NEW n, NodeOK(n), NodeGood(h, n), NEW x \in Nat, x <= h.acked[n.id][n.term],
           NEW m \in MessageType, m.from # m.to, m.to = n.id
    PROVE  Keeps(h, n, send(n, {[Reply(m, "MsgAppResp") EXCEPT !.index = x]}))
<1> DEFINE b == Reply(m, "MsgAppResp")
           d == [b EXCEPT !.index = x]
           s == Stamp(n, d)
<1>1. m.from \in Server
    BY MessageFields
<1>2. n.term >= 1
    BY DEF NodeGood, LogGood
<1>3. b \in Draft /\ b.type = "MsgAppResp" /\ b.to = m.from
    BY <1>1, MessageDraft DEF MsgTypes, VoteTypes, Reply
<1>4. b.term = 0 /\ "MsgAppResp" \notin VoteTypes
    BY DEF Message, VoteTypes, Reply
<1> HIDE DEF b
<1>5. d \in Draft
    BY <1>3, Zenon DEF Draft
<1>6. d.type = "MsgAppResp" /\ d.to = m.from /\ d.term = 0 /\ d.index = x
    BY <1>3, <1>4 DEF Draft
<1> HIDE DEF d
<1>7. s.type = "MsgAppResp" /\ s.to = m.from /\ s.from = n.id /\ s.term = n.term /\ s.index = x
    BY <1>4, <1>5, <1>6, StampFields
<1> HIDE DEF s
<1>8. Outgoing(h, n, s)
    BY <1>2, <1>7 DEF Outgoing, MsgGood
<1>9. Keeps(h, n, send(n, {d}))
    BY <1>4, <1>5, <1>6, <1>8, SendOneGood DEF s
<1> QED BY <1>9 DEF d, b

(* h continues g with the acknowledgement of x entries of term t by i.     *)
Acknowledged(g, h, i, t, x) ==
    /\ HistoryGood(h) /\ Continues(g, h, i)
    /\ h.log = g.log /\ h.vote = g.vote /\ h.winner = g.winner /\ h.stood = g.stood
    /\ x <= h.acked[i][t]
    /\ h.acked[i][t] = x \/ h.acked[i][t] = g.acked[i][t]
    /\ \A u \in Nat : u # t => h.acked[i][u] = g.acked[i][u]

LEMMA AcknowledgeOnce ==
    ASSUME NEW g, HistoryGood(g), NEW i \in Server, NEW t \in Nat,
           NEW x \in Nat, x <= Len(g.log[t]),
           \A u \in Nat : u > t => g.vote[i][u] = Nil
    PROVE  \E h : Acknowledged(g, h, i, t, x)
BY Acknowledge, SMTT(60) DEF Acknowledged

LEMMA AppendEntriesGood ==
    ASSUME NEW g, HistoryGood(g), NEW n, NodeOK(n), NodeGood(g, n), n.msgs = {},
           n.state = "Follower",
           NEW m \in MessageType, MsgGood(g, m), m.to = n.id, m.term = n.term,
           m.type = "MsgApp"
    PROVE  Result(g, n.id, handle_append_entries(n, m))
<1> DEFINE i == n.id
           t == n.term
           L == g.log[t]
           z == m.index + Len(m.entries)
<1>1. /\ i \in Server /\ t \in Nat /\ n.log \in Seq(EntryType) /\ n.committed \in Nat
      /\ n.committed <= Len(n.log) /\ L \in Seq(EntryType) /\ g \in HistoryType
      /\ m.index \in Nat /\ m.commit \in Nat /\ Len(m.entries) \in Nat /\ z \in Nat
  <2>1. m.entries \in Seq(EntryType) /\ m.index \in Nat /\ m.commit \in Nat
      BY MessageFields
  <2>2. Len(m.entries) \in Nat
      BY <2>1
  <2> QED BY <2>1, <2>2, NodeFields, HistoryFields DEF HistoryGood, last_index
<1>2. /\ m.from # m.to /\ L # <<>> /\ z <= Len(L) /\ Settled(g, L, m.commit, t)
  <2>1. m.from # Nil
      BY MessageFields, ServerAssumption
  <2> QED BY <1>1, <2>1 DEF MsgGood, AppGood, HistoryGood, WinnersGood
<1>3. \A u \in Nat : u > t => g.vote[i][u] = Nil
    BY DEF NodeGood, VoteGood
<1>4. ASSUME NEW x \in Nat, x <= Len(L)
      PROVE  \E h : Acknowledged(g, h, i, t, x)
  <2>1. i \in Server /\ t \in Nat /\ x <= Len(g.log[t])
      BY <1>1, <1>4
  <2> HIDE DEF i, t
  <2> QED BY <1>3, <2>1, AcknowledgeOnce
<1>5. CASE m.index < n.committed
  <2> DEFINE c == n.committed
  <2>1. Same(L, n.log, c)
      BY <1>1, <1>2, SettledInLeader DEF NodeGood, LogGood
  <2>2. c \in Nat /\ c <= Len(L)
      BY <1>1, <2>1 DEF Same
  <2>0. \E h : Acknowledged(g, h, i, t, c)
      BY <1>4, <2>2
  <2>3. PICK h : /\ HistoryGood(h) /\ Continues(g, h, i)
                 /\ h.log = g.log /\ h.vote = g.vote
                 /\ h.winner = g.winner /\ h.stood = g.stood
                 /\ c <= h.acked[i][t]
                 /\ h.acked[i][t] = c \/ h.acked[i][t] = g.acked[i][t]
                 /\ \A u \in Nat : u # t => h.acked[i][u] = g.acked[i][u]
      BY <2>0 DEF Acknowledged
  <2>4. Same(n.log, n.log, c)
      BY <1>1 DEF Same
  <2>5. NodeGood(h, n)
      BY <1>2, <2>1, <2>2, <2>3, <2>4, AckedGood
  <2> DEFINE r == send(n, {[Reply(m, "MsgAppResp") EXCEPT !.index = c]})
  <2>6. Keeps(h, n, r)
      BY <1>2, <2>2, <2>3, <2>5, AckReplyGood
  <2>7. handle_append_entries(n, m) = r
      BY <1>5 DEF handle_append_entries
  <2> HIDE DEF r
  <2> QED BY <2>3, <2>6, <2>7 DEF Keeps, Result
<1>6. CASE ~(m.index < n.committed) /\ log_term(n, m.index) = m.log_term
  <2> DEFINE a == Appended(n, m)
             idx == IF m.commit < z THEN m.commit ELSE z
             e == commit_to(a, idx)
  <2>1. /\ NodeOK(a) /\ Same(L, a.log, z) /\ Same(n.log, a.log, n.committed)
        /\ a.log # n.log => Len(a.log) = z /\ ~Same(L, n.log, z)
        /\ a.id = n.id /\ a.term = n.term /\ a.vote = n.vote /\ a.state = n.state
        /\ a.votes = n.votes /\ a.committed = n.committed /\ a.lead = n.lead
        /\ a.prs = n.prs /\ a.msgs = n.msgs /\ a.fatal = n.fatal
    <3>1. m.index >= n.committed
        BY <1>1, <1>6
    <3> QED BY <1>6, <3>1, AppendedLog
  <2> HIDE DEF a
  <2>0. \E h : Acknowledged(g, h, i, t, z)
      BY <1>1, <1>2, <1>4
  <2>2. PICK h : /\ HistoryGood(h) /\ Continues(g, h, i)
                 /\ h.log = g.log /\ h.vote = g.vote
                 /\ h.winner = g.winner /\ h.stood = g.stood
                 /\ z <= h.acked[i][t]
                 /\ h.acked[i][t] = z \/ h.acked[i][t] = g.acked[i][t]
                 /\ \A u \in Nat : u # t => h.acked[i][u] = g.acked[i][u]
      BY <2>0 DEF Acknowledged
  <2>3. NodeGood(h, a)
    <3> HIDE DEF z
    <3> QED BY <1>1, <1>2, <2>1, <2>2, AckedGood
  <2>4. idx \in Nat /\ idx <= z /\ idx <= m.commit
      BY <1>1
  <2>5. Same(L, a.log, idx) /\ a.log \in Seq(EntryType)
    <3>1. a.log \in Seq(EntryType)
        BY <2>1, NodeFields
    <3> HIDE DEF idx, z, L
    <3> QED BY <1>1, <2>1, <2>4, <3>1, SameFacts
  <2>6. idx <= Len(a.log) /\ Settled(h, a.log, idx, a.term)
    <3>1. h \in HistoryType /\ t <= t
        BY <1>1, <2>2 DEF HistoryGood
    <3>2. Settled(h, L, m.commit, t)
        BY <1>1, <1>2, <2>2, <3>1, SettledContinues
    <3> HIDE DEF idx, L, t
    <3>3. Settled(h, a.log, idx, t)
        BY <1>1, <2>4, <2>5, <3>1, <3>2, SettledSame
    <3> QED BY <2>1, <2>5, <3>3 DEF Same, t
  <2>7. Keeps(h, a, e)
    <3> HIDE DEF idx
    <3> QED BY <2>1, <2>3, <2>4, <2>6, CommitGood
  <2>8. maybe_append(n, m) = e
      BY DEF maybe_append, Appended, a
  <2> HIDE DEF e
  <2> DEFINE r == send(e, {[Reply(m, "MsgAppResp") EXCEPT !.index = z]})
  <2>9. NodeOK(e) /\ NodeGood(h, e) /\ e.id = n.id /\ e.term = n.term
      BY <2>1, <2>7 DEF Keeps
  <2>10. Keeps(h, e, r)
    <3>1. z <= h.acked[e.id][e.term]
        BY <2>2, <2>9
    <3> HIDE DEF z
    <3> QED BY <1>1, <1>2, <2>9, <3>1, AckReplyGood
  <2>11. handle_append_entries(n, m) = r
      BY <1>6, <2>8 DEF handle_append_entries
  <2> HIDE DEF r
  <2> QED BY <2>2, <2>9, <2>10, <2>11 DEF Keeps, Result
<1>7. CASE ~(m.index < n.committed) /\ log_term(n, m.index) # m.log_term
  <2> DEFINE b == Reply(m, "MsgAppResp")
             d == [b EXCEPT !.index = m.index, !.reject = TRUE, !.reject_hint = last_index(n)]
             s == Stamp(n, d)
  <2>1. m.from \in Server /\ last_index(n) \in Nat
      BY <1>1, MessageFields DEF last_index
  <2>2. n.term >= 1
      BY DEF NodeGood, LogGood
  <2>3. b \in Draft /\ b.type = "MsgAppResp" /\ b.to = m.from
      BY <2>1, MessageDraft DEF MsgTypes, VoteTypes, Reply
  <2>4. b.term = 0 /\ "MsgAppResp" \notin VoteTypes
      BY DEF Message, VoteTypes, Reply
  <2> HIDE DEF b
  <2>5. d \in Draft
      BY <1>1, <2>1, <2>3, Zenon DEF Draft
  <2>6. d.type = "MsgAppResp" /\ d.to = m.from /\ d.term = 0 /\ d.reject
      BY <2>3, <2>4 DEF Draft
  <2> HIDE DEF d
  <2>7. s.type = "MsgAppResp" /\ s.to = m.from /\ s.from = n.id /\ s.term = n.term /\ s.reject
      BY <2>4, <2>5, <2>6, StampFields
  <2> HIDE DEF s
  <2>8. Outgoing(g, n, s)
      BY <1>2, <2>2, <2>7 DEF Outgoing, MsgGood
  <2>9. Keeps(g, n, send(n, {d}))
      BY <2>4, <2>5, <2>6, <2>8, SendOneGood DEF s
  <2>10. handle_append_entries(n, m) = send(n, {d})
      BY <1>7 DEF handle_append_entries, d, b
  <2> QED BY <2>9, <2>10, KeptResult
<1> QED BY <1>5, <1>6, <1>7

-----------------------------------------------------------------------------
(* Every reachable state is explained.                                     *)

LEMMA Explained ==
    ASSUME TypeInv, NEW g, Explains(g), NEW i \in Server
    PROVE  /\ HistoryGood(g) /\ g \in HistoryType
           /\ NodeOK(node[i]) /\ NodeGood(g, node[i]) /\ node[i].id = i /\ node[i].msgs = {}
           /\ disk[i] \in DiskType /\ DiskGood(g, disk[i], node[i])
BY NoEvent DEF Explains, HistoryGood, TypeInv, TypeOK

-----------------------------------------------------------------------------
(* Every action but Restart ends in the Ready of an explained object.      *)

LEMMA MarksGood ==
    ASSUME NEW h, NEW n, NodeOK(n), NodeGood(h, n), NEW x \in Id, NEW b \in BOOLEAN
    PROVE  /\ Keeps(h, n, [n EXCEPT !.transferee = x])
           /\ Keeps(h, n, [n EXCEPT !.lapsed = b])
           /\ [n EXCEPT !.lapsed = b].msgs = n.msgs
           /\ [n EXCEPT !.transferee = x].msgs = n.msgs
<1> DEFINE p == [n EXCEPT !.transferee = x]
           q == [n EXCEPT !.lapsed = b]
<1>1. NodeOK(p) /\ NodeOK(q)
  <2>1. Quiet(n, p)
      BY MarksQuiet, Zenon
  <2>2. Quiet(n, q)
      BY MarksQuiet, Zenon
  <2> HIDE DEF p, q
  <2> QED BY <2>1, <2>2 DEF Quiet
<1>2. /\ p.id = n.id /\ p.term = n.term /\ p.vote = n.vote /\ p.state = n.state
      /\ p.votes = n.votes /\ p.log = n.log /\ p.committed = n.committed /\ p.lead = n.lead
      /\ p.prs = n.prs /\ p.msgs = n.msgs /\ p.fatal = n.fatal
    BY DEF NodeOK, NodeType
<1>3. /\ q.id = n.id /\ q.term = n.term /\ q.vote = n.vote /\ q.state = n.state
      /\ q.votes = n.votes /\ q.log = n.log /\ q.committed = n.committed /\ q.lead = n.lead
      /\ q.prs = n.prs /\ q.msgs = n.msgs /\ q.fatal = n.fatal
    BY DEF NodeOK, NodeType
<1> HIDE DEF p, q
<1>4. Keeps(h, n, p)
    BY <1>1, <1>2, GoodSame
<1>5. Keeps(h, n, q)
    BY <1>1, <1>3, GoodSame
<1> QED BY <1>2, <1>3, <1>4, <1>5 DEF p, q

LEMMA HupResult ==
    ASSUME TypeInv, NEW g, Explains(g), ~PreVote, NEW i \in Server, Hup(i)
    PROVE  \E r : Result(g, i, r) /\ pull_ready_events(i, r)
<1> DEFINE n == [node[i] EXCEPT !.lapsed = FALSE]
           r == campaign_election(n)
<1>1. /\ HistoryGood(g) /\ NodeOK(node[i]) /\ NodeGood(g, node[i]) /\ node[i].id = i
      /\ node[i].msgs = {} /\ Nil \in Id /\ node[i].state # "Leader"
    BY Explained DEF Id, Hup
<1>2. Keeps(g, node[i], n) /\ n.msgs = {}
    BY <1>1, MarksGood
<1>3. pull_ready_events(i, r)
    BY DEF Hup
<1> HIDE DEF n
<1>4. NodeOK(n) /\ NodeGood(g, n) /\ n.id = i /\ n.state # "Leader"
    BY <1>1, <1>2 DEF Keeps
<1>5. Result(g, n.id, r)
    BY <1>1, <1>2, <1>4, CampaignGood
<1> HIDE DEF r
<1> QED BY <1>3, <1>4, <1>5

LEMMA LapseResult ==
    ASSUME TypeInv, NEW g, Explains(g), NEW i \in Server, Lapse(i)
    PROVE  \E r : Result(g, i, r) /\ pull_ready_events(i, r)
<1> DEFINE r == [node[i] EXCEPT !.lapsed = TRUE]
<1>1. /\ HistoryGood(g) /\ NodeOK(node[i]) /\ NodeGood(g, node[i]) /\ node[i].id = i
      /\ Nil \in Id
    BY Explained DEF Id
<1>2. Keeps(g, node[i], r)
    BY <1>1, MarksGood
<1>3. pull_ready_events(i, r)
    BY DEF Lapse
<1> HIDE DEF r
<1>4. Result(g, i, r)
    BY <1>1, <1>2, KeptResult
<1> QED BY <1>3, <1>4

LEMMA BeatResult ==
    ASSUME TypeInv, NEW g, Explains(g), NEW i \in Server, NEW due \in BOOLEAN, Beat(i, due)
    PROVE  \E r : Result(g, i, r) /\ pull_ready_events(i, r)
<1> DEFINE f == become_follower(node[i], node[i].term, Nil)
           t == [node[i] EXCEPT !.transferee = Nil]
           n == IF ~due THEN node[i]
                ELSE IF CheckQuorum /\ ~check_quorum_active(node[i]) THEN f ELSE t
           b == bcast_heartbeat(n)
<1>1. /\ HistoryGood(g) /\ NodeOK(node[i]) /\ NodeGood(g, node[i]) /\ node[i].id = i
      /\ node[i].msgs = {} /\ Nil \in Id /\ node[i].term \in Nat /\ Nil # i
    BY Explained, NodeFields, ServerAssumption DEF Id
<1>2. NodeOK(f) /\ NodeGood(g, f) /\ f.id = i
  <2>1. node[i].term >= node[i].term
      BY <1>1
  <2> QED BY <1>1, <2>1, FollowerGood
<1>3. NodeOK(t) /\ NodeGood(g, t) /\ t.id = i
  <2>1. Keeps(g, node[i], t)
      BY <1>1, MarksGood
  <2> HIDE DEF t
  <2> QED BY <1>1, <2>1 DEF Keeps
<1>4. pull_ready_events(i, IF n.state = "Leader" THEN b ELSE n)
    BY DEF Beat
<1> HIDE DEF f, t
<1>5. NodeOK(n) /\ NodeGood(g, n) /\ n.id = i
    BY <1>1, <1>2, <1>3
<1> HIDE DEF n
<1>6. CASE n.state = "Leader"
  <2>1. Keeps(g, n, b)
      BY <1>1, <1>5, <1>6, HeartbeatsGood
  <2> HIDE DEF b
  <2>2. Result(g, i, b)
      BY <1>1, <1>5, <2>1, KeptResult
  <2> QED BY <1>4, <1>6, <2>2
<1>7. CASE n.state # "Leader"
  <2>1. Result(g, i, n)
      BY <1>1, <1>5, SameResult
  <2> QED BY <1>4, <1>7, <2>1
<1> QED BY <1>6, <1>7

(* A proposal and a transfer request, at a server that leads, that passes  *)
(* them on or that drops them.                                             *)
LEMMA StepPropResult ==
    ASSUME NEW g, HistoryGood(g), NEW n, NodeOK(n), NodeGood(g, n), n.msgs = {}, NEW m,
           m.entries[1].value \in Payload,
           n.state = "Follower" /\ n.lead # Nil => Keeps(g, n, send(n, {[m EXCEPT !.to = n.lead]}))
    PROVE  Result(g, n.id, step_prop(n, m))
<1> DEFINE v == m.entries[1].value
           a == propose(n, v)
           b == send(n, {[m EXCEPT !.to = n.lead]})
           r == step_prop(n, m)
<1>1. Result(g, n.id, n)
    BY SameResult
<1>2. n.state = "Leader" => Result(g, n.id, a)
    BY ProposeGood
<1>3. n.state = "Follower" /\ n.lead # Nil => Result(g, n.id, b)
    BY KeptResult
<1>4. \/ r = n
      \/ n.state = "Leader" /\ r = a
      \/ n.state = "Follower" /\ n.lead # Nil /\ r = b
    BY DEF step_prop
<1> HIDE DEF a, b, r
<1>5. Result(g, n.id, r)
    BY <1>1, <1>2, <1>3, <1>4
<1> QED BY <1>5 DEF r

LEMMA StepTransferResult ==
    ASSUME NEW g, HistoryGood(g), NEW n, NodeOK(n), NodeGood(g, n), NEW m, m.from \in Server,
           n.state = "Follower" /\ n.lead # Nil => Keeps(g, n, send(n, {[m EXCEPT !.to = n.lead]}))
    PROVE  Result(g, n.id, step_transfer(n, m))
<1> DEFINE a == handle_transfer_leader(n, m.from)
           b == send(n, {[m EXCEPT !.to = n.lead]})
           r == step_transfer(n, m)
<1>1. Result(g, n.id, n)
    BY SameResult
<1>2. n.state = "Leader" => Result(g, n.id, a)
    BY TransferGood, KeptResult
<1>3. n.state = "Follower" /\ n.lead # Nil => Result(g, n.id, b)
    BY KeptResult
<1>4. \/ r = n
      \/ n.state = "Leader" /\ r = a
      \/ n.state = "Follower" /\ n.lead # Nil /\ r = b
    BY DEF step_transfer
<1> HIDE DEF a, b, r
<1>5. Result(g, n.id, r)
    BY <1>1, <1>2, <1>3, <1>4
<1> QED BY <1>5 DEF r

LEMMA ProposeResult ==
    ASSUME TypeInv, NEW g, Explains(g), NEW i \in Server, NEW v \in Value, Propose(i, v)
    PROVE  \E r : Result(g, i, r) /\ pull_ready_events(i, r)
<1> DEFINE e == <<Entry(0, v)>>
           x == Message("MsgProp", Nil)
           m == [x EXCEPT !.entries = e]
           n == node[i]
           r == step_prop(n, m)
<1>1. e \in Seq(EntryType) /\ e[1].value \in Payload /\ Len(e) = 1
    BY DEF Entry, EntryType, Payload
<1>2. x \in Local /\ x.type = "MsgProp"
    BY LocalMessage DEF MsgTypes
<1>3. x.term = 0
    BY DEF Message
<1>4. pull_ready_events(i, r)
    BY DEF Propose
<1> HIDE DEF x, e
<1>5. m \in Local
    BY <1>1, <1>2, Zenon DEF Local
<1>6. m.type = "MsgProp" /\ m.entries = e /\ m.term = 0
    BY <1>2, <1>3 DEF Local
<1>7. HistoryGood(g) /\ NodeOK(n) /\ NodeGood(g, n) /\ n.id = i /\ n.msgs = {}
    BY Explained
<1> HIDE DEF m, n
<1>8. n.state = "Follower" /\ n.lead # Nil => Keeps(g, n, send(n, {[m EXCEPT !.to = n.lead]}))
    BY <1>1, <1>5, <1>6, <1>7, PassOnGood
<1>9. Result(g, n.id, r)
    BY <1>1, <1>6, <1>7, <1>8, StepPropResult
<1> HIDE DEF r
<1> QED BY <1>4, <1>7, <1>9

LEMMA TransferLeaderResult ==
    ASSUME TypeInv, NEW g, Explains(g), NEW i \in Server, NEW to \in Server, TransferLeader(i, to)
    PROVE  \E r : Result(g, i, r) /\ pull_ready_events(i, r)
<1> DEFINE x == Message("MsgTransferLeader", Nil)
           m == [x EXCEPT !.from = to]
           n == node[i]
           r == step_transfer(n, m)
<1>1. x \in Local /\ x.type = "MsgTransferLeader"
    BY LocalMessage DEF MsgTypes
<1>2. x.term = 0
    BY DEF Message
<1>3. pull_ready_events(i, r)
    BY DEF TransferLeader
<1> HIDE DEF x
<1>4. m \in Local
    BY <1>1, Zenon DEF Local, Id
<1>5. m.type = "MsgTransferLeader" /\ m.from = to /\ m.term = 0
    BY <1>1, <1>2 DEF Local
<1>6. HistoryGood(g) /\ NodeOK(n) /\ NodeGood(g, n) /\ n.id = i /\ n.msgs = {}
    BY Explained
<1> HIDE DEF m, n
<1>7. n.state = "Follower" /\ n.lead # Nil => Keeps(g, n, send(n, {[m EXCEPT !.to = n.lead]}))
    BY <1>4, <1>5, <1>6, PassOnGood
<1>8. Result(g, n.id, r)
    BY <1>5, <1>6, <1>7, StepTransferResult
<1> HIDE DEF r
<1> QED BY <1>3, <1>6, <1>8

LEMMA UnreachableResult ==
    ASSUME TypeInv, NEW g, Explains(g), NEW i \in Server, NEW j \in Server, Unreachable(i, j)
    PROVE  \E r : Result(g, i, r) /\ pull_ready_events(i, r)
<1> DEFINE n == node[i]
           f == [n.prs EXCEPT ![j] = become_probe(@)]
           r == [n EXCEPT !.prs = f]
<1>1. /\ HistoryGood(g) /\ NodeOK(n) /\ NodeGood(g, n) /\ n.id = i /\ n.state = "Leader"
    BY Explained DEF Unreachable
<1>2. f \in [Server -> ProgressType] /\ n.prs \in [Server -> ProgressType]
    BY <1>1, NodeFields, ProgressTypes
<1>3. pull_ready_events(i, r)
  <2>1. r = [node[i] EXCEPT !.prs[j] = become_probe(@)]
      BY <1>1 DEF NodeOK, NodeType
  <2> HIDE DEF r
  <2> QED BY <2>1 DEF Unreachable
<1>4. \A k \in Server : /\ f[k].match <= g.acked[k][n.term]
                        /\ f[k].next <= Len(n.log) + 1
  <2> TAKE k \in Server
  <2>1. /\ n.prs[k].match <= g.acked[k][n.term] /\ n.prs[k].match \in Nat
        /\ n.prs[k].next \in Nat \ {0} /\ n.prs[k].next <= Len(n.log) + 1
        /\ g.acked[k][n.term] \in Nat /\ g.acked[k][n.term] <= Len(n.log)
        /\ Len(n.log) \in Nat
      BY <1>1, LeaderFacts
  <2>2. CASE k # j
    <3>1. f[k] = n.prs[k]
        BY <1>2, <2>2
    <3> QED BY <2>1, <3>1
  <2>3. CASE k = j
    <3>1. f[k] = become_probe(n.prs[k]) /\ n.prs[k] \in ProgressType /\ 0 \in Nat
        BY <1>2, <2>3
    <3> HIDE DEF f
    <3>2. f[k].match = n.prs[k].match /\ f[k].next = n.prs[k].match + 1
        BY <3>1 DEF become_probe, reset_state, ProgressType
    <3>3. n.prs[k].match + 1 <= Len(n.log) + 1
        BY <2>1
    <3> QED BY <2>1, <3>2, <3>3
  <2> QED BY <2>2, <2>3
<1> HIDE DEF f, n
<1>5. Keeps(g, n, r)
    BY <1>1, <1>2, <1>4, GoodPrs
<1> HIDE DEF r
<1>6. Result(g, n.id, r)
    BY <1>1, <1>5, KeptResult
<1> QED BY <1>1, <1>3, <1>6

LEMMA TakesGood ==
    ASSUME TypeInv, NEW g, Explains(g), NEW i \in Server, NEW m \in net, NEW n, Takes(i, m, n)
    PROVE  /\ HistoryGood(g) /\ m \in MessageType /\ MsgGood(g, m) /\ m.to = i
           /\ NodeOK(n) /\ NodeGood(g, n) /\ n.id = i /\ n.msgs = {} /\ m.term = n.term
<1>1. m \in MessageType /\ MsgGood(g, m)
    BY DEF TypeInv, TypeOK, Explains
<1>2. /\ HistoryGood(g) /\ NodeOK(node[i]) /\ NodeGood(g, node[i]) /\ node[i].id = i
      /\ node[i].msgs = {}
    BY Explained
<1>3. m.to = i /\ m.term >= node[i].term /\ n = catch_up(node[i], m)
    BY DEF Takes, Admitted
<1> DEFINE c == catch_up(node[i], m)
<1>4. /\ NodeOK(c) /\ NodeGood(g, c) /\ c.id = node[i].id /\ c.msgs = {} /\ c.term = m.term
    BY <1>1, <1>2, <1>3, CatchUpGood
<1> HIDE DEF c
<1> QED BY <1>1, <1>2, <1>3, <1>4 DEF c

LEMMA RecvPropResult ==
    ASSUME TypeInv, NEW g, Explains(g), NEW i \in Server, NEW m \in net,
           RecvProp(i, m) \/ RecvTransferLeader(i, m)
    PROVE  \E r : Result(g, i, r) /\ pull_ready_events(i, r)
<1> DEFINE n == catch_up(node[i], m)
<1>1. Takes(i, m, n) /\ m.type \in {"MsgProp", "MsgTransferLeader"}
    BY DEF RecvProp, RecvTransferLeader
<1>2. CASE RecvProp(i, m)
  <2> DEFINE r == step_prop(n, m)
  <2>1. m.type = "MsgProp" /\ pull_ready_events(i, r)
      BY <1>2 DEF RecvProp
  <2> HIDE DEF n
  <2>2. /\ HistoryGood(g) /\ m \in MessageType /\ MsgGood(g, m) /\ m.to = i
        /\ NodeOK(n) /\ NodeGood(g, n) /\ n.id = i /\ n.msgs = {} /\ m.term = n.term
      BY <1>1, TakesGood
  <2>3. m.entries[1].value \in Payload
    <3>1. m.entries \in Seq(EntryType) /\ Len(m.entries) = 1
        BY <2>1, <2>2, MessageFields DEF TypeInv
    <3>2. m.entries[1] \in EntryType
        BY <3>1
    <3> QED BY <3>2 DEF EntryType
  <2>4. n.state = "Follower" => n.lead = Nil
      BY <2>1, <2>2, NotPassedOn
  <2>5. Result(g, n.id, r)
      BY <2>2, <2>3, <2>4, StepPropResult
  <2> HIDE DEF r
  <2> QED BY <2>1, <2>2, <2>5
<1>3. CASE RecvTransferLeader(i, m)
  <2> DEFINE r == step_transfer(n, m)
  <2>1. m.type = "MsgTransferLeader" /\ pull_ready_events(i, r)
      BY <1>3 DEF RecvTransferLeader
  <2> HIDE DEF n
  <2>2. /\ HistoryGood(g) /\ m \in MessageType /\ MsgGood(g, m) /\ m.to = i
        /\ NodeOK(n) /\ NodeGood(g, n) /\ n.id = i /\ n.msgs = {} /\ m.term = n.term
      BY <1>1, TakesGood
  <2>3. m.from \in Server
      BY <2>2, MessageFields
  <2>4. n.state = "Follower" => n.lead = Nil
      BY <2>1, <2>2, NotPassedOn
  <2>5. Result(g, n.id, r)
      BY <2>2, <2>3, <2>4, StepTransferResult
  <2> HIDE DEF r
  <2> QED BY <2>1, <2>2, <2>5
<1> QED BY <1>2, <1>3

LEMMA RecvVoteResult ==
    ASSUME TypeInv, NEW g, Explains(g), NEW i \in Server, NEW m \in net,
           RecvVote(i, m) \/ RecvVoteResp(i, m)
    PROVE  \E r : Result(g, i, r) /\ pull_ready_events(i, r)
<1> DEFINE n == catch_up(node[i], m)
<1>1. Takes(i, m, n)
    BY DEF RecvVote, RecvVoteResp
<1>2. CASE RecvVote(i, m)
  <2> DEFINE r == handle_vote(n, m)
  <2>1. m.type \in {"MsgVote", "MsgPreVote"} /\ pull_ready_events(i, r)
      BY <1>2 DEF RecvVote
  <2> HIDE DEF n
  <2>2. /\ HistoryGood(g) /\ m \in MessageType /\ MsgGood(g, m) /\ m.to = i
        /\ NodeOK(n) /\ NodeGood(g, n) /\ n.id = i /\ n.msgs = {} /\ m.term = n.term
      BY <1>1, TakesGood
  <2>3. m.type = "MsgVote"
      BY <2>1, <2>2 DEF MsgGood
  <2>4. Result(g, n.id, r)
      BY <2>2, <2>3, HandleVoteGood
  <2> HIDE DEF r
  <2> QED BY <2>1, <2>2, <2>4
<1>3. CASE RecvVoteResp(i, m)
  <2> DEFINE r == handle_vote_resp(n, m)
  <2>1. /\ m.type \in {"MsgVoteResp", "MsgPreVoteResp"} /\ pull_ready_events(i, r)
        /\ n.state \in {"PreCandidate", "Candidate"}
      BY <1>3 DEF RecvVoteResp
  <2> HIDE DEF n
  <2>2. /\ HistoryGood(g) /\ m \in MessageType /\ MsgGood(g, m) /\ m.to = i
        /\ NodeOK(n) /\ NodeGood(g, n) /\ n.id = i /\ n.msgs = {} /\ m.term = n.term
      BY <1>1, TakesGood
  <2>3. m.type = "MsgVoteResp" /\ n.state = "Candidate"
      BY <2>1, <2>2 DEF MsgGood, NodeGood, VoteGood
  <2>4. Result(g, n.id, r)
      BY <2>2, <2>3, VoteRespGood
  <2> HIDE DEF r
  <2> QED BY <2>1, <2>2, <2>4
<1> QED BY <1>2, <1>3

LEMMA RecvLeaderResult ==
    ASSUME TypeInv, NEW g, Explains(g), NEW i \in Server, NEW m \in net,
           RecvApp(i, m) \/ RecvHeartbeat(i, m)
    PROVE  \E r : Result(g, i, r) /\ pull_ready_events(i, r)
<1> DEFINE n == catch_up(node[i], m)
           q == heard_leader(n, m)
<1>1. /\ Takes(i, m, n) /\ m.type \in {"MsgApp", "MsgHeartbeat"} /\ n.state # "Leader"
    BY DEF RecvApp, RecvHeartbeat
<1>2. RecvApp(i, m) => m.type = "MsgApp" /\ pull_ready_events(i, handle_append_entries(q, m))
    BY DEF RecvApp
<1>3. RecvHeartbeat(i, m) => m.type = "MsgHeartbeat" /\ pull_ready_events(i, handle_heartbeat(q, m))
    BY DEF RecvHeartbeat
<1> HIDE DEF n
<1>4. /\ HistoryGood(g) /\ m \in MessageType /\ MsgGood(g, m) /\ m.to = i
      /\ NodeOK(n) /\ NodeGood(g, n) /\ n.id = i /\ n.msgs = {} /\ m.term = n.term
    BY <1>1, TakesGood
<1>5. /\ NodeOK(q) /\ NodeGood(g, q) /\ q.id = n.id /\ q.msgs = {} /\ q.term = n.term
      /\ q.state = "Follower"
    BY <1>1, <1>4, HeardLeaderGood
<1> HIDE DEF q
<1>6. CASE RecvApp(i, m)
  <2>1. Result(g, q.id, handle_append_entries(q, m))
      BY <1>2, <1>4, <1>5, <1>6, AppendEntriesGood
  <2> QED BY <1>2, <1>4, <1>5, <1>6, <2>1
<1>7. CASE RecvHeartbeat(i, m)
  <2>1. Keeps(g, q, handle_heartbeat(q, m))
      BY <1>3, <1>4, <1>5, <1>7, HeartbeatGood
  <2>2. Result(g, q.id, handle_heartbeat(q, m))
      BY <1>4, <2>1, KeptResult
  <2> QED BY <1>3, <1>4, <1>5, <1>7, <2>2
<1> QED BY <1>6, <1>7

LEMMA RecvRespResult ==
    ASSUME TypeInv, NEW g, Explains(g), NEW i \in Server, NEW m \in net,
           RecvAppResp(i, m) \/ RecvHeartbeatResp(i, m)
    PROVE  \E r : Result(g, i, r) /\ pull_ready_events(i, r)
<1> DEFINE n == catch_up(node[i], m)
<1>1. Takes(i, m, n) /\ n.state = "Leader"
    BY DEF RecvAppResp, RecvHeartbeatResp
<1>2. RecvAppResp(i, m) => m.type = "MsgAppResp" /\ pull_ready_events(i, handle_app_resp(n, m))
    BY DEF RecvAppResp
<1>3. RecvHeartbeatResp(i, m) => pull_ready_events(i, handle_heartbeat_resp(n, m))
    BY DEF RecvHeartbeatResp
<1> HIDE DEF n
<1>4. /\ HistoryGood(g) /\ m \in MessageType /\ MsgGood(g, m) /\ m.to = i
      /\ NodeOK(n) /\ NodeGood(g, n) /\ n.id = i /\ n.msgs = {} /\ m.term = n.term
    BY <1>1, TakesGood
<1>5. m.from # n.id
    BY <1>4 DEF MsgGood
<1>6. CASE RecvAppResp(i, m)
  <2>1. ~m.reject => m.index <= g.acked[m.from][n.term]
      BY <1>2, <1>4, <1>6, Zenon DEF MsgGood
  <2>2. Keeps(g, n, handle_app_resp(n, m))
      BY <1>1, <1>4, <1>5, <2>1, AppRespGood
  <2>3. Result(g, n.id, handle_app_resp(n, m))
      BY <1>4, <2>2, KeptResult
  <2> QED BY <1>2, <1>4, <1>6, <2>3
<1>7. CASE RecvHeartbeatResp(i, m)
  <2>1. Keeps(g, n, handle_heartbeat_resp(n, m))
      BY <1>1, <1>4, <1>5, HeartbeatRespGood
  <2>2. Result(g, n.id, handle_heartbeat_resp(n, m))
      BY <1>4, <2>1, KeptResult
  <2> QED BY <1>3, <1>4, <1>7, <2>2
<1> QED BY <1>6, <1>7

LEMMA RecvOtherResult ==
    ASSUME TypeInv, NEW g, Explains(g), NEW i \in Server, NEW m \in net,
           RecvTimeoutNow(i, m) \/ RecvUnhandled(i, m) \/ RecvStale(i, m)
    PROVE  \E r : Result(g, i, r) /\ pull_ready_events(i, r)
<1> DEFINE n == catch_up(node[i], m)
<1>1. ASSUME Takes(i, m, n)
      PROVE  HistoryGood(g) /\ NodeOK(n) /\ NodeGood(g, n) /\ n.id = i /\ n.msgs = {}
  <2> HIDE DEF n
  <2> QED BY <1>1, TakesGood
<1>2. CASE RecvTimeoutNow(i, m)
  <2> DEFINE r == campaign_election(n)
  <2>1. Takes(i, m, n) /\ n.state = "Follower" /\ pull_ready_events(i, r)
      BY <1>2 DEF RecvTimeoutNow
  <2> HIDE DEF n
  <2>2. HistoryGood(g) /\ NodeOK(n) /\ NodeGood(g, n) /\ n.id = i /\ n.msgs = {}
      BY <1>1, <2>1
  <2>3. Result(g, n.id, r)
      BY <2>1, <2>2, CampaignGood
  <2> HIDE DEF r
  <2> QED BY <2>1, <2>2, <2>3
<1>3. CASE RecvUnhandled(i, m)
  <2>1. Takes(i, m, n) /\ pull_ready_events(i, n)
      BY <1>3 DEF RecvUnhandled
  <2> HIDE DEF n
  <2>2. HistoryGood(g) /\ NodeOK(n) /\ NodeGood(g, n) /\ n.id = i /\ n.msgs = {}
      BY <1>1, <2>1
  <2> QED BY <2>1, <2>2, SameResult
<1>4. CASE RecvStale(i, m)
  <2>1. m \in MessageType /\ MsgGood(g, m) /\ m.to = i
      BY <1>4 DEF TypeInv, TypeOK, Explains, RecvStale
  <2>2. m.type # "MsgPreVote"
      BY <2>1 DEF MsgGood
  <2> DEFINE r == send(node[i], {Reply(m, "MsgAppResp")})
  <2>3. pull_ready_events(i, r)
      BY <1>4, <2>2 DEF RecvStale
  <2>4. HistoryGood(g) /\ NodeOK(node[i]) /\ NodeGood(g, node[i]) /\ node[i].id = i
      BY Explained
  <2>5. Keeps(g, node[i], r)
      BY <2>1, <2>4, StaleReplyGood
  <2> HIDE DEF r
  <2>6. Result(g, node[i].id, r)
      BY <2>4, <2>5, KeptResult
  <2> QED BY <2>3, <2>4, <2>6
<1> QED BY <1>2, <1>3, <1>4

LEMMA NextResult ==
    ASSUME TypeInv, NEW g, Explains(g), ~PreVote, Next
    PROVE  \E i \in Server :
              \/ \E r : Result(g, i, r) /\ pull_ready_events(i, r)
              \/ Restart(i)
<1>1. PICK i \in Server :
        \/ Hup(i)
        \/ Lapse(i)
        \/ \E due \in BOOLEAN : Beat(i, due)
        \/ \E v \in Value : Propose(i, v)
        \/ \E j \in Server : TransferLeader(i, j) \/ Unreachable(i, j)
        \/ Restart(i)
        \/ \E m \in net : Receive(i, m)
    BY DEF Next
<1>2. ASSUME NEW m \in net, Receive(i, m)
      PROVE  \E r : Result(g, i, r) /\ pull_ready_events(i, r)
    BY <1>2, RecvPropResult, RecvVoteResult, RecvLeaderResult, RecvRespResult,
       RecvOtherResult DEF Receive
<1>3. CASE Hup(i) \/ Lapse(i) \/ Restart(i)
    BY <1>3, HupResult, LapseResult
<1>4. CASE \/ \E due \in BOOLEAN : Beat(i, due)
           \/ \E v \in Value : Propose(i, v)
           \/ \E j \in Server : TransferLeader(i, j) \/ Unreachable(i, j)
    BY <1>4, BeatResult, ProposeResult, TransferLeaderResult, UnreachableResult
<1> QED BY <1>1, <1>2, <1>3, <1>4

-----------------------------------------------------------------------------
(* The Ready that ends an event, and a restart.                            *)

LEMMA ReadyFields ==
    ASSUME NEW n, NodeOK(n), NEW applied
    PROVE  LET r == [reduce_uncommitted_size(n, applied) EXCEPT !.msgs = {}]
           IN  r.lead = n.lead /\ r.prs = n.prs /\ r.fatal = n.fatal
<1> DEFINE size == payload_size(SubSeq(n.log, applied + 1, n.committed))
           u == IF size > n.uncommitted THEN 0 ELSE n.uncommitted - size
<1>1. reduce_uncommitted_size(n, applied) = [n EXCEPT !.uncommitted = u]
    BY DEF reduce_uncommitted_size
<1> HIDE DEF u
<1> QED BY <1>1 DEF NodeOK, NodeType

(* The outbox is empty once its messages are with the transport.           *)
LEMMA GoodSent ==
    ASSUME NEW h, NEW n, NodeGood(h, n), NEW r, r.msgs = {},
           r.id = n.id, r.term = n.term, r.vote = n.vote, r.state = n.state,
           r.votes = n.votes, r.log = n.log, r.committed = n.committed, r.lead = n.lead,
           r.prs = n.prs, r.fatal = n.fatal
    PROVE  NodeGood(h, r)
<1>1. LogGood(h, r) /\ AckGood(h, r)
    BY Zenon DEF NodeGood, LogGood, AckGood
<1>2. VoteGood(h, r)
    BY Zenon DEF NodeGood, VoteGood
<1>3. LeadGood(h, r)
    BY Zenon DEF NodeGood, LeadGood
<1>4. OutGood(h, r)
    BY DEF OutGood
<1> QED BY <1>1, <1>2, <1>3, <1>4, Zenon DEF NodeGood

(* Only i has moved, to the term, the role and the log of n, and only n's  *)
(* messages have been sent.                                                *)
Moved(i, n) ==
    /\ \A j \in Server \ {i} : node'[j] = node[j]
    /\ node'[i].term = n.term /\ node'[i].state = n.state /\ node'[i].log = n.log
    /\ net' \subseteq net \cup n.msgs

LEMMA ReadyGood ==
    ASSUME TypeInv, WalDurable, NEW g, Explains(g), NEW i \in Server,
           NEW h, HistoryGood(h), Continues(g, h, i),
           NEW n, NodeOK(n), NodeGood(h, n), n.id = i, pull_ready_events(i, n)
    PROVE  Explains(h)' /\ Moved(i, n)
<1> DEFINE r == [reduce_uncommitted_size(n, node[i].committed) EXCEPT !.msgs = {}]
           d == IF must_sync(n, disk[i]) THEN Saved(n) ELSE disk[i]
<1>1. /\ node \in [Server -> NodeType] /\ disk \in [Server -> DiskType]
      /\ net \subseteq MessageType /\ HistoryGood(g) /\ g \in HistoryType /\ h \in HistoryType
      /\ \A j \in Server : /\ NodeOK(node[j]) /\ NodeGood(g, node[j]) /\ node[j].id = j
                           /\ node[j].msgs = {} /\ DiskGood(g, disk[j], node[j])
    BY Explained DEF TypeInv, TypeOK, Explains, HistoryGood
<1>2. node[i].committed \in Nat
    BY <1>1, NodeFields
<1>3. /\ node' = [node EXCEPT ![i] = r] /\ disk' = [disk EXCEPT ![i] = d]
      /\ net' = {m \in n.msgs : <<m.from, m.to>> \in Links} \cup {m \in net : ~Lost(m, n.msgs)}
  <2>1. ~n.fatal
      BY DEF NodeGood
  <2> QED BY <1>1, <2>1 DEF pull_ready_events
<1>4. /\ r.id = n.id /\ r.term = n.term /\ r.vote = n.vote /\ r.state = n.state
      /\ r.votes = n.votes /\ r.log = n.log /\ r.committed = n.committed /\ r.msgs = {}
    BY <1>2, ReadyNode
<1>5. r.lead = n.lead /\ r.prs = n.prs /\ r.fatal = n.fatal
    BY ReadyFields
<1> HIDE DEF r
<1>6. NodeGood(h, r)
    BY <1>4, <1>5, GoodSent
<1>7. DiskGood(h, d, r)
  <2>1. CASE must_sync(n, disk[i])
    <3>1. d = Saved(n)
        BY <2>1
    <3>2. Settled(h, n.log, n.committed, n.term)
        BY DEF NodeGood, LogGood
    <3> QED BY <1>4, <3>1, <3>2 DEF Saved, DiskGood
  <2>2. CASE ~must_sync(n, disk[i])
    <3>1. d = disk[i] /\ d.log = n.log /\ d.term = n.term /\ d.vote = n.vote
        BY <2>2 DEF must_sync
    <3>2. disk[i] \in DiskType /\ DiskGood(g, disk[i], node[i])
        BY <1>1
    <3>3. DiskGood(h, disk[i], node[i])
        BY <1>1, <3>2, DiskContinues
    <3> QED BY <1>4, <3>1, <3>3 DEF DiskGood
  <2> QED BY <2>1, <2>2
<1> HIDE DEF d
<1>8. node'[i] = r /\ disk'[i] = d
    BY <1>1, <1>3
<1>9. ASSUME NEW j \in Server \ {i}
      PROVE  /\ node'[j] = node[j] /\ disk'[j] = disk[j]
             /\ NodeGood(h, node[j]) /\ DiskGood(h, disk[j], node[j])
  <2>1. node'[j] = node[j] /\ disk'[j] = disk[j]
      BY <1>1, <1>3
  <2>2. NodeOK(node[j]) /\ NodeGood(g, node[j]) /\ node[j].id # i /\ node[j].msgs = {}
      BY <1>1
  <2>3. NodeGood(h, node[j])
      BY <1>1, <2>2, OtherContinues
  <2>4. disk[j] \in DiskType /\ DiskGood(g, disk[j], node[j])
      BY <1>1
  <2>5. DiskGood(h, disk[j], node[j])
      BY <1>1, <2>4, DiskContinues
  <2> QED BY <2>1, <2>3, <2>5
<1>10. net' \subseteq net \cup n.msgs
    BY <1>3
<1>11. ASSUME NEW m \in net'
       PROVE  MsgGood(h, m)
  <2>1. CASE m \in n.msgs
      BY <2>1 DEF NodeGood, OutGood, Outgoing
  <2>2. CASE m \in net
    <3>1. MsgGood(g, m) /\ m \in MessageType
        BY <1>1, <2>2 DEF Explains
    <3> QED BY <1>1, <3>1, MsgContinues
  <2> QED BY <1>10, <2>1, <2>2
<1>12. \A j \in Server : NodeGood(h, node'[j]) /\ DiskGood(h, disk'[j], node'[j])
    BY <1>6, <1>7, <1>8, <1>9
<1>13. Moved(i, n)
    BY <1>4, <1>8, <1>9, <1>10 DEF Moved
<1> QED BY <1>11, <1>12, <1>13 DEF Explains

LEMMA NewRaftFields ==
    ASSUME NEW i \in Server, NEW d \in DiskType, d.committed <= Len(d.log)
    PROVE  LET r == NewRaft(i, d)
           IN  r.log = d.log /\ r.committed = d.committed /\ r.lead = Nil /\ ~r.fatal
<1>1. ~(d.committed > Len(d.log))
  <2>1. d.committed \in Nat /\ d.log \in Seq(EntryType)
      BY DEF DiskType
  <2>2. Len(d.log) \in Nat
      BY <2>1
  <2> QED BY <2>1, <2>2
<1> QED BY <1>1 DEF NewRaft, become_follower, reset

(* A new Raft object is explained when what it was loaded from is.         *)
LEMMA NewRaftGood ==
    ASSUME NEW h, NEW i \in Server, NEW d \in DiskType, d.committed <= Len(d.log), d.term >= 1,
           Agrees(h, d.log), \A k \in 1..Len(d.log) : d.log[k].term <= d.term,
           Settled(h, d.log, d.committed, d.term),
           \A t, k \in Nat : 1 <= k /\ k <= h.acked[i][t]
               => t <= d.term /\ (Same(h.log[t], d.log, k) \/ Lacks(h, t, k, d.term)),
           h.vote[i][d.term] = d.vote, \A t \in Nat : t > d.term => h.vote[i][t] = Nil
    PROVE  NodeGood(h, NewRaft(i, d))
<1> DEFINE r == NewRaft(i, d)
<1>1. /\ r.id = i /\ r.msgs = {} /\ r.state = "Follower" /\ r.term = d.term /\ r.vote = d.vote
    BY NewRaftNode
<1>2. r.log = d.log /\ r.committed = d.committed /\ r.lead = Nil /\ ~r.fatal
    BY NewRaftFields
<1> HIDE DEF r
<1>3. LogGood(h, r)
    BY <1>1, <1>2 DEF LogGood
<1>4. AckGood(h, r)
    BY <1>1, <1>2 DEF AckGood
<1>5. VoteGood(h, r)
    BY <1>1 DEF VoteGood
<1>6. LeadGood(h, r)
    BY <1>1, <1>2, ServerAssumption DEF LeadGood
<1>7. OutGood(h, r)
    BY <1>1 DEF OutGood
<1>8. NodeGood(h, r)
    BY <1>2, <1>3, <1>4, <1>5, <1>6, <1>7 DEF NodeGood
<1> QED BY <1>8 DEF r

LEMMA RestartGood ==
    ASSUME TypeInv, NEW g, Explains(g), NEW i \in Server, Restart(i)
    PROVE  Explains(g)' /\ NodeGood(g, NewRaft(i, disk[i])) /\ Moved(i, NewRaft(i, disk[i]))
<1> DEFINE n == node[i]
           d == disk[i]
           r == NewRaft(i, d)
<1>1. /\ node \in [Server -> NodeType] /\ HistoryGood(g) /\ NodeGood(g, n) /\ n.id = i
      /\ d \in DiskType /\ DiskGood(g, d, n) /\ d.committed <= Len(d.log)
    BY Explained DEF TypeInv, TypeOK
<1>2. d.log = n.log /\ d.term = n.term /\ d.vote = n.vote /\ Settled(g, d.log, d.committed, d.term)
    BY <1>1 DEF DiskGood
<1>3. node' = [node EXCEPT ![i] = r] /\ net' = net /\ disk' = disk
    BY DEF Restart
<1> HIDE DEF n, d
<1>4. d.term >= 1 /\ Agrees(g, d.log) /\ \A k \in 1..Len(d.log) : d.log[k].term <= d.term
    BY <1>1, <1>2, Zenon DEF NodeGood, LogGood
<1>5. \A t, k \in Nat : 1 <= k /\ k <= g.acked[i][t]
         => t <= d.term /\ (Same(g.log[t], d.log, k) \/ Lacks(g, t, k, d.term))
    BY <1>1, <1>2, Zenon DEF NodeGood, AckGood
<1>6. g.vote[i][d.term] = d.vote /\ \A t \in Nat : t > d.term => g.vote[i][t] = Nil
    BY <1>1, <1>2, Zenon DEF NodeGood, VoteGood
<1>7. NodeGood(g, r)
    BY <1>1, <1>2, <1>4, <1>5, <1>6, NewRaftGood
<1>8. r.log = d.log /\ r.term = d.term /\ r.vote = d.vote
    BY <1>1, NewRaftNode, NewRaftFields
<1>9. DiskGood(g, d, r)
    BY <1>2, <1>8 DEF DiskGood
<1> HIDE DEF r
<1>10. node'[i] = r /\ disk'[i] = d /\ \A j \in Server \ {i} : node'[j] = node[j] /\ disk'[j] = disk[j]
    BY <1>1, <1>3 DEF d
<1>11. \A j \in Server : NodeGood(g, node'[j]) /\ DiskGood(g, disk'[j], node'[j])
    BY <1>7, <1>9, <1>10 DEF Explains
<1>12. \A m \in net' : MsgGood(g, m)
    BY <1>3 DEF Explains
<1>13. Explains(g)'
    BY <1>1, <1>11, <1>12 DEF Explains
<1>14. Moved(i, r)
    BY <1>3, <1>10 DEF Moved
<1> QED BY <1>7, <1>13, <1>14 DEF r, d

(* What a step does to a state that g explains.                            *)
LEMMA StepGood ==
    ASSUME TypeInv, WalDurable, ~PreVote, NEW g, Explains(g), Next
    PROVE  \E i \in Server : \E h, n :
              /\ HistoryGood(h) /\ Continues(g, h, i) /\ Explains(h)'
              /\ NodeGood(h, n) /\ n.id = i /\ Moved(i, n)
<1>1. PICK i \in Server : \/ \E r : Result(g, i, r) /\ pull_ready_events(i, r)
                          \/ Restart(i)
    BY NextResult
<1>2. CASE Restart(i)
  <2> DEFINE r == NewRaft(i, disk[i])
  <2>1. Explains(g)' /\ NodeGood(g, r) /\ Moved(i, r)
      BY <1>2, RestartGood
  <2>2. HistoryGood(g) /\ Continues(g, g, i)
      BY ContinuesRefl DEF Explains, HistoryGood
  <2>3. r.id = i
      BY NewRaftNode DEF TypeInv, TypeOK
  <2> HIDE DEF r
  <2> QED BY <2>1, <2>2, <2>3
<1>3. CASE \E r : Result(g, i, r) /\ pull_ready_events(i, r)
  <2>1. PICK r : Result(g, i, r) /\ pull_ready_events(i, r)
      BY <1>3
  <2>2. PICK h : /\ HistoryGood(h) /\ Continues(g, h, i)
                 /\ NodeOK(r) /\ NodeGood(h, r) /\ r.id = i
      BY <2>1 DEF Result
  <2>3. Explains(h)' /\ Moved(i, r)
      BY <2>1, <2>2, ReadyGood
  <2> QED BY <2>2, <2>3
<1> QED BY <1>1, <1>2, <1>3

-----------------------------------------------------------------------------
(* The bootstrap: everyone holds, and has acknowledged, the log of term 1. *)

LEMMA EveryoneIsQuorum == Quorum(Server)
<1> DEFINE N == Cardinality(Server)
<1>1. N \in Nat
    BY ServerAssumption, FS_CardinalityType
<1>2. N # 0
    BY ServerAssumption, FS_EmptySet
<1> HIDE DEF N
<1>3. N >= N \div 2 + 1
    BY <1>1, <1>2
<1> QED BY <1>3 DEF Quorum, quorum, N

LEMMA ExplainsInit == Init => \E h : Explains(h)
<1> SUFFICES ASSUME Init PROVE \E h : Explains(h)
    OBVIOUS
<1> DEFINE b == Bootstrap
           L == b.log
           N == Len(L)
           l == [t \in Nat |-> IF t = 1 THEN L ELSE <<>>]
           a == [q \in Server |-> [t \in Nat |-> IF t = 1 THEN N ELSE 0]]
           v == [q \in Server |-> [t \in Nat |-> Nil]]
           w == [t \in Nat |-> Nil]
           s == [q \in Server |-> [t \in Nat |-> <<>>]]
           h == History(l, a, v, w, s)
<1>1. b \in DiskType /\ b.committed <= Len(b.log)
    BY BootstrapDisk
<1>2. L \in Seq(EntryType) /\ N \in Nat /\ b.committed \in Nat /\ b.committed <= N
    BY <1>1 DEF DiskType
<1>3. b.term = 1 /\ b.vote = Nil /\ \A k \in 1..N : L[k].term = 1
  <2> DEFINE C == Cardinality(Server)
             log == [k \in 1..C |-> Entry(1, "conf")]
  <2>1. C \in Nat
      BY ServerAssumption, FS_CardinalityType
  <2> HIDE DEF C
  <2>2. Len(log) = C /\ \A k \in 1..C : log[k] = Entry(1, "conf")
      BY <2>1
  <2>3. Entry(1, "conf").term = 1
      BY DEF Entry
  <2>4. b.log = log /\ b.term = 1 /\ b.vote = Nil
      BY DEF Bootstrap, C
  <2> HIDE DEF log, b
  <2> QED BY <2>2, <2>3, <2>4
<1> HIDE DEF b
<1>4. <<>> \in Seq(EntryType) /\ Nil \in Id /\ 0 \in Nat
    BY DEF Id
<1> HIDE DEF L, N
<1>5. h \in HistoryType
  <2>1. l \in [Nat -> Seq(EntryType)]
      BY <1>2, <1>4
  <2>2. a \in [Server -> [Nat -> Nat]]
      BY <1>2
  <2>3. v \in [Server -> [Nat -> Id]]
      BY <1>4
  <2>4. w \in [Nat -> Id]
      BY <1>4
  <2>5. s \in [Server -> [Nat -> Seq(EntryType)]]
      BY <1>4
  <2> HIDE DEF l, a, v, w, s
  <2> QED BY <2>1, <2>2, <2>3, <2>4, <2>5, Zenon DEF HistoryType, History
<1>6. /\ \A t \in Nat : h.log[t] = (IF t = 1 THEN L ELSE <<>>) /\ h.winner[t] = Nil
      /\ \A q \in Server, t \in Nat : /\ h.acked[q][t] = (IF t = 1 THEN N ELSE 0)
                                      /\ h.vote[q][t] = Nil /\ h.stood[q][t] = <<>>
    BY DEF History
<1> HIDE DEF h
<1>7. Agrees(h, L) /\ Agrees(h, <<>>)
  <2>1. ASSUME NEW k \in 1..Len(L)
        PROVE  L[k].term >= 1 /\ Same(h.log[L[k].term], L, k)
    <3>1. L[k].term = 1 /\ h.log[1] = L
        BY <1>3, <1>6, <2>1 DEF N
    <3> QED BY <1>2, <3>1 DEF Same, N
  <2> QED BY <2>1 DEF Agrees
<1>8. LogsGood(h)
  <2> SUFFICES ASSUME NEW t \in Nat
               PROVE  /\ Agrees(h, h.log[t])
                      /\ \A k \in 1..Len(h.log[t]) : h.log[t][k].term <= t
                      /\ h.log[t] # <<>> => h.log[t][Len(h.log[t])].term = t
      BY DEF LogsGood
  <2>1. CASE t = 1
    <3>1. h.log[t] = L
        BY <1>6, <2>1
    <3>2. L # <<>> => Len(L) \in 1..Len(L)
        BY <1>2
    <3> QED BY <1>3, <1>7, <2>1, <3>1, <3>2 DEF N
  <2>2. CASE t # 1
    <3>1. h.log[t] = <<>>
        BY <1>6, <2>2
    <3> QED BY <1>7, <3>1
  <2> QED BY <2>1, <2>2
<1>9. AcksGood(h)
    BY <1>2, <1>6 DEF AcksGood, N
<1>10. WinnersGood(h)
    BY <1>6 DEF WinnersGood
<1>11. VotersGood(h) /\ StoodGood(h)
    BY <1>6, ServerAssumption DEF VotersGood, StoodGood
<1>12. HistoryGood(h)
    BY <1>5, <1>8, <1>9, <1>10, <1>11 DEF HistoryGood
<1>13. Settled(h, L, b.committed, b.term)
  <2>1. CASE b.committed = 0
      BY <2>1 DEF Settled
  <2>2. CASE b.committed # 0
    <3>1. N \in 1..N /\ N = Len(L)
        BY <1>2, <2>2 DEF N
    <3>2. h.log[1] = L
        BY <1>6
    <3>3. \A q \in Server : N <= h.acked[q][1]
        BY <1>2, <1>6
    <3>4. Chosen(h, 1, N)
        BY <1>3, <3>1, <3>2, <3>3, EveryoneIsQuorum DEF Chosen
    <3>5. Same(h.log[1], L, b.committed)
        BY <1>2, <3>1, <3>2 DEF Same
    <3> QED BY <1>2, <1>3, <3>4, <3>5 DEF Settled
  <2> QED BY <2>1, <2>2
<1>14. ASSUME NEW i \in Server
       PROVE  NodeGood(h, node[i]) /\ DiskGood(h, disk[i], node[i])
  <2>1. node[i] = NewRaft(i, b) /\ disk[i] = b
      BY DEF Init, b
  <2>2. \A t, k \in Nat : 1 <= k /\ k <= h.acked[i][t]
           => t <= b.term /\ (Same(h.log[t], L, k) \/ Lacks(h, t, k, b.term))
    <3> TAKE t, k \in Nat
    <3> HAVE 1 <= k /\ k <= h.acked[i][t]
    <3>1. t = 1 /\ k <= N
        BY <1>6
    <3>2. h.log[t] = L
        BY <1>6, <3>1
    <3> QED BY <1>3, <3>1, <3>2 DEF Same, N
  <2>3. b.term >= 1 /\ \A k \in 1..Len(L) : L[k].term <= b.term
      BY <1>3 DEF N
  <2>4. h.vote[i][b.term] = b.vote /\ \A t \in Nat : t > b.term => h.vote[i][t] = Nil
      BY <1>3, <1>6
  <2>5. NodeGood(h, NewRaft(i, b))
      BY <1>1, <1>7, <1>13, <2>2, <2>3, <2>4, NewRaftGood DEF L
  <2>6. NewRaft(i, b).log = b.log /\ NewRaft(i, b).term = b.term /\ NewRaft(i, b).vote = b.vote
      BY <1>1, NewRaftNode, NewRaftFields
  <2> QED BY <1>13, <2>1, <2>5, <2>6 DEF DiskGood, L
<1>15. net = {}
    BY DEF Init
<1>16. Explains(h)
    BY <1>12, <1>14, <1>15 DEF Explains
<1> QED BY <1>16

(* The inductive invariant: some history explains the state.               *)
SafetyInv == TypeInv /\ \E h : Explains(h)

LEMMA SafetyInvStep ==
    ASSUME WalDurable, ~PreVote, SafetyInv, [Next]_vars
    PROVE  SafetyInv'
<1>1. TypeInv'
    BY TypeInvStep DEF SafetyInv
<1>2. CASE Next
  <2>1. PICK g : Explains(g)
      BY DEF SafetyInv
  <2>2. \E h : Explains(h)'
      BY <1>2, <2>1, StepGood DEF SafetyInv
  <2> QED BY <1>1, <2>2 DEF SafetyInv
<1>3. CASE UNCHANGED vars
    BY <1>1, <1>3 DEF SafetyInv, Explains, vars
<1> QED BY <1>2, <1>3

LEMMA SafetyInvHolds ==
    ASSUME WalDurable, ~PreVote
    PROVE  Spec => []SafetyInv
<1>1. Init => SafetyInv
    BY TypeInvInit, ExplainsInit DEF SafetyInv
<1>2. SafetyInv /\ [Next]_vars => SafetyInv'
    BY SafetyInvStep
<1> QED BY <1>1, <1>2, PTL DEF Spec

-----------------------------------------------------------------------------
(* What an explained state cannot do.                                      *)

LEMMA SamePrefix ==
    ASSUME NEW a \in Seq(EntryType), NEW b \in Seq(EntryType), NEW k \in Nat, Same(a, b, k)
    PROVE  SubSeq(a, 1, k) = SubSeq(b, 1, k)
<1> DEFINE p == SubSeq(a, 1, k)
           q == SubSeq(b, 1, k)
<1>1. k <= Len(a) /\ k <= Len(b) /\ \A x \in 1..k : a[x] = b[x]
    BY DEF Same
<1>2. p \in Seq(EntryType) /\ q \in Seq(EntryType)
    BY <1>1, SubSeqType
<1>3. 1 \in Nat \ {0} /\ 1 <= k + 1 /\ k - 1 + 1 = k
    OBVIOUS
<1>4. Len(p) = k /\ \A x \in 1..k : p[x] = a[1 + x - 1]
    BY <1>1, <1>3, SubSeqItems
<1>5. Len(q) = k /\ \A x \in 1..k : q[x] = b[1 + x - 1]
    BY <1>1, <1>3, SubSeqItems
<1>6. \A x \in 1..k : 1 + x - 1 = x
    OBVIOUS
<1> HIDE DEF p, q
<1>7. Len(p) = Len(q) /\ \A x \in 1..Len(p) : p[x] = q[x]
    BY <1>1, <1>4, <1>5, <1>6
<1>8. p = q
    BY <1>2, <1>7, SeqEqual
<1> QED BY <1>8 DEF p, q

LEMMA WholePrefix ==
    ASSUME NEW a \in Seq(EntryType)
    PROVE  SubSeq(a, 1, Len(a)) = a
<1> DEFINE p == SubSeq(a, 1, Len(a))
           k == Len(a)
<1>1. k \in Nat
    OBVIOUS
<1>2. p \in Seq(EntryType)
    BY <1>1, SubSeqType
<1>3. 1 \in Nat \ {0} /\ 1 <= k + 1 /\ k - 1 + 1 = k /\ k <= Len(a)
    BY <1>1
<1>4. Len(p) = k /\ \A x \in 1..k : p[x] = a[1 + x - 1]
    BY <1>1, <1>3, SubSeqItems
<1>5. \A x \in 1..k : 1 + x - 1 = x
    BY <1>1
<1> HIDE DEF p
<1>6. Len(p) = Len(a) /\ \A x \in 1..Len(p) : p[x] = a[x]
    BY <1>4, <1>5
<1>7. p = a
    BY <1>2, <1>6, SeqEqual
<1> QED BY <1>7 DEF p

(* What a server of term t acknowledged to the leader of term t it holds.  *)
LEMMA AckedIsHeld ==
    ASSUME NEW h, HistoryGood(h), NEW n, NodeOK(n), NodeGood(h, n), NEW t \in Nat, n.term <= t,
           NEW k \in Nat, 1 <= k, k <= h.acked[n.id][t]
    PROVE  Same(h.log[t], n.log, k)
<1>1. n.term \in Nat
    BY NodeFields
<1>2. t <= n.term /\ (Same(h.log[t], n.log, k) \/ Lacks(h, t, k, n.term))
    BY DEF NodeGood, AckGood
<1>3. t = n.term
    BY <1>1, <1>2
<1>4. ~Lacks(h, t, k, t)
    BY DEF Lacks
<1> QED BY <1>2, <1>3, <1>4

LEMMA LeadAgreedHolds == SafetyInv => LeadAgreed
BY DEF SafetyInv, Explains, NodeGood, LeadGood, LeadAgreed

LEMMA NoFatalHolds == SafetyInv => NoFatal
BY DEF SafetyInv, Explains, NodeGood, NoFatal, Alive

LEMMA LogMatchingHolds == SafetyInv => LogMatching
<1> SUFFICES ASSUME SafetyInv, NEW i \in Server, NEW j \in Server,
                    NEW k \in DOMAIN node[i].log \cap DOMAIN node[j].log,
                    node[i].log[k].term = node[j].log[k].term
             PROVE  SubSeq(node[i].log, 1, k) = SubSeq(node[j].log, 1, k)
    BY DEF LogMatching
<1>1. PICK h : TypeInv /\ Explains(h)
    BY DEF SafetyInv
<1> DEFINE a == node[i].log
           b == node[j].log
           w == a[k].term
<1>2. a \in Seq(EntryType) /\ b \in Seq(EntryType) /\ HistoryGood(h) /\ Agrees(h, a) /\ Agrees(h, b)
    BY <1>1, Explained, NodeFields DEF NodeGood, LogGood
<1>3. k \in 1..Len(a) /\ k \in 1..Len(b) /\ k \in Nat
    BY <1>2
<1>4. w \in Nat /\ w = b[k].term
    BY <1>2, <1>3, EntryTerm
<1>5. Same(h.log[w], a, k) /\ Same(h.log[w], b, k)
    BY <1>2, <1>3, <1>4 DEF Agrees
<1>6. h.log[w] \in Seq(EntryType)
    BY <1>2, <1>4, HistoryFields DEF HistoryGood
<1> HIDE DEF a, b, w
<1>7. Same(a, b, k)
  <2>1. Same(a, h.log[w], k)
      BY <1>2, <1>3, <1>5, <1>6, SameFacts
  <2> QED BY <1>2, <1>3, <1>5, <1>6, <2>1, SameFacts
<1> QED BY <1>2, <1>3, <1>7, SamePrefix DEF a, b

LEMMA StateMachineSafetyHolds == SafetyInv => StateMachineSafety
<1> SUFFICES ASSUME SafetyInv, NEW i \in Server, NEW j \in Server,
                    NEW k \in 1..node[i].committed, k <= node[j].committed
             PROVE  node[i].log[k] = node[j].log[k]
    BY DEF StateMachineSafety
<1>1. PICK h : TypeInv /\ Explains(h)
    BY DEF SafetyInv
<1>2. ASSUME NEW q \in Server
      PROVE  /\ node[q].log \in Seq(EntryType) /\ node[q].committed \in Nat /\ node[q].term \in Nat
             /\ Settled(h, node[q].log, node[q].committed, node[q].term) /\ HistoryGood(h)
    BY <1>1, Explained, NodeFields DEF NodeGood, LogGood
<1> DEFINE a == node[i].log
           b == node[j].log
           x == node[i].committed
           y == node[j].committed
           u == node[i].term
           v == node[j].term
<1>3. /\ a \in Seq(EntryType) /\ b \in Seq(EntryType) /\ x \in Nat /\ y \in Nat
      /\ u \in Nat /\ v \in Nat /\ Settled(h, a, x, u) /\ Settled(h, b, y, v)
      /\ HistoryGood(h) /\ k \in Nat /\ 1 <= k /\ k <= x /\ k <= y
    BY <1>2
<1> HIDE DEF a, b, x, y, u, v
<1>4. \A l \in Nat : 1 <= l /\ l <= x /\ l <= y => a[l] = b[l]
    BY <1>3, SettledAgree
<1>5. a[k] = b[k]
    BY <1>3, <1>4
<1> QED BY <1>5 DEF a, b

LEMMA ElectableHolds == SafetyInv => ElectableHoldsCommitted
<1> SUFFICES ASSUME SafetyInv, NEW i \in Server, NEW j \in Server, Electable(j)
             PROVE  /\ node[i].committed <= last_index(node[j])
                    /\ \A k \in 1..node[i].committed : node[i].log[k] = node[j].log[k]
    BY DEF ElectableHoldsCommitted
<1>1. PICK h : TypeInv /\ Explains(h)
    BY DEF SafetyInv
<1> DEFINE c == node[i].committed
           a == node[i].log
           b == node[j].log
           u == node[j].term
<1>2. ASSUME NEW q \in Server
      PROVE  /\ node[q].log \in Seq(EntryType) /\ node[q].committed \in Nat /\ node[q].term \in Nat
             /\ HistoryGood(h) /\ LogGood(h, node[q]) /\ AckGood(h, node[q]) /\ node[q].id = q
    BY <1>1, Explained, NodeFields DEF NodeGood
<1>3. /\ a \in Seq(EntryType) /\ b \in Seq(EntryType) /\ c \in Nat /\ u \in Nat
      /\ Settled(h, a, c, node[i].term) /\ Agrees(h, b) /\ \A x \in 1..Len(b) : b[x].term <= u
      /\ HistoryGood(h) /\ \A t \in Nat : h.log[t] \in Seq(EntryType)
    BY <1>2, HistoryFields DEF LogGood, HistoryGood
<1>4. Same(a, b, c)
  <2>1. CASE c = 0
      BY <1>3, <2>1 DEF Same
  <2>2. CASE c # 0
    <3>1. PICK t, k \in Nat : c <= k /\ Chosen(h, t, k) /\ Same(h.log[t], a, c)
        BY <1>3, <2>2 DEF Settled
    <3>2. PICK P : Quorum(P) /\ \A q \in P : k <= h.acked[q][t]
        BY <3>1 DEF Chosen
    <3> DEFINE Q == {q \in Server : is_up_to_date(node[q], last_index(node[j]), last_term(node[j]))}
    <3>3. Quorum(Q)
        BY DEF Electable, Quorum
    <3>4. PICK q \in Server : q \in P /\ q \in Q
      <4> HIDE DEF Q
      <4> QED BY <3>2, <3>3, QuorumsMeet
    <3> DEFINE d == node[q].log
    <3>5. /\ d \in Seq(EntryType) /\ Agrees(h, d) /\ node[q].id = q /\ AckGood(h, node[q])
        BY <1>2 DEF LogGood
    <3>6. 1 <= k /\ k <= Len(h.log[t]) /\ h.log[t][k].term = t
        BY <1>3, <3>1 DEF Chosen
    <3>7. Same(h.log[t], d, k)
      <4>1. Same(h.log[t], d, k) \/ Lacks(h, t, k, node[q].term)
          BY <3>2, <3>4, <3>5, <3>6 DEF AckGood
      <4> QED BY <1>3, <3>1, <4>1, ChosenNotLacking
    <3>8. LastTerm(b) > LastTerm(d) \/ (LastTerm(b) = LastTerm(d) /\ Len(b) >= Len(d))
      <4>1. ASSUME NEW s \in Server
            PROVE  last_index(node[s]) = Len(node[s].log) /\ last_term(node[s]) = LastTerm(node[s].log)
        <5>1. Len(node[s].log) \in DOMAIN node[s].log <=> Len(node[s].log) # 0
            BY <1>2
        <5> QED BY <5>1 DEF last_index, last_term, log_term, LastTerm
      <4> QED BY <3>4, <4>1 DEF is_up_to_date
    <3> HIDE DEF d, b, u, a, c
    <3>9. Same(h.log[t], b, k) \/ Lacks(h, t, k, u)
        BY <1>3, <3>5, <3>6, <3>7, <3>8, UpToDateHolds
    <3>10. Same(h.log[t], b, k)
        BY <1>3, <3>1, <3>9, ChosenNotLacking
    <3>11. Same(h.log[t], b, c)
        BY <1>3, <3>1, <3>10, SameFacts
    <3>12. Same(a, h.log[t], c)
      <4>1. Same(h.log[t], a, c) /\ h.log[t] \in Seq(EntryType)
          BY <1>3, <3>1
      <4> QED BY <1>3, <4>1, SameFacts
    <3> QED BY <1>3, <3>11, <3>12, SameFacts
  <2> QED BY <2>1, <2>2
<1> QED BY <1>4 DEF Same, last_index

LEMMA MatchIsHeldHolds == SafetyInv => MatchIsHeld
<1> SUFFICES ASSUME SafetyInv, NEW i \in Server, NEW j \in Server, IsLeader(i),
                    node[j].term <= node[i].term
             PROVE  LET match == node[i].prs[j].match
                    IN  /\ match <= last_index(node[j])
                        /\ SubSeq(node[i].log, 1, match) = SubSeq(node[j].log, 1, match)
    BY DEF MatchIsHeld
<1>1. PICK h : TypeInv /\ Explains(h)
    BY DEF SafetyInv
<1> DEFINE n == node[i]
           q == node[j]
           x == n.prs[j].match
<1>2. /\ HistoryGood(h) /\ NodeOK(n) /\ NodeGood(h, n) /\ n.state = "Leader"
      /\ NodeOK(q) /\ NodeGood(h, q) /\ q.id = j /\ q.log \in Seq(EntryType)
    BY <1>1, Explained, NodeFields DEF IsLeader
<1>3. /\ n.term \in Nat /\ n.log \in Seq(EntryType) /\ h.log[n.term] = n.log /\ x \in Nat
      /\ x <= h.acked[j][n.term]
    BY <1>2, LeaderFacts
<1>4. Same(n.log, q.log, x)
  <2>1. CASE x = 0
      BY <1>2, <1>3, <2>1 DEF Same
  <2>2. CASE x # 0
    <3>1. 1 <= x
        BY <1>3, <2>2
    <3>2. q.term <= n.term
        OBVIOUS
    <3> HIDE DEF n, q, x
    <3>3. Same(h.log[n.term], q.log, x)
        BY <1>2, <1>3, <3>1, <3>2, AckedIsHeld
    <3> QED BY <1>3, <3>3
  <2> QED BY <2>1, <2>2
<1> HIDE DEF n, q, x
<1>5. x <= Len(q.log) /\ SubSeq(n.log, 1, x) = SubSeq(q.log, 1, x)
    BY <1>2, <1>3, <1>4, SamePrefix DEF Same
<1> QED BY <1>5 DEF n, q, x, last_index

-----------------------------------------------------------------------------
(* Steps from one explained state to the next.                             *)

LEMMA LeaderAppendStep ==
    ASSUME WalDurable, ~PreVote, SafetyInv, Next, NEW i \in Server, IsLeader(i),
           node'[i].state = "Leader", node'[i].term = node[i].term
    PROVE  /\ last_index(node'[i]) >= last_index(node[i])
           /\ SubSeq(node'[i].log, 1, last_index(node[i])) = node[i].log
<1>1. PICK g : TypeInv /\ Explains(g)
    BY DEF SafetyInv
<1>2. PICK j \in Server : \E h, n :
        /\ HistoryGood(h) /\ Continues(g, h, j) /\ Explains(h)'
        /\ NodeGood(h, n) /\ n.id = j /\ Moved(j, n)
    BY <1>1, StepGood
<1>3. PICK h : HistoryGood(h) /\ Continues(g, h, j) /\ Explains(h)'
    BY <1>2
<1> DEFINE t == node[i].term
           a == node[i].log
           b == node'[i].log
<1>4. t \in Nat /\ a \in Seq(EntryType) /\ g.log[t] = a /\ HistoryGood(g)
    BY <1>1, Explained, LeaderFacts DEF IsLeader
<1>5. NodeGood(h, node'[i])
    BY <1>3 DEF Explains
<1>6. h.log[t] = b
    BY <1>5 DEF NodeGood, LeadGood
<1>7. b \in Seq(EntryType)
    BY <1>3, <1>4, <1>6, HistoryFields DEF HistoryGood
<1>8. Same(a, b, Len(a))
    BY <1>3, <1>4, <1>6 DEF Continues, Grows
<1> HIDE DEF a, b
<1>9. Len(a) \in Nat /\ Len(b) \in Nat /\ Len(a) <= Len(b)
    BY <1>4, <1>7, <1>8 DEF Same
<1>10. SubSeq(a, 1, Len(a)) = SubSeq(b, 1, Len(a))
    BY <1>4, <1>7, <1>8, <1>9, SamePrefix
<1>11. SubSeq(b, 1, Len(a)) = a
    BY <1>4, <1>10, WholePrefix
<1> QED BY <1>9, <1>11 DEF a, b, last_index

LEMMA TransferStep ==
    ASSUME WalDurable, ~PreVote, SafetyInv, Next, NEW m \in net' \ net,
           m.type = "MsgTimeoutNow", node[m.to].term <= m.term
    PROVE  /\ last_index(node[m.to]) >= last_index(node'[m.from])
           /\ SubSeq(node[m.to].log, 1, last_index(node'[m.from])) = node'[m.from].log
<1>1. PICK g : TypeInv /\ Explains(g)
    BY DEF SafetyInv
<1>2. PICK i \in Server : \E h, n :
        /\ HistoryGood(h) /\ Continues(g, h, i) /\ Explains(h)'
        /\ NodeGood(h, n) /\ n.id = i /\ Moved(i, n)
    BY <1>1, StepGood
<1>3. PICK h, n : /\ HistoryGood(h) /\ Continues(g, h, i) /\ Explains(h)'
                  /\ NodeGood(h, n) /\ n.id = i /\ Moved(i, n)
    BY <1>2
<1> DEFINE t == n.term
           q == node[m.to]
           a == n.log
           k == Len(a)
<1>4. m \in n.msgs /\ m \in MessageType
  <2>1. TypeInv'
      BY TypeInvStep DEF SafetyInv
  <2> QED BY <1>3, <2>1 DEF Moved, TypeInv, TypeOK
<1>5. /\ MsgGood(h, m) /\ n.state = "Leader" /\ m.from = i /\ m.term = t
      /\ k <= h.acked[m.to][t]
    BY <1>3, <1>4 DEF NodeGood, OutGood, Outgoing
<1>6. m.to \in Server /\ m.to # i /\ t \in Nat
    BY <1>4, <1>5, MessageFields DEF MsgGood
<1>7. /\ HistoryGood(g) /\ NodeOK(q) /\ NodeGood(g, q) /\ q.id = m.to /\ q.term <= t
      /\ q.log \in Seq(EntryType)
    BY <1>1, <1>5, <1>6, Explained, NodeFields
<1>8. h.log[t] = a /\ h.winner[t] = i
    BY <1>3, <1>5 DEF NodeGood, LeadGood
<1>9. a # <<>> /\ a \in Seq(EntryType)
  <2>1. Nil # i
      BY ServerAssumption
  <2>2. a # <<>>
      BY <1>3, <1>6, <1>8, <2>1 DEF HistoryGood, WinnersGood
  <2> QED BY <1>3, <1>6, <1>8, <2>2, HistoryFields DEF HistoryGood
<1>10. k \in Nat /\ 1 <= k
    BY <1>9
<1>11. k <= g.acked[q.id][t] /\ k <= g.acked[m.to][t]
    BY <1>3, <1>5, <1>6, <1>7 DEF Continues
<1>12. g.log[t] \in Seq(EntryType) /\ g.acked[m.to][t] <= Len(g.log[t]) /\ g.acked[m.to][t] \in Nat
    BY <1>6, <1>7, HistoryFields DEF HistoryGood, AcksGood
<1>13. Same(g.log[t], a, Len(g.log[t]))
    BY <1>3, <1>6, <1>8 DEF Continues, Grows
<1>14. Same(g.log[t], q.log, k)
  <2> HIDE DEF q, t, k
  <2> QED BY <1>6, <1>7, <1>10, <1>11, AckedIsHeld
<1>15. node'[m.from].log = a
    BY <1>3, <1>5 DEF Moved
<1> HIDE DEF q, a, t
<1>16. Same(a, q.log, k)
  <2>1. k <= Len(g.log[t]) /\ Len(g.log[t]) \in Nat
      BY <1>10, <1>11, <1>12
  <2> HIDE DEF k
  <2>2. Same(a, g.log[t], Len(g.log[t]))
      BY <1>9, <1>12, <1>13, <2>1, SameFacts
  <2>3. Same(a, g.log[t], k)
      BY <1>9, <1>10, <1>12, <2>1, <2>2, SameFacts
  <2> QED BY <1>7, <1>9, <1>10, <1>12, <1>14, <2>3, SameFacts
<1>17. k <= Len(q.log) /\ Len(q.log) \in Nat
    BY <1>7, <1>16 DEF Same
<1>18. SubSeq(a, 1, k) = SubSeq(q.log, 1, k)
  <2> HIDE DEF k
  <2> QED BY <1>7, <1>9, <1>10, <1>16, SamePrefix
<1>19. SubSeq(q.log, 1, k) = a
    BY <1>9, <1>18, WholePrefix
<1> QED BY <1>10, <1>15, <1>17, <1>19 DEF q, last_index

-----------------------------------------------------------------------------
(* The theorems.  All assume that the WAL keeps what it synced and that    *)
(* Pre-Vote is off: with it two leaders of one term are possible (run      *)
(* raft_pre_vote_elections), and what rests on one leader per term fails.  *)

(* Servers of one term follow one leader, whatever heard_leader and        *)
(* become_follower were told, and by which late message.                   *)
THEOREM LeadersAgreed ==
    ASSUME WalDurable, ~PreVote
    PROVE  Spec => []LeadAgreed
BY SafetyInvHolds, LeadAgreedHolds, PTL

(* No message and no restart drives a server into LOG_FATAL: append never  *)
(* truncates below the commit index, commit_to never goes beyond the log,  *)
(* send never meets a wrong term, load_state never refuses the hard state. *)
THEOREM NeverFatal ==
    ASSUME WalDurable, ~PreVote
    PROVE  Spec => []NoFatal
BY SafetyInvHolds, NoFatalHolds, PTL

(* Logs that share an entry share everything before it (maybe_append).     *)
THEOREM LogsMatch ==
    ASSUME WalDurable, ~PreVote
    PROVE  Spec => []LogMatching
BY SafetyInvHolds, LogMatchingHolds, PTL

(* No two servers hand different entries of the same index to the store.   *)
THEOREM StateMachinesAgree ==
    ASSUME WalDurable, ~PreVote
    PROVE  Spec => []StateMachineSafety
BY SafetyInvHolds, StateMachineSafetyHolds, PTL

(* A server that a quorum would elect holds all that was ever committed,   *)
(* by the voters' is_up_to_date and the leaders' maybe_commit together.    *)
THEOREM ElectableIsComplete ==
    ASSUME WalDurable, ~PreVote
    PROVE  Spec => []ElectableHoldsCommitted
BY SafetyInvHolds, ElectableHolds, PTL

(* The match index that maybe_commit counts is backed by the peer's log,   *)
(* across its crashes, as long as it has not left the term.                *)
THEOREM MatchesAreHeld ==
    ASSUME WalDurable, ~PreVote
    PROVE  Spec => []MatchIsHeld
BY SafetyInvHolds, MatchIsHeldHolds, PTL

(* A leader never overwrites or drops an entry of its own log.             *)
THEOREM LeadersAppend ==
    ASSUME WalDurable, ~PreVote
    PROVE  Spec => LeaderAppendOnly
<1>1. SafetyInv /\ [Next]_vars =>
        [\A i \in Server :
          IsLeader(i) /\ node'[i].state = "Leader" /\ node'[i].term = node[i].term
            => /\ last_index(node'[i]) >= last_index(node[i])
               /\ SubSeq(node'[i].log, 1, last_index(node[i])) = node[i].log]_vars
    BY LeaderAppendStep
<1> QED BY <1>1, SafetyInvHolds, PTL DEF Spec, LeaderAppendOnly

(* MsgTimeoutNow goes only to a server that already holds the whole log of *)
(* the leader that sends it (handle_app_resp, handle_transfer_leader).     *)
THEOREM TransfersAreSafe ==
    ASSUME WalDurable, ~PreVote
    PROVE  Spec => TransferTargetCaughtUp
<1>1. SafetyInv /\ [Next]_vars =>
        [\A m \in net' \ net :
          m.type = "MsgTimeoutNow" /\ node[m.to].term <= m.term
            => /\ last_index(node[m.to]) >= last_index(node'[m.from])
               /\ SubSeq(node[m.to].log, 1, last_index(node'[m.from])) = node'[m.from].log]_vars
    BY TransferStep
<1> QED BY <1>1, SafetyInvHolds, PTL DEF Spec, TransferTargetCaughtUp

=============================================================================
