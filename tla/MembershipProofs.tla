-------------------------- MODULE MembershipProofs --------------------------
(***************************************************************************)
(* Proofs about module Membership, for every set of servers, every series  *)
(* of proposed changes and every bound: a leader never has more than one   *)
(* configuration change that it has not applied, and a candidate counts    *)
(* votes of its own voters only.                                           *)
(*                                                                         *)
(* Both rest on what a Raft object may be between two events (Type) and on *)
(* one fact about logs: whatever lies beyond a commit index, of a server   *)
(* or of an append under way, holds at most one change.  A restarted       *)
(* server may have lost commit indexes, but none older than its log.       *)
(***************************************************************************)
EXTENDS Membership, SetInduction, FiniteSetTheorems, TLAPS

-----------------------------------------------------------------------------
(* Types.                                                                  *)

Id == Server \cup {Nil}

EntryType ==
    {e \in [term : Nat, op : {"none", "bootstrap", "add", "learner", "remove"},
            id : Id] : e.op \in {"add", "learner", "remove"} => e.id \in Server}

LogType == Seq(EntryType) \ {<<>>}

NodeType ==
    [term : Nat, vote : Id, lead : Id,
     role : {"Follower", "Candidate", "Leader"}, log : LogType,
     committed : Nat, applied : Nat, prs : SUBSET Server,
     learners : SUBSET Server, is_learner : BOOLEAN, votes : SUBSET Server,
     pending : Nat, match : [Server -> Nat]]

MessageType ==
    [type : {"MsgVote"}, from : Server, to : SUBSET Server, term : Nat,
     log_term : Nat, index : Nat]
    \cup [type : {"MsgVoteResp"}, from : Server, to : SUBSET Server, term : Nat]
    \cup [type : {"MsgApp"}, from : Server, to : SUBSET Server, term : Nat,
          log : LogType, commit : Nat]
    \cup [type : {"MsgAppResp"}, from : Server, to : SUBSET Server, term : Nat,
          index : Nat]

(* Applied is at most committed, and committed within the log.             *)
NodeOK(n) ==
    n \in NodeType /\ n.applied <= n.committed /\ n.committed <= Len(n.log)

Type ==
    /\ node \in [Server -> NodeType] /\ net \subseteq MessageType
    /\ restarts \in Nat
    /\ \A i \in Server : NodeOK(node[i])
    /\ \A m \in net : m.type = "MsgApp" => m.commit <= Len(m.log)

-----------------------------------------------------------------------------
(* The inductive invariants.                                               *)

(* Beyond index a the log holds at most one change.                        *)
AtMostOne(log, a) ==
    \A k, l \in (a + 1)..Len(log) : IsConf(log[k]) /\ IsConf(log[l]) => k = l

(* What a leader may take for applied: no change is beyond pending.        *)
PendingCovers(n) ==
    \A k \in (n.applied + 1)..Len(n.log) : IsConf(n.log[k]) => k <= n.pending

ConfOK(n) ==
    /\ AtMostOne(n.log, n.committed)
    /\ n.role # "Follower" => AtMostOne(n.log, n.applied)
    /\ n.role = "Leader" => PendingCovers(n)

(* One change beyond every commit index, one beyond applied on a candidate *)
(* or a leader, none beyond pending on a leader.                           *)
ConfInv ==
    /\ \A i \in Server : ConfOK(node[i])
    /\ \A m \in net : m.type = "MsgApp" => AtMostOne(m.log, m.commit)

(* A candidate has no change left to apply among what is committed.        *)
CandidateOK(i, n) ==
    n.role = "Candidate" =>
        /\ i \in n.prs /\ n.votes \subseteq n.prs
        /\ \A k \in (n.applied + 1)..n.committed : ~IsConf(n.log[k])

(* The requests and the answers of a candidate's own term are those of its *)
(* voters, and no message is of a term its candidate has not reached.      *)
VotersInv ==
    /\ \A i \in Server : CandidateOK(i, node[i])
    /\ \A m \in net :
          /\ m.type = "MsgVote" =>
                /\ m.term <= node[m.from].term
                /\ node[m.from].role = "Candidate" /\ node[m.from].term = m.term
                      => m.to \subseteq node[m.from].prs
          /\ m.type = "MsgVoteResp" =>
                \A j \in m.to :
                    /\ m.term <= node[j].term
                    /\ node[j].role = "Candidate" /\ node[j].term = m.term
                          => m.from \in node[j].prs

Inv == Type /\ ConfInv /\ VotersInv

(* The commit index on disk is of the log there: one change is beyond it.  *)
SavedInv ==
    /\ saved \in [Crashable -> Nat]
    /\ \A i \in Crashable : AtMostOne(node[i].log, saved[i])

-----------------------------------------------------------------------------
(* The methods of Raft.                                                    *)

LEMMA Fields ==
    ASSUME NEW n \in NodeType
    PROVE  /\ n.term \in Nat /\ n.vote \in Id /\ n.lead \in Id
           /\ n.role \in {"Follower", "Candidate", "Leader"}
           /\ n.log \in LogType /\ n.log \in Seq(EntryType) /\ n.log # <<>>
           /\ Len(n.log) \in Nat \ {0}
           /\ n.committed \in Nat /\ n.applied \in Nat
           /\ n.prs \in SUBSET Server /\ n.learners \in SUBSET Server
           /\ n.is_learner \in BOOLEAN /\ n.votes \in SUBSET Server
           /\ n.pending \in Nat /\ n.match \in [Server -> Nat]
    BY DEF NodeType, LogType

LEMMA NormalEntry ==
    ASSUME NEW t \in Nat
    PROVE  Entry(t, Normal) \in EntryType /\ ~IsConf(Entry(t, Normal))
    BY DEF Entry, Normal, EntryType, IsConf, Id

(* What follows a maybe_commit: the commit index may have moved forward    *)
(* within the log.                                                         *)
Committing(n, r) ==
    /\ r = [n EXCEPT !.committed = r.committed]
    /\ r.committed \in Nat /\ n.committed <= r.committed
    /\ r.committed <= Len(n.log)

LEMMA MaybeCommit ==
    ASSUME NEW n, NodeOK(n)
    PROVE  Committing(n, maybe_commit(n)) /\ NodeOK(maybe_commit(n))
<1> DEFINE mci == majority_match(n)
<1>1. n \in NodeType /\ n.committed \in Nat /\ n.applied \in Nat /\ Len(n.log) \in Nat
    BY Fields DEF NodeOK
<1>2. CASE mci \in (n.committed + 1)..Len(n.log) /\ n.log[mci].term = n.term
  <2>1. mci \in Nat /\ n.committed <= mci /\ mci <= Len(n.log)
      BY <1>1, <1>2
  <2>2. maybe_commit(n) = [n EXCEPT !.committed = mci]
      BY <1>2 DEF maybe_commit
  <2> HIDE DEF mci
  <2> QED BY <1>1, <2>1, <2>2 DEF NodeOK, NodeType, Committing
<1>3. CASE ~(mci \in (n.committed + 1)..Len(n.log) /\ n.log[mci].term = n.term)
  <2>1. maybe_commit(n) = n
      BY <1>3 DEF maybe_commit
  <2>2. n = [n EXCEPT !.committed = n.committed]
      BY <1>1 DEF NodeType
  <2> QED BY <1>1, <2>1, <2>2 DEF NodeOK, Committing
<1> QED BY <1>2, <1>3

(* What an object keeps while it applies entries.                          *)
Applying(n, r) ==
    /\ NodeOK(r)
    /\ r.term = n.term /\ r.vote = n.vote /\ r.lead = n.lead
    /\ r.role = n.role /\ r.log = n.log /\ r.applied = n.applied
    /\ r.votes = n.votes /\ r.pending = n.pending
    /\ n.committed <= r.committed

LEMMA ApplyConfChange ==
    ASSUME NEW n, NodeOK(n), NEW i \in Server, NEW e \in EntryType
    PROVE  Applying(n, apply_conf_change(n, i, e))
<1>1. n \in NodeType /\ n.committed \in Nat /\ n.applied \in Nat
      /\ Len(n.log) \in Nat /\ n.match \in [Server -> Nat]
      /\ n.prs \in SUBSET Server /\ n.learners \in SUBSET Server
    BY Fields DEF NodeOK
<1>2. CASE e.op = "none"
    BY <1>1, <1>2 DEF apply_conf_change, Applying, NodeOK
<1>3. CASE e.op = "bootstrap"
  <2>1. apply_conf_change(n, i, e) = [n EXCEPT !.prs = @ \cup (Server \ n.learners)]
      BY <1>3 DEF apply_conf_change
  <2> QED BY <1>1, <2>1, SMTT(30) DEF Applying, NodeOK, NodeType
<1>4. ASSUME NEW l \in BOOLEAN, e.id \in Server
      PROVE  Applying(n, add_node_or_learner(n, i, e.id, l))
  <2>1. CASE e.id \in n.prs \/ (l /\ e.id \in n.learners)
      BY <1>1, <2>1 DEF add_node_or_learner, Applying, NodeOK
  <2>2. CASE ~(e.id \in n.prs \/ (l /\ e.id \in n.learners))
    <3> DEFINE r == add_node_or_learner(n, i, e.id, l)
               prs == IF l THEN n.prs ELSE n.prs \cup {e.id}
               lrn == IF l THEN n.learners \cup {e.id} ELSE n.learners \ {e.id}
               mat == [n.match EXCEPT ![e.id] = IF e.id \in n.learners THEN @ ELSE 0]
               isl == IF i = e.id THEN l ELSE n.is_learner
    <3>1. r = [n EXCEPT !.prs = prs, !.learners = lrn, !.match = mat,
                        !.is_learner = isl]
        BY <1>1, <2>2 DEF add_node_or_learner, NodeType
    <3>2. prs \in SUBSET Server /\ lrn \in SUBSET Server
        BY <1>1, <1>4
    <3>3. mat \in [Server -> Nat]
        BY <1>1, <1>4
    <3>4. isl \in BOOLEAN
        BY <1>1, Fields
    <3> HIDE DEF prs, lrn, mat, isl
    <3>5. r \in NodeType
        BY <1>1, <3>1, <3>2, <3>3, <3>4 DEF NodeType
    <3> QED BY <1>1, <3>1, <3>5 DEF Applying, NodeOK, NodeType
  <2> QED BY <2>1, <2>2
<1>5. CASE e.op = "add"
    BY <1>4, <1>5 DEF apply_conf_change, EntryType
<1>6. CASE e.op = "learner"
    BY <1>4, <1>6 DEF apply_conf_change, EntryType
<1>7. CASE e.op = "remove"
  <2> DEFINE gone == [n EXCEPT !.prs = @ \ {e.id}, !.learners = @ \ {e.id},
                               !.match[e.id] = 0]
  <2>1. Applying(n, gone)
    <3>1. gone = [n EXCEPT !.prs = n.prs \ {e.id}, !.learners = n.learners \ {e.id},
                           !.match = [n.match EXCEPT ![e.id] = 0]]
        BY <1>1 DEF NodeType
    <3>2. gone \in NodeType
        BY <1>1, <1>7, <3>1 DEF NodeType, EntryType
    <3> QED BY <1>1, <3>1, <3>2 DEF Applying, NodeOK, NodeType
  <2>2. Committing(gone, maybe_commit(gone)) /\ NodeOK(maybe_commit(gone))
    <3> HIDE DEF gone
    <3> QED BY <2>1, MaybeCommit DEF Applying
  <2>3. Applying(n, maybe_commit(gone))
    <3> HIDE DEF gone
    <3>1. gone \in NodeType /\ gone.committed \in Nat
        BY <2>1, Fields DEF Applying, NodeOK
    <3> QED BY <1>1, <2>1, <2>2, <3>1 DEF Applying, Committing, NodeType
  <2>4. apply_conf_change(n, i, e) \in {gone, maybe_commit(gone)}
      BY <1>7 DEF apply_conf_change, remove_node
  <2> QED BY <2>1, <2>3, <2>4
<1> QED BY <1>2, <1>3, <1>5, <1>6, <1>7 DEF EntryType

(* The objects between the entries that a Ready publishes exist: after is  *)
(* the function that publish_entries computes step by step.                *)
Stages(n, i, todo, len, g) ==
    g = [k \in 0..len |->
            IF k = 0 THEN n ELSE apply_conf_change(g[k - 1], i, todo[k])]

LEMMA StagesExist ==
    ASSUME NEW n, NEW i, NEW todo
    PROVE  \A len \in Nat : \E g : Stages(n, i, todo, len, g)
<1> DEFINE S == {len \in Nat : \E g : Stages(n, i, todo, len, g)}
<1>1. 0 \in S
  <2> DEFINE g == [k \in 0..0 |-> n]
  <2>1. Stages(n, i, todo, 0, g)
      BY DEF Stages
  <2> HIDE DEF g
  <2> QED BY <2>1
<1>2. ASSUME NEW len \in Nat, len \in S PROVE len + 1 \in S
  <2>1. PICK g : Stages(n, i, todo, len, g)
      BY <1>2
  <2> DEFINE next == apply_conf_change(g[len], i, todo[len + 1])
             h == [k \in 0..(len + 1) |-> IF k = len + 1 THEN next ELSE g[k]]
  <2>2. \A k \in 0..len :
            g[k] = IF k = 0 THEN n ELSE apply_conf_change(g[k - 1], i, todo[k])
      BY <2>1 DEF Stages
  <2>3. /\ \A k \in 0..len : h[k] = g[k]
        /\ h[len + 1] = apply_conf_change(h[len], i, todo[len + 1])
      OBVIOUS
  <2>4. h = [k \in 0..(len + 1) |-> h[k]]
      OBVIOUS
  <2> HIDE DEF h
  <2>5. ASSUME NEW k \in 0..(len + 1)
        PROVE  h[k] = IF k = 0 THEN n ELSE apply_conf_change(h[k - 1], i, todo[k])
    <3>1. CASE k = len + 1
        BY <2>3, <3>1
    <3>2. CASE k # len + 1
      <4>1. k \in 0..len /\ (k # 0 => k - 1 \in 0..len)
          BY <3>2
      <4> QED BY <4>1, <2>2, <2>3
    <3> QED BY <3>1, <3>2
  <2>6. Stages(n, i, todo, len + 1, h)
      BY <2>4, <2>5 DEF Stages
  <2> QED BY <2>6
<1> HIDE DEF S
<1>3. \A len \in Nat : len \in S
    BY <1>1, <1>2, NatSetInduction
<1> QED BY <1>3 DEF S

LEMMA Between ==
    ASSUME NEW S, NEW s \in Seq(S), NEW a \in Nat, NEW b \in Nat,
           a <= b, b <= Len(s)
    PROVE  /\ Len(SubSeq(s, a + 1, b)) = b - a /\ b - a \in Nat
           /\ \A k \in 1..(b - a) : /\ SubSeq(s, a + 1, b)[k] = s[a + k]
                                    /\ s[a + k] \in S
<1>1. \A k \in 1..(b - a) : a + k \in 1..Len(s) /\ (a + 1) + k - 1 = a + k
    OBVIOUS
<1>2. Len(SubSeq(s, a + 1, b)) = b - a
    OBVIOUS
<1>3. \A k \in 1..(b - a) : SubSeq(s, a + 1, b)[k] = s[a + k]
    BY <1>1
<1> QED BY <1>1, <1>2, <1>3

LEMMA PublishEntries ==
    ASSUME NEW n, NodeOK(n), NEW i \in Server
    PROVE  LET r == publish_entries(n, i)
               todo == SubSeq(n.log, n.applied + 1, n.committed)
           IN  \E g : /\ Stages(n, i, todo, n.committed - n.applied, g)
                      /\ r = [g[n.committed - n.applied] EXCEPT !.applied = n.committed]
                      /\ Len(todo) = n.committed - n.applied
                      /\ Len(todo) \in Nat
                      /\ \A k \in 1..Len(todo) : /\ todo[k] = n.log[n.applied + k]
                                                 /\ todo[k] \in EntryType
<1> DEFINE todo == SubSeq(n.log, n.applied + 1, n.committed)
           after == CHOOSE after :
                        after = [k \in 0..Len(todo) |->
                                    IF k = 0 THEN n
                                    ELSE apply_conf_change(after[k - 1], i, todo[k])]
<1>1. /\ n \in NodeType /\ n.committed \in Nat /\ n.applied \in Nat
      /\ n.log \in Seq(EntryType) /\ n.applied <= n.committed
      /\ n.committed <= Len(n.log)
    BY Fields DEF NodeOK
<1>2. /\ Len(todo) = n.committed - n.applied /\ Len(todo) \in Nat
      /\ \A k \in 1..Len(todo) : /\ todo[k] = n.log[n.applied + k]
                                 /\ todo[k] \in EntryType
  <2> DEFINE log == n.log
             a == n.applied
             b == n.committed
  <2>1. log \in Seq(EntryType) /\ a \in Nat /\ b \in Nat /\ a <= b /\ b <= Len(log)
      BY <1>1
  <2> HIDE DEF log, a, b
  <2>2. /\ Len(SubSeq(log, a + 1, b)) = b - a /\ b - a \in Nat
        /\ \A k \in 1..(b - a) : /\ SubSeq(log, a + 1, b)[k] = log[a + k]
                                 /\ log[a + k] \in EntryType
      BY <2>1, Between
  <2> QED BY <2>2 DEF log, a, b
<1>3. publish_entries(n, i) = [after[Len(todo)] EXCEPT !.applied = n.committed]
    BY DEF publish_entries
<1>4. Stages(n, i, todo, Len(todo), after)
  <2> HIDE DEF todo
  <2>1. \E g : Stages(n, i, todo, Len(todo), g)
      BY <1>2, StagesExist
  <2> QED BY <2>1 DEF Stages
<1> HIDE DEF after, todo
<1>5. Stages(n, i, todo, n.committed - n.applied, after)
    BY <1>2, <1>4
<1>6. publish_entries(n, i) = [after[n.committed - n.applied] EXCEPT !.applied = n.committed]
    BY <1>2, <1>3
<1> QED BY <1>2, <1>5, <1>6 DEF todo

(* What a published batch leaves alone, and that a batch without changes   *)
(* leaves everything but applied alone.                                    *)
Published(n, r) ==
    /\ NodeOK(r) /\ r.term = n.term /\ r.role = n.role /\ r.log = n.log
    /\ r.votes = n.votes /\ r.pending = n.pending
    /\ r.applied = n.committed /\ n.committed <= r.committed

LEMMA Publish ==
    ASSUME NEW n, NodeOK(n), NEW i \in Server
    PROVE  LET r == publish_entries(n, i)
           IN  /\ Published(n, r)
               /\ (\A k \in (n.applied + 1)..n.committed : ~IsConf(n.log[k]))
                    => r = [n EXCEPT !.applied = n.committed]
<1> DEFINE todo == SubSeq(n.log, n.applied + 1, n.committed)
           len == n.committed - n.applied
           r == publish_entries(n, i)
<1>1. /\ n \in NodeType /\ n.committed \in Nat /\ n.applied \in Nat
      /\ n.log \in Seq(EntryType) /\ n.applied <= n.committed
      /\ n.committed <= Len(n.log) /\ len \in Nat
    BY Fields DEF NodeOK
<1>2. PICK g : /\ Stages(n, i, todo, len, g)
               /\ r = [g[len] EXCEPT !.applied = n.committed]
               /\ Len(todo) = len
               /\ \A k \in 1..len : /\ todo[k] = n.log[n.applied + k]
                                    /\ todo[k] \in EntryType
    BY PublishEntries
<1> HIDE DEF todo, r
<1>3. /\ g[0] = n
      /\ \A k \in Nat : k + 1 <= len => g[k + 1] = apply_conf_change(g[k], i, todo[k + 1])
  <2> HIDE DEF len
  <2>1. \A k \in 0..len : g[k] = IF k = 0 THEN n ELSE apply_conf_change(g[k - 1], i, todo[k])
      BY <1>2 DEF Stages
  <2>2. 0 \in 0..len
      BY <1>1
  <2>3. ASSUME NEW k \in Nat, k + 1 <= len
        PROVE  g[k + 1] = apply_conf_change(g[k], i, todo[k + 1])
    <3>1. k + 1 \in 0..len /\ k + 1 # 0 /\ (k + 1) - 1 = k
        BY <1>1, <2>3
    <3> QED BY <2>1, <3>1
  <2> QED BY <2>1, <2>2, <2>3
<1>4. Applying(n, g[len])
  <2> DEFINE S == {k \in Nat : k <= len => Applying(n, g[k])}
  <2>1. 0 \in S
      BY <1>1, <1>3 DEF Applying, NodeOK
  <2>2. ASSUME NEW k \in Nat, k \in S PROVE k + 1 \in S
    <3>1. SUFFICES ASSUME k + 1 <= len PROVE Applying(n, g[k + 1])
        OBVIOUS
    <3>2. k <= len /\ k + 1 \in 1..len
        BY <1>1, <3>1
    <3>3. Applying(n, g[k])
        BY <2>2, <3>2
    <3>4. Applying(g[k], apply_conf_change(g[k], i, todo[k + 1]))
        BY <1>2, <3>2, <3>3, ApplyConfChange DEF Applying
    <3>5. Applying(g[k], g[k + 1])
        BY <1>3, <3>1, <3>4
    <3>6. g[k].committed \in Nat /\ g[k + 1].committed \in Nat
        BY <3>3, <3>5, Fields DEF Applying, NodeOK
    <3> QED BY <1>1, <3>3, <3>5, <3>6 DEF Applying
  <2> HIDE DEF S
  <2>3. len \in S
      BY <1>1, <2>1, <2>2, NatSetInduction
  <2> QED BY <1>1, <2>3 DEF S
<1>5. Published(n, r)
  <2> DEFINE q == g[len]
  <2>1. NodeOK(q) /\ q \in NodeType /\ q.committed \in Nat /\ n.committed <= q.committed
      BY <1>4, Fields DEF Applying, NodeOK
  <2>2. r = [q EXCEPT !.applied = n.committed]
      BY <1>2
  <2>3. Applying(n, q)
      BY <1>4
  <2> HIDE DEF q
  <2>4. r \in NodeType
      BY <1>1, <2>1, <2>2 DEF NodeType
  <2> QED BY <1>1, <2>1, <2>2, <2>3, <2>4 DEF Applying, NodeOK, Published, NodeType
<1>6. ASSUME \A k \in (n.applied + 1)..n.committed : ~IsConf(n.log[k])
      PROVE  r = [n EXCEPT !.applied = n.committed]
  <2> DEFINE S == {k \in Nat : k <= len => g[k] = n}
  <2>1. 0 \in S
      BY <1>3
  <2>2. ASSUME NEW k \in Nat, k \in S PROVE k + 1 \in S
    <3>1. SUFFICES ASSUME k + 1 <= len PROVE g[k + 1] = n
        OBVIOUS
    <3>2. /\ k <= len /\ k + 1 \in 1..len
          /\ n.applied + (k + 1) \in (n.applied + 1)..n.committed
        BY <1>1, <3>1
    <3>3. todo[k + 1].op = "none"
        BY <1>2, <1>6, <3>2 DEF IsConf
    <3>4. g[k + 1] = apply_conf_change(n, i, todo[k + 1])
        BY <1>3, <2>2, <3>1, <3>2
    <3> QED BY <3>3, <3>4 DEF apply_conf_change
  <2> HIDE DEF S
  <2>3. len \in S
      BY <1>1, <2>1, <2>2, NatSetInduction
  <2> QED BY <1>1, <1>2, <2>3 DEF S
<1> QED BY <1>5, <1>6 DEF r

(* What a method keeps that does not touch the members.                    *)
Keeps(n, r) ==
    /\ NodeOK(r) /\ r.prs = n.prs /\ r.learners = n.learners
    /\ r.applied = n.applied /\ n.committed <= r.committed

LEMMA Reset ==
    ASSUME NEW n, NodeOK(n), NEW i \in Server, NEW t \in Nat
    PROVE  LET r == reset(n, i, t)
           IN  Keeps(n, r) /\ r.log = n.log /\ r.committed = n.committed
               /\ r.term = t /\ r.role = n.role
<1> DEFINE vote == IF t = n.term THEN n.vote ELSE Nil
           mat == [j \in Server |-> IF j = i /\ i \in members(n) THEN Len(n.log) ELSE 0]
<1>1. n \in NodeType /\ n.vote \in Id /\ Len(n.log) \in Nat /\ n.committed \in Nat
    BY Fields DEF NodeOK
<1>2. vote \in Id /\ mat \in [Server -> Nat] /\ Nil \in Id
    BY <1>1 DEF Id
<1>3. reset(n, i, t) = [n EXCEPT !.term = t, !.vote = vote, !.lead = Nil, !.votes = {},
                                 !.pending = 0, !.match = mat]
    BY DEF reset
<1> HIDE DEF vote, mat
<1>4. reset(n, i, t) \in NodeType
  <2> DEFINE q == [n EXCEPT !.term = t, !.vote = vote, !.lead = Nil]
  <2>1. q \in NodeType
      BY <1>1, <1>2 DEF NodeType
  <2>2. reset(n, i, t) = [q EXCEPT !.votes = {}, !.pending = 0, !.match = mat]
      BY <1>1, <1>3 DEF NodeType
  <2> HIDE DEF q
  <2>3. [q EXCEPT !.votes = {}, !.pending = 0] \in NodeType
      BY <2>1 DEF NodeType
  <2>4. reset(n, i, t) = [[q EXCEPT !.votes = {}, !.pending = 0] EXCEPT !.match = mat]
      BY <2>1, <2>2 DEF NodeType
  <2> QED BY <1>2, <2>3, <2>4 DEF NodeType
<1> QED BY <1>1, <1>3, <1>4 DEF NodeOK, NodeType, Keeps

LEMMA BecomeFollower ==
    ASSUME NEW n, NodeOK(n), NEW i \in Server, NEW t \in Nat, NEW lead \in Id
    PROVE  LET r == become_follower(n, i, t, lead)
           IN  Keeps(n, r) /\ r.log = n.log /\ r.committed = n.committed
               /\ r.term = t /\ r.role = "Follower"
<1> DEFINE q == reset(n, i, t)
<1>1. Keeps(n, q) /\ q.log = n.log /\ q.committed = n.committed /\ q.term = t
    BY Reset
<1>2. become_follower(n, i, t, lead) = [q EXCEPT !.lead = lead, !.role = "Follower"]
    BY DEF become_follower
<1> HIDE DEF q
<1> QED BY <1>1, <1>2 DEF NodeOK, NodeType, Keeps

LEMMA BecomeCandidate ==
    ASSUME NEW n, NodeOK(n), NEW i \in Server
    PROVE  LET r == become_candidate(n, i)
           IN  Keeps(n, r) /\ r.log = n.log /\ r.committed = n.committed
               /\ r.term = n.term + 1 /\ r.role = "Candidate" /\ r.votes = {i}
<1> DEFINE q == reset(n, i, n.term + 1)
<1>1. n.term + 1 \in Nat
    BY Fields DEF NodeOK
<1>2. Keeps(n, q) /\ q.log = n.log /\ q.committed = n.committed /\ q.term = n.term + 1
    BY <1>1, Reset
<1>3. become_candidate(n, i) = [q EXCEPT !.vote = i, !.role = "Candidate", !.votes = {i}]
    BY DEF become_candidate
<1> HIDE DEF q
<1>4. i \in Id /\ {i} \in SUBSET Server
    BY DEF Id
<1>5. become_candidate(n, i) \in NodeType
    BY <1>2, <1>3, <1>4 DEF NodeOK, NodeType, Keeps
<1> QED BY <1>2, <1>3, <1>5 DEF NodeOK, NodeType, Keeps

LEMMA AppendEntry ==
    ASSUME NEW n, NodeOK(n), NEW i \in Server, NEW change,
           Entry(n.term, change) \in EntryType
    PROVE  LET r == append_entry(n, i, change)
           IN  Keeps(n, r) /\ r.log = Append(n.log, Entry(n.term, change))
               /\ r.term = n.term /\ r.role = n.role /\ r.pending = n.pending
<1> DEFINE e == Entry(n.term, change)
           log == Append(n.log, e)
           mat == [n.match EXCEPT ![i] = Len(n.log) + 1]
           q == [n EXCEPT !.log = Append(@, e), !.match[i] = Len(n.log) + 1]
<1>1. n \in NodeType /\ n.log \in Seq(EntryType) /\ Len(n.log) \in Nat
      /\ n.match \in [Server -> Nat] /\ n.committed \in Nat
    BY Fields DEF NodeOK
<1>2. log \in LogType /\ Len(log) = Len(n.log) + 1
    BY <1>1 DEF LogType
<1>3. mat \in [Server -> Nat]
    BY <1>1
<1>4. q = [n EXCEPT !.log = log, !.match = mat]
    BY <1>1 DEF NodeType
<1> HIDE DEF log, mat, q
<1>5. NodeOK(q)
  <2>1. q \in NodeType
      BY <1>1, <1>2, <1>3, <1>4 DEF NodeType
  <2> QED BY <1>1, <1>2, <1>4, <2>1 DEF NodeOK, NodeType
<1>6. Keeps(n, q) /\ q.log = log /\ q.term = n.term /\ q.role = n.role
      /\ q.pending = n.pending /\ q.committed = n.committed
    BY <1>1, <1>4, <1>5 DEF Keeps, NodeType
<1>7. append_entry(n, i, change) = maybe_commit(q)
    BY DEF append_entry, q
<1>8. Committing(q, maybe_commit(q)) /\ NodeOK(maybe_commit(q)) /\ q \in NodeType
    BY <1>5, MaybeCommit DEF NodeOK
<1> QED BY <1>6, <1>7, <1>8 DEF Keeps, Committing, NodeType, log

LEMMA BecomeLeader ==
    ASSUME NEW n, NodeOK(n), NEW i \in Server
    PROVE  LET r == become_leader(n, i)
           IN  Keeps(n, r) /\ r.log = Append(n.log, Entry(n.term, Normal))
               /\ r.term = n.term /\ r.role = "Leader" /\ r.pending = Len(n.log)
<1> DEFINE p == reset(n, i, n.term)
           q == [p EXCEPT !.lead = i, !.role = "Leader", !.pending = Len(n.log)]
<1>1. n.term \in Nat /\ Len(n.log) \in Nat /\ n.committed \in Nat
    BY Fields DEF NodeOK
<1>2. Keeps(n, p) /\ p.log = n.log /\ p.committed = n.committed /\ p.term = n.term
    BY <1>1, Reset
<1> HIDE DEF p
<1>3. /\ Keeps(n, q) /\ q.log = n.log /\ q.committed = n.committed
      /\ q.term = n.term /\ q.role = "Leader" /\ q.pending = Len(n.log)
    BY <1>1, <1>2 DEF NodeOK, NodeType, Keeps, Id
<1>4. become_leader(n, i) = append_entry(q, i, Normal)
    BY DEF become_leader, p
<1> HIDE DEF q
<1>5. Entry(q.term, Normal) \in EntryType
    BY <1>1, <1>3, NormalEntry
<1>6. LET r == append_entry(q, i, Normal)
      IN  Keeps(q, r) /\ r.log = Append(q.log, Entry(q.term, Normal))
          /\ r.term = q.term /\ r.role = q.role /\ r.pending = q.pending
    BY <1>3, <1>5, AppendEntry DEF Keeps
<1> QED BY <1>3, <1>4, <1>6 DEF Keeps

-----------------------------------------------------------------------------
(* Logs.                                                                   *)

LEMMA AtMostOneBeyond ==
    ASSUME NEW log \in Seq(EntryType), NEW a \in Nat, NEW b \in Nat, a <= b,
           AtMostOne(log, a)
    PROVE  AtMostOne(log, b)
<1>1. \A k \in (b + 1)..Len(log) : k \in (a + 1)..Len(log)
    OBVIOUS
<1> QED BY <1>1 DEF AtMostOne

(* An entry that is no change leaves what is beyond a as it was.           *)
LEMMA AppendNormal ==
    ASSUME NEW log \in Seq(EntryType), NEW a \in Nat, NEW e, ~IsConf(e)
    PROVE  /\ AtMostOne(log, a) => AtMostOne(Append(log, e), a)
           /\ \A k \in (a + 1)..Len(Append(log, e)) :
                 IsConf(Append(log, e)[k]) => k \in (a + 1)..Len(log) /\ IsConf(log[k])
<1>1. Len(Append(log, e)) = Len(log) + 1 /\ Len(log) \in Nat
    OBVIOUS
<1>2. Append(log, e)[Len(log) + 1] = e
    OBVIOUS
<1>3. \A k \in 1..Len(log) : Append(log, e)[k] = log[k]
    OBVIOUS
<1>4. \A k \in (a + 1)..Len(Append(log, e)) :
          IsConf(Append(log, e)[k]) => k \in (a + 1)..Len(log) /\ IsConf(log[k])
  <2> SUFFICES ASSUME NEW k \in (a + 1)..Len(Append(log, e)), IsConf(Append(log, e)[k])
               PROVE  k \in (a + 1)..Len(log) /\ IsConf(log[k])
      OBVIOUS
  <2>1. k # Len(log) + 1
      BY <1>2
  <2>2. k \in (a + 1)..Len(log) /\ k \in 1..Len(log)
      BY <1>1, <2>1
  <2> QED BY <1>3, <2>2
<1> QED BY <1>4 DEF AtMostOne

(* A change after a log that holds none beyond a is the only one.          *)
LEMMA AppendChange ==
    ASSUME NEW log \in Seq(EntryType), NEW a \in Nat, NEW e,
           \A k \in (a + 1)..Len(log) : ~IsConf(log[k])
    PROVE  /\ AtMostOne(Append(log, e), a)
           /\ \A k \in (a + 1)..Len(Append(log, e)) :
                 IsConf(Append(log, e)[k]) => k = Len(log) + 1
<1>1. Len(Append(log, e)) = Len(log) + 1 /\ Len(log) \in Nat
    OBVIOUS
<1>2. \A k \in 1..Len(log) : Append(log, e)[k] = log[k]
    OBVIOUS
<1>3. ASSUME NEW k \in (a + 1)..Len(Append(log, e)), IsConf(Append(log, e)[k])
      PROVE  k = Len(log) + 1
  <2> SUFFICES ASSUME k # Len(log) + 1 PROVE FALSE
      OBVIOUS
  <2>1. k \in (a + 1)..Len(log) /\ k \in 1..Len(log)
      BY <1>1
  <2> QED BY <1>2, <1>3, <2>1
<1> QED BY <1>3 DEF AtMostOne

-----------------------------------------------------------------------------
(* Steps.  A step of server i makes its object n and adds the messages of  *)
(* the set new, all of them i's.                                           *)

MessagesOK(i, n, new) ==
    \A m \in new :
        /\ m \in MessageType /\ m.from = i
        /\ m.type = "MsgApp" => m.commit <= Len(m.log) /\ AtMostOne(m.log, m.commit)
        /\ m.type = "MsgVote" => m.term = n.term /\ m.to \subseteq n.prs
        /\ m.type = "MsgVoteResp" =>
              \A j \in m.to : \E q \in net :
                  q.type = "MsgVote" /\ q.from = j /\ q.term = m.term /\ i \in q.to

StepOK(i, n, new) ==
    /\ NodeOK(n) /\ ConfOK(n) /\ CandidateOK(i, n) /\ node[i].term <= n.term
    /\ n.role = "Candidate" /\ n.term = node[i].term
          => node[i].role = "Candidate" /\ n.prs = node[i].prs
    /\ MessagesOK(i, n, new)

LEMMA StepKeepsInv ==
    ASSUME Inv, NEW i \in Server, NEW n, NEW new, StepOK(i, n, new),
           node' = [node EXCEPT ![i] = n], net' \subseteq net \cup new,
           restarts' \in Nat
    PROVE  Inv'
<1>1. /\ node \in [Server -> NodeType] /\ net \subseteq MessageType
      /\ \A j \in Server : NodeOK(node[j])
      /\ \A m \in net : m.type = "MsgApp" => m.commit <= Len(m.log)
    BY DEF Inv, Type
<1>2. n \in NodeType /\ NodeOK(n)
    BY DEF StepOK, NodeOK
<1>3. /\ node' \in [Server -> NodeType] /\ node'[i] = n
      /\ \A j \in Server : j # i => node'[j] = node[j]
    BY <1>1, <1>2
<1>4. \A m \in net' : m \in net \/ m \in new
    OBVIOUS
<1>5. Type'
  <2>1. net' \subseteq MessageType
      BY <1>1, <1>4 DEF StepOK, MessagesOK
  <2>2. \A j \in Server : NodeOK(node'[j])
      BY <1>1, <1>2, <1>3
  <2>3. \A m \in net' : m.type = "MsgApp" => m.commit <= Len(m.log)
      BY <1>1, <1>4 DEF StepOK, MessagesOK
  <2> QED BY <1>3, <2>1, <2>2, <2>3 DEF Type, NodeOK
<1>6. ConfInv'
  <2>1. \A j \in Server : ConfOK(node'[j])
      BY <1>3 DEF Inv, ConfInv, StepOK
  <2>2. \A m \in net' : m.type = "MsgApp" => AtMostOne(m.log, m.commit)
      BY <1>4 DEF Inv, ConfInv, StepOK, MessagesOK
  <2> QED BY <2>1, <2>2 DEF ConfInv, ConfOK, AtMostOne, PendingCovers
<1>7. VotersInv'
  <2>0. /\ \A j \in Server : node[j].term \in Nat /\ node'[j].term \in Nat
        /\ \A m \in MessageType : m.term \in Nat /\ m.from \in Server /\ m.to \subseteq Server
      BY <1>1, <1>3, Fields DEF MessageType
  <2>1. \A j \in Server : CandidateOK(j, node'[j])
      BY <1>3 DEF Inv, VotersInv, StepOK
  <2>2. \A j \in Server :
            /\ node[j].term <= node'[j].term
            /\ node'[j].role = "Candidate" /\ node'[j].term = node[j].term
                  => node[j].role = "Candidate" /\ node'[j].prs = node[j].prs
      BY <1>3, <2>0 DEF StepOK
  <2>3. ASSUME NEW m \in net', m.type = "MsgVote"
        PROVE  /\ m.term <= node'[m.from].term
               /\ node'[m.from].role = "Candidate" /\ node'[m.from].term = m.term
                     => m.to \subseteq node'[m.from].prs
    <3>1. CASE m \in net
      <4>1. m.from \in Server /\ m.term \in Nat
          BY <1>1, <2>0, <3>1
      <4>2. /\ m.term <= node[m.from].term
            /\ node[m.from].role = "Candidate" /\ node[m.from].term = m.term
                  => m.to \subseteq node[m.from].prs
          BY <2>3, <3>1 DEF Inv, VotersInv
      <4>3. node'[m.from].term = m.term => node'[m.from].term = node[m.from].term
          BY <2>0, <2>2, <4>1, <4>2
      <4> QED BY <2>0, <2>2, <4>1, <4>2, <4>3
    <3>2. CASE m \in new
        BY <1>2, <1>3, <2>3, <3>2, Fields DEF StepOK, MessagesOK
    <3> QED BY <1>4, <3>1, <3>2
  <2>4. ASSUME NEW m \in net', m.type = "MsgVoteResp", NEW j \in m.to
        PROVE  /\ m.term <= node'[j].term
               /\ node'[j].role = "Candidate" /\ node'[j].term = m.term
                     => m.from \in node'[j].prs
    <3>1. m \in MessageType /\ j \in Server /\ m.term \in Nat
        BY <1>1, <1>4, <2>0 DEF StepOK, MessagesOK
    <3>2. /\ m.term <= node[j].term
          /\ node[j].role = "Candidate" /\ node[j].term = m.term
                => m.from \in node[j].prs
      <4>1. CASE m \in net
          BY <2>4, <4>1 DEF Inv, VotersInv
      <4>2. CASE m \in new
        <5>1. PICK q \in net : q.type = "MsgVote" /\ q.from = j /\ q.term = m.term
                               /\ i \in q.to
            BY <2>4, <4>2 DEF StepOK, MessagesOK
        <5>2. m.from = i
            BY <4>2 DEF StepOK, MessagesOK
        <5> QED BY <5>1, <5>2 DEF Inv, VotersInv
      <4> QED BY <1>4, <4>1, <4>2
    <3>3. node'[j].term = m.term => node'[j].term = node[j].term
        BY <2>0, <2>2, <3>1, <3>2
    <3> QED BY <2>0, <2>2, <3>1, <3>2, <3>3
  <2> QED BY <2>1, <2>3, <2>4 DEF VotersInv, CandidateOK
<1> QED BY <1>5, <1>6, <1>7 DEF Inv

LEMMA Here ==
    ASSUME Inv, NEW i \in Server
    PROVE  NodeOK(node[i]) /\ node[i] \in NodeType /\ ConfOK(node[i])
           /\ CandidateOK(i, node[i])
    BY DEF Inv, Type, NodeOK, ConfInv, VotersInv

LEMMA Sending ==
    ASSUME NEW m, send(m)
    PROVE  net' \subseteq net \cup {m}
    BY DEF send

LEMMA NothingSent ==
    ASSUME NEW i, NEW n
    PROVE  MessagesOK(i, n, {})
    BY DEF MessagesOK

(* An append of an object that keeps the invariant keeps it under way.     *)
LEMMA AppendSent ==
    ASSUME NEW i \in Server, NEW n, NodeOK(n), ConfOK(n)
    PROVE  MessagesOK(i, n, {MsgApp(n, i)})
<1>1. n.term \in Nat /\ n.log \in LogType /\ n.committed \in Nat
      /\ members(n) \ {i} \in SUBSET Server
    BY Fields DEF NodeOK, members
<1>2. MsgApp(n, i) \in MessageType /\ MsgApp(n, i).from = i
      /\ MsgApp(n, i).type = "MsgApp" /\ MsgApp(n, i).log = n.log
      /\ MsgApp(n, i).commit = n.committed
    BY <1>1 DEF MsgApp, MessageType
<1> QED BY <1>2 DEF MessagesOK, NodeOK, ConfOK

(* An answer to an append is no message the invariant speaks of.           *)
LEMMA AppendAnswered ==
    ASSUME NEW i \in Server, NEW n, NEW m \in MessageType, NEW t \in Nat,
           NEW idx \in Nat
    PROVE  MessagesOK(i, n, {MsgAppResp(i, m, t, idx)})
<1>1. m.from \in Server
    BY DEF MessageType
<1>2. MsgAppResp(i, m, t, idx) \in MessageType /\ MsgAppResp(i, m, t, idx).from = i
      /\ MsgAppResp(i, m, t, idx).type = "MsgAppResp"
    BY <1>1 DEF MsgAppResp, MessageType
<1> QED BY <1>2 DEF MessagesOK

(* A follower: only the log beyond its commit index counts.                *)
LEMMA FollowerOK ==
    ASSUME Inv, NEW i \in Server, NEW n, NodeOK(n), n.role = "Follower",
           AtMostOne(n.log, n.committed), node[i].term <= n.term,
           NEW new, MessagesOK(i, n, new)
    PROVE  StepOK(i, n, new)
    BY DEF StepOK, ConfOK, CandidateOK

(* A new leader: it finds at most one change that it has not applied, and  *)
(* pending covers all that it finds.                                       *)
LEMMA LeaderOK ==
    ASSUME Inv, NEW i \in Server, NEW q, NodeOK(q), AtMostOne(q.log, q.applied),
           node[i].term <= q.term
    PROVE  LET n == become_leader(q, i)
           IN  NodeOK(n) /\ ConfOK(n) /\ StepOK(i, n, {}) /\ StepOK(i, n, {MsgApp(n, i)})
<1> DEFINE n == become_leader(q, i)
<1>1. /\ Keeps(q, n) /\ n.log = Append(q.log, Entry(q.term, Normal))
      /\ n.term = q.term /\ n.role = "Leader" /\ n.pending = Len(q.log)
    BY BecomeLeader
<1> HIDE DEF n
<1>2. /\ q.log \in Seq(EntryType) /\ Len(q.log) \in Nat /\ q.applied \in Nat
      /\ q.term \in Nat /\ n.log \in Seq(EntryType) /\ n.committed \in Nat
      /\ n.applied = q.applied /\ n.applied <= n.committed /\ NodeOK(n)
    BY <1>1, Fields DEF NodeOK, Keeps
<1>3. AtMostOne(n.log, n.applied)
    BY <1>1, <1>2, NormalEntry, AppendNormal
<1>4. AtMostOne(n.log, n.committed)
    BY <1>2, <1>3, AtMostOneBeyond
<1>5. PendingCovers(n)
  <2>1. \A k \in (q.applied + 1)..Len(n.log) :
            IsConf(n.log[k]) => k \in (q.applied + 1)..Len(q.log)
      BY <1>1, <1>2, NormalEntry, AppendNormal
  <2> QED BY <1>1, <1>2, <2>1 DEF PendingCovers
<1>6. ConfOK(n)
    BY <1>3, <1>4, <1>5 DEF ConfOK
<1>7. CandidateOK(i, n) /\ node[i].term <= n.term /\ n.role # "Candidate"
    BY <1>1 DEF CandidateOK
<1> QED BY <1>2, <1>6, <1>7, NothingSent, AppendSent DEF StepOK, n

LEMMA HupKeeps ==
    ASSUME Inv, NEW i \in Server, Hup(i)
    PROVE  Inv'
<1> DEFINE o == node[i]
           n == become_candidate(o, i)
           l == become_leader(n, i)
<1>1. NodeOK(o) /\ ConfOK(o) /\ o.term \in Nat /\ o.applied \in Nat /\ o.committed \in Nat
      /\ o.log \in Seq(EntryType) /\ Len(o.log) \in Nat /\ i \in o.prs
      /\ o.prs \in SUBSET Server /\ ~unapplied_conf(o)
    BY Here, Fields DEF Hup
<1>2. /\ Keeps(o, n) /\ n.log = o.log /\ n.committed = o.committed
      /\ n.term = o.term + 1 /\ n.role = "Candidate" /\ n.votes = {i}
    BY <1>1, BecomeCandidate
<1>3. \A k \in (o.applied + 1)..o.committed : ~IsConf(o.log[k])
    BY <1>1 DEF unapplied_conf, conf_entries
<1>4. AtMostOne(o.log, o.applied)
  <2>1. AtMostOne(o.log, o.committed)
      BY <1>1 DEF ConfOK
  <2>2. \A k \in (o.applied + 1)..Len(o.log) :
            IsConf(o.log[k]) => k \in (o.committed + 1)..Len(o.log)
      BY <1>1, <1>3
  <2> QED BY <2>1, <2>2 DEF AtMostOne
<1>5. /\ \/ node' = [node EXCEPT ![i] = l] /\ net' \subseteq net \cup {}
         \/ node' = [node EXCEPT ![i] = n] /\ net' \subseteq net \cup {MsgVote(n, i)}
      /\ restarts' = restarts
  <2>1. \/ node' = [node EXCEPT ![i] = l] /\ net' = net
        \/ node' = [node EXCEPT ![i] = n] /\ send(MsgVote(n, i))
      BY DEF Hup, Become
  <2> QED BY <2>1, Sending DEF Hup
<1>6. restarts' \in Nat
    BY <1>5 DEF Inv, Type
<1> HIDE DEF o, n, l
<1>7. /\ NodeOK(n) /\ n.applied = o.applied /\ n.prs = o.prs /\ o.term <= n.term
      /\ n \in NodeType
    BY <1>1, <1>2 DEF Keeps, NodeOK
<1>8. CASE node' = [node EXCEPT ![i] = l] /\ net' \subseteq net \cup {}
  <2>1. StepOK(i, l, {})
      BY <1>2, <1>4, <1>7, LeaderOK DEF l, o
  <2> QED BY <1>6, <1>8, <2>1, StepKeepsInv
<1>9. CASE node' = [node EXCEPT ![i] = n] /\ net' \subseteq net \cup {MsgVote(n, i)}
  <2>1. ConfOK(n) /\ CandidateOK(i, n)
      BY <1>1, <1>2, <1>3, <1>4, <1>7 DEF ConfOK, CandidateOK
  <2>2. MessagesOK(i, n, {MsgVote(n, i)})
    <3>1. n.prs \ {i} \in SUBSET Server /\ n.term \in Nat /\ Len(n.log) \in Nat
        BY <1>7, Fields
    <3>2. last_term(n) \in Nat
      <4>1. n.log \in Seq(EntryType) /\ Len(n.log) \in 1..Len(n.log)
          BY <1>7, Fields
      <4>2. n.log[Len(n.log)] \in EntryType
          BY <4>1
      <4> QED BY <4>2 DEF last_term, EntryType
    <3>3. MsgVote(n, i) \in MessageType /\ MsgVote(n, i).from = i
          /\ MsgVote(n, i).type = "MsgVote" /\ MsgVote(n, i).term = n.term
          /\ MsgVote(n, i).to = n.prs \ {i}
        BY <3>1, <3>2 DEF MsgVote, MessageType
    <3> QED BY <3>3 DEF MessagesOK
  <2>3. o.term <= n.term /\ n.term # o.term
      BY <1>1, <1>2
  <2>4. StepOK(i, n, {MsgVote(n, i)})
      BY <1>7, <2>1, <2>2, <2>3 DEF StepOK, o
  <2> QED BY <1>6, <1>9, <2>4, StepKeepsInv
<1> QED BY <1>5, <1>8, <1>9

(* A message that is read is one of the network's.                         *)
LEMMA Read ==
    ASSUME Inv, NEW m \in net
    PROVE  m \in MessageType /\ m.from \in Server /\ m.term \in Nat /\ m.to \subseteq Server
    BY DEF Inv, Type, MessageType

LEMMA RecvVoteKeeps ==
    ASSUME Inv, NEW i \in Server, NEW m \in net, RecvVote(i, m)
    PROVE  Inv'
<1> DEFINE o == node[i]
           n == IF m.term > o.term THEN become_follower(o, i, m.term, Nil) ELSE o
           v == [n EXCEPT !.vote = m.from]
           resp == MsgVoteResp(i, m)
<1>1. NodeOK(o) /\ o \in NodeType /\ ConfOK(o) /\ CandidateOK(i, o) /\ o.term \in Nat
    BY Here, Fields
<1>2. m.from \in Server /\ m.from \in Id /\ Nil \in Id /\ m.term \in Nat
    BY Read DEF Id
<1>3. NodeOK(n) /\ ConfOK(n) /\ CandidateOK(i, n) /\ o.term <= n.term
      /\ (n.role = "Candidate" => o.role = "Candidate" /\ n.prs = o.prs)
  <2>1. CASE m.term > o.term
    <3>1. Keeps(o, n) /\ n.log = o.log /\ n.committed = o.committed
          /\ n.term = m.term /\ n.role = "Follower"
        BY <1>1, <1>2, <2>1, BecomeFollower
    <3> QED BY <1>1, <1>2, <2>1, <3>1 DEF Keeps, ConfOK, CandidateOK
  <2>2. CASE ~(m.term > o.term)
      BY <1>1, <2>2
  <2> QED BY <2>1, <2>2
<1>4. /\ \/ node' = [node EXCEPT ![i] = v] /\ net' \subseteq net \cup {resp}
         \/ node' = [node EXCEPT ![i] = n] /\ net' \subseteq net \cup {}
      /\ restarts' = restarts /\ m.type = "MsgVote" /\ i \in m.to
  <2>1. \/ node' = [node EXCEPT ![i] = v] /\ send(resp)
        \/ node' = [node EXCEPT ![i] = n] /\ net' = net
      BY DEF RecvVote, Become
  <2> QED BY <2>1, Sending DEF RecvVote
<1>5. restarts' \in Nat
    BY <1>4 DEF Inv, Type
<1> HIDE DEF n, o
<1>6. NodeOK(v) /\ ConfOK(v) /\ CandidateOK(i, v) /\ v.term = n.term /\ v.role = n.role
      /\ v.prs = n.prs
    BY <1>2, <1>3 DEF NodeOK, NodeType, ConfOK, CandidateOK, PendingCovers
<1>7. MessagesOK(i, v, {resp})
  <2>1. resp \in MessageType /\ resp.from = i /\ resp.type = "MsgVoteResp"
        /\ resp.to = {m.from} /\ resp.term = m.term
      BY <1>2 DEF MsgVoteResp, MessageType
  <2> HIDE DEF resp
  <2> QED BY <1>4, <2>1 DEF MessagesOK
<1>8. CASE node' = [node EXCEPT ![i] = v] /\ net' \subseteq net \cup {resp}
  <2>1. StepOK(i, v, {resp})
      BY <1>3, <1>6, <1>7 DEF StepOK, o
  <2> QED BY <1>5, <1>8, <2>1, StepKeepsInv
<1>9. CASE node' = [node EXCEPT ![i] = n] /\ net' \subseteq net \cup {}
  <2>1. StepOK(i, n, {})
      BY <1>3, NothingSent DEF StepOK, o
  <2> QED BY <1>5, <1>9, <2>1, StepKeepsInv
<1> QED BY <1>4, <1>8, <1>9

LEMMA RecvVoteRespKeeps ==
    ASSUME Inv, NEW i \in Server, NEW m \in net, RecvVoteResp(i, m)
    PROVE  Inv'
<1> DEFINE o == node[i]
           n == [o EXCEPT !.votes = @ \cup {m.from}]
           l == become_leader(n, i)
<1>1. /\ NodeOK(o) /\ o \in NodeType /\ ConfOK(o) /\ CandidateOK(i, o)
      /\ o.term \in Nat /\ o.votes \in SUBSET Server
    BY Here, Fields
<1>2. /\ m.type = "MsgVoteResp" /\ i \in m.to /\ m.term = o.term
      /\ o.role = "Candidate" /\ m.from \in Server
    BY Read DEF RecvVoteResp
<1>3. m.from \in o.prs
    BY <1>2 DEF Inv, VotersInv
<1>4. /\ \/ node' = [node EXCEPT ![i] = l] /\ net' \subseteq net \cup {MsgApp(l, i)}
         \/ node' = [node EXCEPT ![i] = n] /\ net' \subseteq net \cup {}
      /\ restarts' = restarts
  <2>1. \/ node' = [node EXCEPT ![i] = l] /\ send(MsgApp(l, i))
        \/ node' = [node EXCEPT ![i] = n] /\ net' = net
      BY DEF RecvVoteResp, Become, bcast
  <2> QED BY <2>1, Sending DEF RecvVoteResp
<1>5. restarts' \in Nat
    BY <1>4 DEF Inv, Type
<1>6. /\ NodeOK(n) /\ n.term = o.term /\ n.role = o.role /\ n.prs = o.prs
      /\ n.log = o.log /\ n.committed = o.committed /\ n.applied = o.applied
      /\ n.votes = o.votes \cup {m.from}
    BY <1>1, <1>2 DEF NodeOK, NodeType
<1> HIDE DEF n, o
<1>7. ConfOK(n) /\ CandidateOK(i, n) /\ AtMostOne(n.log, n.applied)
    BY <1>1, <1>2, <1>3, <1>6 DEF ConfOK, CandidateOK
<1>8. o.term <= n.term
    BY <1>1, <1>6
<1>9. CASE node' = [node EXCEPT ![i] = l] /\ net' \subseteq net \cup {MsgApp(l, i)}
  <2>1. StepOK(i, l, {MsgApp(l, i)})
      BY <1>6, <1>7, <1>8, LeaderOK DEF l, o
  <2> HIDE DEF l
  <2> QED BY <1>5, <1>9, <2>1, StepKeepsInv
<1>10. CASE node' = [node EXCEPT ![i] = n] /\ net' \subseteq net \cup {}
  <2>1. StepOK(i, n, {})
      BY <1>2, <1>6, <1>7, <1>8, NothingSent DEF StepOK, o
  <2> QED BY <1>5, <1>10, <2>1, StepKeepsInv
<1> QED BY <1>4, <1>9, <1>10

(* The proposal of a change: it is the only one, or becomes an empty entry.*)
LEMMA ProposeKeeps ==
    ASSUME Inv, NEW i \in Server, Propose(i)
    PROVE  Inv'
<1> DEFINE o == node[i]
<1>1. PICK change \in Changes[Len(o.log) + 1] :
          /\ Become(i, propose(o, i, change))
          /\ bcast(propose(o, i, change), i)
    BY DEF Propose
<1> DEFINE n == propose(o, i, change)
           kept == accepted(o, change)
           q == [o EXCEPT !.pending = IF IsConf(kept) THEN Len(o.log) + 1 ELSE @]
           e == Entry(o.term, kept)
<1>2. /\ NodeOK(o) /\ o \in NodeType /\ ConfOK(o) /\ o.term \in Nat /\ o.applied \in Nat
      /\ o.log \in Seq(EntryType) /\ Len(o.log) \in Nat /\ o.role = "Leader"
      /\ o.pending \in Nat /\ o.committed \in Nat
    BY Here, Fields DEF Propose
<1>3. change \in [op : {"add", "learner", "remove"}, id : Server]
    BY MembershipAssumption DEF Propose
<1>4. kept = Normal \/ (kept = change /\ IsConf(change) /\ o.pending <= o.applied)
    BY <1>2, <1>3 DEF accepted, IsConf
<1>5. e \in EntryType /\ (kept = Normal => ~IsConf(kept) /\ ~IsConf(e))
  <2>1. CASE kept = Normal
      BY <1>2, <2>1, NormalEntry DEF IsConf, Normal
  <2>2. CASE kept = change
      BY <1>2, <1>3, <2>2 DEF Entry, EntryType, Id, IsConf, Normal
  <2> QED BY <1>4, <2>1, <2>2
<1>6. /\ NodeOK(q) /\ q.log = o.log /\ q.term = o.term /\ q.role = o.role
      /\ q.applied = o.applied /\ q.committed = o.committed
      /\ q.pending = IF IsConf(kept) THEN Len(o.log) + 1 ELSE o.pending
  <2> DEFINE p == IF IsConf(kept) THEN Len(o.log) + 1 ELSE o.pending
  <2>1. p \in Nat /\ q = [o EXCEPT !.pending = p]
      BY <1>2 DEF NodeType
  <2> HIDE DEF p, q
  <2> QED BY <1>2, <2>1 DEF NodeOK, NodeType, p
<1>7. n = append_entry(q, i, kept)
    BY DEF propose
<1>8. node' = [node EXCEPT ![i] = n] /\ net' \subseteq net \cup {MsgApp(n, i)}
      /\ restarts' = restarts
    BY <1>1, Sending DEF Propose, Become, bcast
<1>9. restarts' \in Nat
    BY <1>8 DEF Inv, Type
<1> HIDE DEF o, n, q, kept, e
<1>10. /\ Keeps(q, n) /\ n.log = Append(o.log, e) /\ n.term = o.term
       /\ n.role = "Leader" /\ n.pending = q.pending
  <2>1. Entry(q.term, kept) = e
      BY <1>6 DEF e
  <2> QED BY <1>2, <1>5, <1>6, <1>7, <2>1, AppendEntry, SMTT(30)
<1>11. /\ NodeOK(n) /\ n.applied = o.applied /\ n.applied <= n.committed
       /\ n.applied \in Nat /\ n.committed \in Nat /\ n.log \in Seq(EntryType)
    BY <1>6, <1>10, Fields DEF Keeps, NodeOK
<1>12. AtMostOne(n.log, n.applied) /\ PendingCovers(n)
  <2>1. AtMostOne(o.log, o.applied) /\ PendingCovers(o)
      BY <1>2 DEF ConfOK
  <2>2. CASE kept = Normal
    <3>1. AtMostOne(n.log, n.applied)
        BY <1>2, <1>5, <1>10, <1>11, <2>1, <2>2, AppendNormal
    <3>2. \A k \in (o.applied + 1)..Len(n.log) :
              IsConf(n.log[k]) => k \in (o.applied + 1)..Len(o.log) /\ IsConf(o.log[k])
        BY <1>2, <1>5, <1>10, <2>2, AppendNormal
    <3>3. n.pending = o.pending
        BY <1>5, <1>6, <1>10, <2>2
    <3> QED BY <1>11, <2>1, <3>1, <3>2, <3>3 DEF PendingCovers
  <2>3. CASE kept = change /\ IsConf(change) /\ o.pending <= o.applied
    <3>1. \A k \in (o.applied + 1)..Len(o.log) : ~IsConf(o.log[k])
        BY <1>2, <2>1, <2>3 DEF PendingCovers
    <3>2. AtMostOne(n.log, n.applied)
        BY <1>2, <1>10, <1>11, <3>1, AppendChange
    <3>3. \A k \in (o.applied + 1)..Len(n.log) : IsConf(n.log[k]) => k = Len(o.log) + 1
        BY <1>2, <1>10, <3>1, AppendChange
    <3>4. n.pending = Len(o.log) + 1
        BY <1>6, <1>10, <2>3
    <3> QED BY <1>2, <1>11, <3>2, <3>3, <3>4 DEF PendingCovers
  <2> QED BY <1>4, <2>2, <2>3
<1>13. ConfOK(n)
    BY <1>11, <1>12, AtMostOneBeyond DEF ConfOK
<1>14. StepOK(i, n, {MsgApp(n, i)})
  <2>1. MessagesOK(i, n, {MsgApp(n, i)})
      BY <1>11, <1>13, AppendSent
  <2>2. n.role # "Candidate" /\ o.term <= n.term
      BY <1>2, <1>10
  <2> QED BY <1>11, <1>13, <2>1, <2>2 DEF StepOK, CandidateOK, o
<1> QED BY <1>8, <1>9, <1>14, StepKeepsInv

LEMMA BeatKeeps ==
    ASSUME Inv, NEW i \in Server, Beat(i)
    PROVE  Inv'
<1> DEFINE o == node[i]
<1>1. NodeOK(o) /\ ConfOK(o) /\ o.term \in Nat /\ CandidateOK(i, o)
    BY Here, Fields
<1>2. StepOK(i, o, {MsgApp(o, i)})
    BY <1>1, AppendSent DEF StepOK
<1>3. node' = [node EXCEPT ![i] = o] /\ net' \subseteq net \cup {MsgApp(o, i)}
      /\ restarts' = restarts
  <2>1. node = [node EXCEPT ![i] = o]
      BY DEF Inv, Type
  <2> QED BY <2>1, Sending DEF Beat, bcast
<1>4. restarts' \in Nat
    BY <1>3 DEF Inv, Type
<1> HIDE DEF o
<1> QED BY <1>2, <1>3, <1>4, StepKeepsInv

(* An append: what the follower takes over is beyond the commit index that *)
(* came with it, and that index it takes over too.                         *)
LEMMA RecvAppKeeps ==
    ASSUME Inv, NEW i \in Server, NEW m \in net, RecvApp(i, m)
    PROVE  Inv'
<1> DEFINE o == node[i]
           n == IF m.term > o.term \/ o.role # "Follower"
                THEN become_follower(o, i, m.term, m.from)
                ELSE [o EXCEPT !.lead = m.from]
           log == IF IsPrefix(m.log, n.log) THEN n.log ELSE m.log
           com == max(n.committed, min(m.commit, Len(m.log)))
           r == [n EXCEPT !.log = IF IsPrefix(m.log, @) THEN @ ELSE m.log,
                          !.committed = max(@, min(m.commit, Len(m.log)))]
           stale == MsgAppResp(i, m, n.term, n.committed)
           resp == MsgAppResp(i, m, n.term, Len(m.log))
<1>1. NodeOK(o) /\ o \in NodeType /\ ConfOK(o) /\ o.term \in Nat /\ o.committed \in Nat
    BY Here, Fields
<1>2. /\ m.type = "MsgApp" /\ m.term >= o.term /\ m.from \in Server /\ m.from \in Id
      /\ m.term \in Nat /\ m \in MessageType
    BY Read DEF RecvApp, Id
<1>3. /\ m.log \in LogType /\ m.log \in Seq(EntryType) /\ Len(m.log) \in Nat
      /\ m.commit \in Nat /\ m.commit <= Len(m.log) /\ AtMostOne(m.log, m.commit)
  <2>1. m.log \in LogType /\ m.commit \in Nat
      BY <1>2 DEF MessageType
  <2> QED BY <1>2, <2>1 DEF Inv, Type, ConfInv, LogType
<1>4. /\ NodeOK(n) /\ n.role = "Follower" /\ o.term <= n.term
      /\ n.log = o.log /\ n.committed = o.committed
  <2>1. CASE m.term > o.term \/ o.role # "Follower"
    <3>1. Keeps(o, n) /\ n.log = o.log /\ n.committed = o.committed
          /\ n.term = m.term /\ n.role = "Follower"
        BY <1>1, <1>2, <2>1, BecomeFollower
    <3> QED BY <1>2, <3>1 DEF Keeps
  <2>2. CASE ~(m.term > o.term \/ o.role # "Follower")
    <3>1. n = [o EXCEPT !.lead = m.from]
        BY <2>2
    <3> HIDE DEF n, o
    <3>2. n \in NodeType
        BY <1>1, <1>2, <3>1 DEF NodeType
    <3>3. n.role = o.role /\ n.term = o.term /\ n.log = o.log
          /\ n.committed = o.committed /\ n.applied = o.applied
        BY <1>1, <3>1 DEF NodeType
    <3> QED BY <1>1, <2>2, <3>2, <3>3 DEF NodeOK
  <2> QED BY <2>1, <2>2
<1>5. /\ \/ node' = [node EXCEPT ![i] = n] /\ net' \subseteq net \cup {stale}
         \/ /\ Len(m.log) >= n.committed
            /\ node' = [node EXCEPT ![i] = r] /\ net' \subseteq net \cup {resp}
      /\ restarts' = restarts
  <2>1. \/ node' = [node EXCEPT ![i] = n] /\ send(stale)
        \/ /\ ~(Len(m.log) < n.committed)
           /\ node' = [node EXCEPT ![i] = r] /\ send(resp)
      BY DEF RecvApp, Become
  <2>2. n.committed \in Nat
      BY <1>1, <1>4
  <2> QED BY <1>3, <2>1, <2>2, Sending DEF RecvApp
<1>6. restarts' \in Nat
    BY <1>5 DEF Inv, Type
<1> HIDE DEF n, o
<1>7. /\ n \in NodeType /\ n.committed \in Nat /\ n.term \in Nat /\ n.applied \in Nat
      /\ n.log \in LogType /\ n.log \in Seq(EntryType) /\ AtMostOne(n.log, n.committed)
    BY <1>1, <1>4, Fields DEF NodeOK, ConfOK
<1>8. CASE node' = [node EXCEPT ![i] = n] /\ net' \subseteq net \cup {stale}
  <2>1. MessagesOK(i, n, {stale})
      BY <1>2, <1>7, AppendAnswered
  <2>2. StepOK(i, n, {stale})
      BY <1>4, <1>7, <2>1, FollowerOK DEF o
  <2> QED BY <1>6, <1>8, <2>2, StepKeepsInv
<1>9. CASE /\ Len(m.log) >= n.committed
           /\ node' = [node EXCEPT ![i] = r] /\ net' \subseteq net \cup {resp}
  <2>1. /\ com \in Nat /\ n.committed <= com /\ m.commit <= com /\ com <= Len(m.log)
      BY <1>3, <1>7, <1>9 DEF max, min
  <2>2. /\ log \in LogType /\ log \in Seq(EntryType) /\ Len(m.log) <= Len(log)
        /\ AtMostOne(log, com)
    <3>1. CASE IsPrefix(m.log, n.log)
      <4>1. Len(m.log) <= Len(n.log)
          BY <1>3, <1>7, <3>1 DEF IsPrefix
      <4>2. AtMostOne(n.log, com)
          BY <1>7, <2>1, AtMostOneBeyond
      <4> QED BY <1>7, <3>1, <4>1, <4>2
    <3>2. CASE ~IsPrefix(m.log, n.log)
      <4>1. AtMostOne(m.log, com)
          BY <1>3, <2>1, AtMostOneBeyond
      <4> QED BY <1>3, <3>2, <4>1
    <3> QED BY <3>1, <3>2
  <2>3. r = [n EXCEPT !.log = log, !.committed = com]
      BY <1>7 DEF NodeType
  <2> HIDE DEF r, log, com
  <2>4. r \in NodeType
      BY <1>7, <2>1, <2>2, <2>3 DEF NodeType
  <2>5. /\ r.log = log /\ r.committed = com /\ r.applied = n.applied
        /\ r.role = n.role /\ r.term = n.term
      BY <1>7, <2>3 DEF NodeType
  <2>6. NodeOK(r)
    <3>1. n.applied <= n.committed /\ Len(log) \in Nat
        BY <1>4, <2>2 DEF NodeOK
    <3> QED BY <1>3, <1>7, <2>1, <2>2, <2>4, <2>5, <3>1 DEF NodeOK
  <2>7. MessagesOK(i, r, {resp})
      BY <1>2, <1>3, <1>7, AppendAnswered
  <2>8. StepOK(i, r, {resp})
      BY <1>4, <2>2, <2>5, <2>6, <2>7, FollowerOK DEF o
  <2> QED BY <1>6, <1>9, <2>8, StepKeepsInv DEF resp
<1> QED BY <1>5, <1>8, <1>9

LEMMA RecvAppRespKeeps ==
    ASSUME Inv, NEW i \in Server, NEW m \in net, RecvAppResp(i, m)
    PROVE  Inv'
<1> DEFINE o == node[i]
           q == [o EXCEPT !.match[m.from] = m.index]
           n == maybe_commit(q)
<1>1. /\ NodeOK(o) /\ o \in NodeType /\ ConfOK(o) /\ o.term \in Nat
      /\ o.match \in [Server -> Nat] /\ o.log \in Seq(EntryType)
      /\ o.committed \in Nat
    BY Here, Fields
<1>2. o.role = "Leader" /\ m.from \in Server /\ m.index \in Nat
    BY Read DEF RecvAppResp, MessageType
<1>3. /\ NodeOK(q) /\ q.log = o.log /\ q.term = o.term /\ q.role = o.role
      /\ q.applied = o.applied /\ q.committed = o.committed /\ q.pending = o.pending
  <2>1. q = [o EXCEPT !.match = [o.match EXCEPT ![m.from] = m.index]]
      BY <1>1 DEF NodeType
  <2>2. [o.match EXCEPT ![m.from] = m.index] \in [Server -> Nat]
      BY <1>1, <1>2
  <2> HIDE DEF q
  <2> QED BY <1>1, <2>1, <2>2 DEF NodeOK, NodeType
<1>4. /\ node' = [node EXCEPT ![i] = n] /\ restarts' = restarts
      /\ net' \subseteq net \cup {MsgApp(n, i)}
    BY Sending DEF RecvAppResp, Become, bcast
<1>5. restarts' \in Nat
    BY <1>4 DEF Inv, Type
<1> HIDE DEF o, q
<1>6. Committing(q, n) /\ NodeOK(n)
    BY <1>3, MaybeCommit
<1> HIDE DEF n
<1>7. /\ n.log = o.log /\ n.term = o.term /\ n.role = o.role /\ n.applied = o.applied
      /\ n.pending = o.pending /\ o.committed <= n.committed /\ n.committed \in Nat
    BY <1>3, <1>6 DEF Committing, NodeOK, NodeType
<1>8. ConfOK(n)
    BY <1>1, <1>7, AtMostOneBeyond DEF ConfOK, PendingCovers
<1>9. StepOK(i, n, {MsgApp(n, i)})
  <2>1. MessagesOK(i, n, {MsgApp(n, i)})
      BY <1>6, <1>8, AppendSent
  <2>2. n.role # "Candidate" /\ o.term <= n.term
      BY <1>1, <1>2, <1>7
  <2> QED BY <1>6, <1>8, <2>1, <2>2 DEF StepOK, CandidateOK, o
<1> QED BY <1>4, <1>5, <1>9, StepKeepsInv

(* Applying: a candidate has only entries without a change to publish, and *)
(* keeps its members.                                                      *)
LEMMA ApplyKeeps ==
    ASSUME Inv, NEW i \in Server, Apply(i)
    PROVE  Inv'
<1> DEFINE o == node[i]
           n == publish_entries(o, i)
<1>1. /\ NodeOK(o) /\ o \in NodeType /\ ConfOK(o) /\ o.term \in Nat
      /\ o.log \in Seq(EntryType) /\ o.committed \in Nat /\ o.applied \in Nat
      /\ o.applied <= o.committed /\ CandidateOK(i, o)
    BY Here, Fields DEF NodeOK
<1>2. /\ Published(o, n)
      /\ (\A k \in (o.applied + 1)..o.committed : ~IsConf(o.log[k]))
            => n = [o EXCEPT !.applied = o.committed]
    BY <1>1, Publish
<1>3. /\ node' = [node EXCEPT ![i] = n] /\ restarts' = restarts
      /\ net' \subseteq net \cup {MsgApp(n, i)}
    BY Sending DEF Apply, Become, bcast
<1>4. restarts' \in Nat
    BY <1>3 DEF Inv, Type
<1> HIDE DEF o, n
<1>5. /\ NodeOK(n) /\ n.term = o.term /\ n.role = o.role /\ n.log = o.log
      /\ n.votes = o.votes /\ n.pending = o.pending
      /\ n.applied = o.committed /\ o.committed <= n.committed /\ n.committed \in Nat
    BY <1>2, Fields DEF Published, NodeOK
<1>6. ConfOK(n)
  <2>1. AtMostOne(o.log, o.committed)
      BY <1>1 DEF ConfOK
  <2>2. AtMostOne(n.log, n.committed) /\ AtMostOne(n.log, n.applied)
      BY <1>1, <1>5, <2>1, AtMostOneBeyond
  <2>3. n.role = "Leader" => PendingCovers(n)
    <3>1. \A k \in (n.applied + 1)..Len(n.log) : k \in (o.applied + 1)..Len(o.log)
        BY <1>1, <1>5
    <3> QED BY <1>1, <1>5, <3>1 DEF ConfOK, PendingCovers
  <2> QED BY <2>2, <2>3 DEF ConfOK
<1>7. n.role = "Candidate" => n.prs = o.prs /\ CandidateOK(i, n)
  <2> SUFFICES ASSUME n.role = "Candidate" PROVE n.prs = o.prs /\ CandidateOK(i, n)
      OBVIOUS
  <2>1. n = [o EXCEPT !.applied = o.committed]
      BY <1>1, <1>2, <1>5 DEF CandidateOK
  <2>2. n.prs = o.prs /\ n.committed = o.committed
      BY <1>1, <2>1 DEF NodeType
  <2>3. (n.applied + 1)..n.committed = {}
      BY <1>1, <1>5, <2>2
  <2> QED BY <1>1, <1>5, <2>2, <2>3 DEF CandidateOK
<1>8. StepOK(i, n, {MsgApp(n, i)})
  <2>1. MessagesOK(i, n, {MsgApp(n, i)})
      BY <1>5, <1>6, AppendSent
  <2>2. CandidateOK(i, n) /\ o.term <= n.term
      BY <1>1, <1>5, <1>7 DEF CandidateOK
  <2> QED BY <1>5, <1>6, <1>7, <2>1, <2>2 DEF StepOK, o
<1> QED BY <1>3, <1>4, <1>8, StepKeepsInv

LEMMA RestartKeeps ==
    ASSUME Inv, SavedInv, NEW i \in Server, Restart(i)
    PROVE  Inv' /\ SavedInv'
<1> DEFINE o == node[i]
           mat == [j \in Server |-> 0]
<1>1. /\ NodeOK(o) /\ o \in NodeType /\ o.term \in Nat /\ o.committed \in Nat
      /\ o.committed <= Len(o.log) /\ Len(o.log) \in Nat
    BY Here, Fields DEF NodeOK
<1>2. i \in Crashable /\ saved[i] \in Nat /\ AtMostOne(o.log, saved[i])
    BY DEF Restart, SavedInv
<1>3. PICK c \in saved[i]..o.committed :
        /\ node' = [node EXCEPT ![i] = [@ EXCEPT
              !.committed = c, !.lead = Nil, !.role = "Follower", !.applied = 0,
              !.prs = {}, !.learners = {}, !.is_learner = FALSE, !.votes = {},
              !.pending = 0, !.match = [j \in Server |-> 0]]]
        /\ saved' = [saved EXCEPT ![i] = c]
    BY DEF Restart
<1> DEFINE n == [o EXCEPT !.committed = c, !.lead = Nil, !.role = "Follower", !.applied = 0,
                          !.prs = {}, !.learners = {}, !.is_learner = FALSE, !.votes = {},
                          !.pending = 0, !.match = mat]
<1>4. node \in [Server -> NodeType] /\ Crashable \subseteq Server
    BY MembershipAssumption DEF Inv, Type
<1>5. node' = [node EXCEPT ![i] = n] /\ restarts' = restarts + 1
      /\ net' \subseteq net \cup {}
    BY <1>3, <1>4 DEF Restart
<1>6. restarts' \in Nat
    BY <1>5 DEF Inv, Type
<1>7. c \in Nat /\ saved[i] <= c /\ c <= o.committed /\ c <= Len(o.log)
    BY <1>1, <1>2, <1>3
<1> HIDE DEF o
<1>8. n \in NodeType
  <2> DEFINE p == [o EXCEPT !.committed = c, !.lead = Nil, !.role = "Follower", !.applied = 0]
             q == [p EXCEPT !.prs = {}, !.learners = {}, !.is_learner = FALSE]
             s == [q EXCEPT !.votes = {}, !.pending = 0]
  <2>1. Nil \in Id /\ mat \in [Server -> Nat]
      BY DEF Id
  <2>2. n = [s EXCEPT !.match = mat]
      BY <1>1 DEF NodeType
  <2> HIDE DEF mat
  <2>3. p \in NodeType
      BY <1>1, <1>7, <2>1 DEF NodeType
  <2> HIDE DEF p
  <2>4. q \in NodeType
      BY <2>3 DEF NodeType
  <2> HIDE DEF q
  <2>5. s \in NodeType
      BY <2>4 DEF NodeType
  <2> HIDE DEF s, n
  <2> QED BY <2>1, <2>2, <2>5 DEF NodeType
<1>9. /\ n.log = o.log /\ n.committed = c /\ n.applied = 0
      /\ n.role = "Follower" /\ n.term = o.term
    BY <1>1 DEF NodeType
<1> HIDE DEF n
<1>10. AtMostOne(o.log, c)
    BY <1>1, <1>2, <1>7 DEF AtMostOne
<1>11. NodeOK(n) /\ AtMostOne(n.log, n.committed) /\ o.term <= n.term
    BY <1>1, <1>7, <1>8, <1>9, <1>10 DEF NodeOK
<1>12. StepOK(i, n, {})
    BY <1>9, <1>11, FollowerOK, NothingSent DEF o
<1>13. Inv'
    BY <1>5, <1>6, <1>12, StepKeepsInv
<1>14. SavedInv'
  <2>1. saved' \in [Crashable -> Nat]
      BY <1>3, <1>7 DEF SavedInv
  <2>2. ASSUME NEW j \in Crashable
        PROVE  AtMostOne(node'[j].log, saved'[j])
    <3>1. CASE j = i
      <4>1. node'[i] = n /\ saved'[i] = c
          BY <1>2, <1>3, <1>4, <1>5 DEF SavedInv
      <4> QED BY <1>9, <1>11, <3>1, <4>1
    <3>2. CASE j # i
      <4>1. node'[j] = node[j] /\ saved'[j] = saved[j]
          BY <1>3, <1>4, <1>5, <3>2 DEF SavedInv
      <4> QED BY <4>1 DEF SavedInv
    <3> QED BY <3>1, <3>2
  <2> QED BY <2>1, <2>2 DEF SavedInv
<1> QED BY <1>13, <1>14

(* Any other event leaves log and saved commit index as they are, or saves *)
(* its own commit index, beyond which ConfInv has the one change.          *)
LEMMA BecomeSaves ==
    ASSUME Inv, SavedInv, Inv', NEW i \in Server, NEW n, Become(i, n)
    PROVE  SavedInv'
<1>1. node \in [Server -> NodeType] /\ Crashable \subseteq Server
    BY MembershipAssumption DEF Inv, Type
<1>2. node' = [node EXCEPT ![i] = n]
    BY DEF Become
<1>3. node'[i] = n /\ \A j \in Server : j # i => node'[j] = node[j]
    BY <1>1, <1>2
<1>4. n.committed \in Nat /\ AtMostOne(n.log, n.committed)
  <2>1. node'[i] \in NodeType /\ ConfOK(node'[i])
      BY DEF Inv, Type, ConfInv
  <2>2. n \in NodeType /\ ConfOK(n)
      BY <1>3, <2>1
  <2> QED BY <2>2, Fields DEF ConfOK
<1>5. ASSUME NEW j \in Crashable
      PROVE  saved'[j] \in Nat /\ AtMostOne(node'[j].log, saved'[j])
  <2>1. saved'[j] = IF \/ j # i
                       \/ n.log = node[i].log /\ n.term = node[i].term /\ n.vote = node[i].vote
                    THEN saved[j] ELSE n.committed
      BY DEF Become
  <2>2. saved[j] \in Nat /\ AtMostOne(node[j].log, saved[j])
      BY DEF SavedInv
  <2>3. CASE j # i
      BY <1>1, <1>3, <2>1, <2>2, <2>3
  <2>4. CASE j = i /\ n.log = node[i].log
      BY <1>3, <1>4, <2>1, <2>2, <2>4
  <2>5. CASE j = i /\ n.log # node[i].log
      BY <1>3, <1>4, <2>1, <2>5
  <2> QED BY <2>3, <2>4, <2>5
<1>6. saved' = [j \in Crashable |-> saved'[j]]
    BY DEF Become
<1> QED BY <1>5, <1>6 DEF SavedInv

-----------------------------------------------------------------------------
(* The theorems.                                                           *)

LEMMA InitInv == Init => Inv /\ SavedInv
<1> SUFFICES ASSUME Init PROVE Inv /\ SavedInv
    OBVIOUS
<1> DEFINE log == <<Entry(1, Bootstrap), Entry(2, Normal)>>
<1>1. /\ log \in LogType /\ Len(log) = 2
      /\ \A k \in 3..2 : FALSE
    BY DEF LogType, EntryType, Entry, Bootstrap, Normal, Id
<1>2. ASSUME NEW i \in Server
      PROVE  /\ node[i] \in NodeType /\ NodeOK(node[i]) /\ node[i].role # "Candidate"
             /\ node[i].log = log /\ node[i].committed = 2 /\ node[i].applied = 2
  <2> DEFINE mat == [j \in Server |-> IF i = First THEN 2 ELSE IF j = i THEN 1 ELSE 0]
             n == [term |-> 2, vote |-> First, lead |-> First,
                   role |-> IF i = First THEN "Leader" ELSE "Follower",
                   log |-> log, committed |-> 2, applied |-> 2, prs |-> Server,
                   learners |-> {}, is_learner |-> FALSE, votes |-> {},
                   pending |-> IF i = First THEN 1 ELSE 0, match |-> mat]
  <2>1. node[i] = n
      BY DEF Init
  <2>2. First \in Id /\ mat \in [Server -> Nat]
      BY MembershipAssumption DEF Id
  <2> HIDE DEF mat, log
  <2>3. n \in NodeType
      BY <1>1, <2>2 DEF NodeType
  <2> QED BY <1>1, <2>1, <2>3 DEF NodeOK
<1> HIDE DEF log
<1>3. node \in [Server -> NodeType]
    BY <1>2 DEF Init
<1>4. net = {} /\ restarts = 0
    BY DEF Init
<1>5. Type
    BY <1>2, <1>3, <1>4 DEF Type
<1>6. ConfInv
  <2>1. \A i \in Server : AtMostOne(node[i].log, 2) /\ PendingCovers(node[i])
      BY <1>1, <1>2 DEF AtMostOne, PendingCovers
  <2> QED BY <1>2, <1>4, <2>1 DEF ConfInv, ConfOK
<1>7. VotersInv
    BY <1>2, <1>4 DEF VotersInv, CandidateOK
<1>8. SavedInv
  <2>1. saved \in [Crashable -> Nat] /\ \A i \in Crashable : saved[i] = 1
      BY DEF Init
  <2>2. \A i \in Crashable : node[i].log = log
      BY <1>2, MembershipAssumption
  <2>3. AtMostOne(log, 1)
      BY <1>1 DEF AtMostOne
  <2> QED BY <2>1, <2>2, <2>3 DEF SavedInv
<1> QED BY <1>5, <1>6, <1>7, <1>8 DEF Inv

LEMMA NextInv == Inv /\ SavedInv /\ [Next]_vars => (Inv /\ SavedInv)'
<1> SUFFICES ASSUME Inv, SavedInv, [Next]_vars PROVE Inv' /\ SavedInv'
    OBVIOUS
<1>1. CASE UNCHANGED vars
  <2>1. node' = node /\ saved' = saved /\ net' = net /\ restarts' = restarts
      BY <1>1 DEF vars
  <2>2. Type'
      BY <2>1 DEF Inv, Type, NodeOK
  <2>3. ConfInv'
      BY <2>1 DEF Inv, ConfInv, ConfOK, AtMostOne, PendingCovers
  <2>4. VotersInv'
      BY <2>1 DEF Inv, VotersInv, CandidateOK
  <2>5. SavedInv'
      BY <2>1 DEF SavedInv, AtMostOne
  <2> QED BY <2>2, <2>3, <2>4, <2>5 DEF Inv
<1>2. ASSUME NEW i \in Server, Hup(i) \/ Apply(i) \/ Propose(i)
      PROVE  Inv' /\ SavedInv'
  <2>1. Inv'
      BY <1>2, HupKeeps, ApplyKeeps, ProposeKeeps
  <2>2. \E n : Become(i, n)
      BY <1>2 DEF Hup, Apply, Propose
  <2> QED BY <2>1, <2>2, BecomeSaves
<1>3. ASSUME NEW i \in Server, Beat(i)
      PROVE  Inv' /\ SavedInv'
  <2>1. node' = node /\ saved' = saved
      BY <1>3 DEF Beat
  <2>2. SavedInv'
      BY <2>1 DEF SavedInv, AtMostOne
  <2> QED BY <1>3, <2>2, BeatKeeps
<1>4. ASSUME NEW i \in Server, NEW m \in net,
             RecvVote(i, m) \/ RecvVoteResp(i, m) \/ RecvApp(i, m) \/ RecvAppResp(i, m)
      PROVE  Inv' /\ SavedInv'
  <2>1. Inv'
      BY <1>4, RecvVoteKeeps, RecvVoteRespKeeps, RecvAppKeeps, RecvAppRespKeeps
  <2>2. \E n : Become(i, n)
      BY <1>4 DEF RecvVote, RecvVoteResp, RecvApp, RecvAppResp
  <2> QED BY <2>1, <2>2, BecomeSaves
<1> QED BY <1>1, <1>2, <1>3, <1>4, RestartKeeps DEF Next

LEMMA InvAlways == Spec => []Inv
<1> QED BY InitInv, NextInv, PTL DEF Spec

(* A set of indices no two of which differ has at most one element.        *)
LEMMA CountAtMostOne ==
    ASSUME NEW S, \A k, l \in S : k = l
    PROVE  Cardinality(S) <= 1
<1>1. CASE S = {}
    BY <1>1, FS_EmptySet
<1>2. CASE S # {}
  <2>1. PICK k \in S : TRUE
      BY <1>2
  <2>2. S = {k}
      OBVIOUS
  <2> QED BY <2>2, FS_Singleton
<1> QED BY <1>1, <1>2

(* For any servers, any proposed changes, any elections and restarts, a    *)
(* leader never holds two configuration changes that it has not applied:   *)
(* neither the ones it proposes (Raft::step_leader, MsgProp) nor the ones  *)
(* it found in its log when it won (Raft::become_leader).                  *)
THEOREM OneChangeAtATime == Spec => []OneConfPending
<1>1. Inv => OneConfPending
  <2> SUFFICES ASSUME Inv, NEW i \in Server, node[i].role = "Leader"
               PROVE  Cardinality(conf_entries(node[i], node[i].applied + 1,
                                               Len(node[i].log))) <= 1
      BY DEF OneConfPending
  <2> DEFINE S == conf_entries(node[i], node[i].applied + 1, Len(node[i].log))
  <2>1. AtMostOne(node[i].log, node[i].applied)
      BY DEF Inv, ConfInv, ConfOK
  <2>2. \A k, l \in S : k = l
      BY <2>1 DEF conf_entries, AtMostOne
  <2> HIDE DEF S
  <2>3. Cardinality(S) <= 1
      BY <2>2, CountAtMostOne
  <2> QED BY <2>3 DEF S
<1> QED BY <1>1, InvAlways, PTL

(* For any servers, changes, elections and restarts, every vote a          *)
(* candidate counts is that of one of its voters: Raft::poll never has to  *)
(* ask, because Raft::step refuses to campaign before a change that is     *)
(* committed has been applied.                                             *)
THEOREM VotersAlone == Spec => []VotesOfVoters
<1>1. Inv => VotesOfVoters
    BY DEF Inv, VotersInv, CandidateOK, VotesOfVoters
<1> QED BY <1>1, InvAlways, PTL
=============================================================================
