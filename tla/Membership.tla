---------------------------- MODULE Membership -----------------------------
(***************************************************************************)
(* Changes of the cluster's members: the rules that keep two majorities    *)
(* overlapping while every server switches to a new configuration when it  *)
(* applies the entry, at a time of its own (raft/raft.cpp,                 *)
(* RawNode::apply_conf_change in raft/node.cpp).                           *)
(*                                                                         *)
(* The state kept here is what these rules read: the two maps of Progress  *)
(* as the sets prs and learners with the match of each, the leader's       *)
(* pending_conf_index_, and the index applied, which lags behind           *)
(* committed for as long as the user of RawNode takes.  An append carries  *)
(* the leader's whole log and its commit index at the time it was sent;    *)
(* modules Raft and Replication have the probing, the window and the       *)
(* heartbeats, and module Raft the pre-vote, the leases and the rejected   *)
(* votes that only delay an election.  Of the messages of one kind from a  *)
(* server to the same others, the latest is kept, until it is replaced: it *)
(* may be lost, late or repeated.  An earlier one would be read before the *)
(* next is sent.                                                           *)
(***************************************************************************)
EXTENDS Integers, FiniteSets, Sequences, SequencesExt

CONSTANTS
    Server,       \* the servers that bootstrapped the cluster
    Nil,          \* no server
    First,        \* the server that won the first election
    Changes,      \* bound: the changes proposed for each index of the log
    Elections,    \* bound: pairs <<server, term>> of the campaigns
    Crashable,    \* servers that may restart
    MaxRestarts,  \* bound on the restarts
    Stray         \* what a read before the first element of match_buf_ yields

ASSUME MembershipAssumption ==
    /\ IsFiniteSet(Server) /\ Nil \notin Server /\ First \in Server
    /\ Stray \in Nat
    /\ \A k \in DOMAIN Changes :
          Changes[k] \subseteq [op : {"add", "learner", "remove"}, id : Server]
    /\ Elections \subseteq Server \X Nat
    /\ Crashable \subseteq Server /\ MaxRestarts \in Nat

VARIABLES
    node,      \* the servers' Raft objects
    saved,     \* the commit index on the disk of each server that may restart
    net,       \* the messages under way
    restarts   \* restarts so far

vars == <<node, saved, net, restarts>>

Normal == [op |-> "none", id |-> Nil]

(* The entries add_node writes for every peer, kept as one.                *)
Bootstrap == [op |-> "bootstrap", id |-> Nil]

Entry(term, change) == [term |-> term, op |-> change.op, id |-> change.id]

IsConf(e) == e.op # "none"

min(a, b) == IF a < b THEN a ELSE b

max(a, b) == IF a < b THEN b ELSE a

members(n) == n.prs \cup n.learners

quorum(n) == Cardinality(n.prs) \div 2 + 1

last_term(n) == n.log[Len(n.log)].term

(* log_[from..to] as indices that hold a configuration change.             *)
conf_entries(n, from, to) == {k \in from..to : IsConf(n.log[k])}

-----------------------------------------------------------------------------
(* Methods of Raft, from the object before the call to the one after it.   *)

reset(n, i, term) ==
    [n EXCEPT !.term = term,
              !.vote = IF term = n.term THEN n.vote ELSE Nil,
              !.lead = Nil, !.votes = {}, !.pending = 0,
              !.match = [j \in Server |->
                            IF j = i /\ i \in members(n) THEN Len(n.log) ELSE 0]]

become_follower(n, i, term, lead) ==
    [reset(n, i, term) EXCEPT !.lead = lead, !.role = "Follower"]

(* What raft_log_->maybe_commit is called with: the highest index that a   *)
(* quorum of the voters acknowledged, their quorum-th match in order.  A   *)
(* server that has only learners left reads outside its empty buffer.      *)
majority_match(n) ==
    IF n.prs = {} THEN Stray
    ELSE CHOOSE x \in {n.match[j] : j \in n.prs} :
            /\ Cardinality({j \in n.prs : n.match[j] >= x}) >= quorum(n)
            /\ Cardinality({j \in n.prs : n.match[j] > x}) < quorum(n)

(* RaftLog::term is 0, the term of no server, outside the log.             *)
maybe_commit(n) ==
    LET mci == majority_match(n) IN
    IF mci \in (n.committed + 1)..Len(n.log) /\ n.log[mci].term = n.term
    THEN [n EXCEPT !.committed = mci]
    ELSE n

append_entry(n, i, change) ==
    maybe_commit([n EXCEPT !.log = Append(@, Entry(n.term, change)),
                           !.match[i] = Len(n.log) + 1])

become_leader(n, i) ==
    append_entry([reset(n, i, n.term) EXCEPT
                      !.lead = i, !.role = "Leader", !.pending = Len(n.log)],
                 i, Normal)

become_candidate(n, i) ==
    [reset(n, i, n.term + 1) EXCEPT !.vote = i, !.role = "Candidate",
                                    !.votes = {i}]

unapplied_conf_never(n) == FALSE

(* The entries committed but not yet applied hold a change.                *)
unapplied_conf(n) ==
    conf_entries(n, n.applied + 1, n.committed) # {}

accepted_always(n, change) == change

(* The change that is proposed enters the log as it is, or as an empty     *)
(* entry while an earlier one may still be unapplied.                      *)
accepted(n, change) ==
    IF IsConf(change) /\ n.pending > n.applied THEN Normal ELSE change

propose(n, i, change) ==
    LET kept == accepted(n, change) IN
    append_entry([n EXCEPT !.pending = IF IsConf(kept) THEN Len(n.log) + 1 ELSE @],
                 i, kept)

(* add_node_or_learner for one server: a voter stays a voter, a learner    *)
(* keeps its match when it becomes one, a new member starts at 0.          *)
add_node_or_learner(n, i, id, learner) ==
    IF id \in n.prs \/ (learner /\ id \in n.learners)
    THEN n
    ELSE [n EXCEPT !.prs = IF learner THEN @ ELSE @ \cup {id},
                   !.learners = IF learner THEN @ \cup {id} ELSE @ \ {id},
                   !.match[id] = IF id \in n.learners THEN @ ELSE 0,
                   !.is_learner = IF i = id THEN learner ELSE @]

remove_node(n, id) ==
    LET gone == [n EXCEPT !.prs = @ \ {id}, !.learners = @ \ {id},
                          !.match[id] = 0]
    IN IF members(gone) = {} THEN gone ELSE maybe_commit(gone)

apply_conf_change(n, i, e) ==
    CASE e.op = "none"      -> n
      [] e.op = "bootstrap" -> [n EXCEPT !.prs = @ \cup (Server \ n.learners)]
      [] e.op = "add"       -> add_node_or_learner(n, i, e.id, FALSE)
      [] e.op = "learner"   -> add_node_or_learner(n, i, e.id, TRUE)
      [] e.op = "remove"    -> remove_node(n, e.id)

-----------------------------------------------------------------------------
(* The messages.                                                           *)

MsgVote(n, i) ==
    [type |-> "MsgVote", from |-> i, to |-> n.prs \ {i}, term |-> n.term,
     log_term |-> last_term(n), index |-> Len(n.log)]

MsgVoteResp(i, m) ==
    [type |-> "MsgVoteResp", from |-> i, to |-> {m.from}, term |-> m.term]

MsgApp(n, i) ==
    [type |-> "MsgApp", from |-> i, to |-> members(n) \ {i}, term |-> n.term,
     log |-> n.log, commit |-> n.committed]

MsgAppResp(i, m, term, index) ==
    [type |-> "MsgAppResp", from |-> i, to |-> {m.from}, term |-> term,
     index |-> index]

(* A message is kept while somebody may still take it and until the next   *)
(* one of its kind to the same servers replaces it.                        *)
send(m) ==
    net' = {m} \cup
           {x \in net : /\ \E j \in x.to : node[j].term <= x.term
                       /\ \/ x.type # m.type \/ x.from # m.from
                          \/ x.to # m.to /\ x.type # "MsgApp"}

(* bcast_append                                                            *)
bcast(n, i) == send(MsgApp(n, i))

(* WAL::save writes its buffer out when entries, term or vote changed; a   *)
(* commit index alone stays in the buffer (is_must_sync).                  *)
Become(i, n) ==
    /\ node' = [node EXCEPT ![i] = n]
    /\ saved' = [j \in Crashable |->
          IF \/ j # i
             \/ n.log = node[i].log /\ n.term = node[i].term /\ n.vote = node[i].vote
          THEN saved[j] ELSE n.committed]

-----------------------------------------------------------------------------

(* The cluster after its first election: First won term 2 with every vote, *)
(* and every server applied the bootstrap entries and the leader's own.    *)
Init ==
    /\ node = [i \in Server |->
                  [term |-> 2, vote |-> First, lead |-> First,
                   role |-> IF i = First THEN "Leader" ELSE "Follower",
                   log |-> <<Entry(1, Bootstrap), Entry(2, Normal)>>,
                   committed |-> 2, applied |-> 2, prs |-> Server,
                   learners |-> {}, is_learner |-> FALSE, votes |-> {},
                   pending |-> IF i = First THEN 1 ELSE 0,
                   match |-> [j \in Server |->
                                 IF i = First THEN 2 ELSE IF j = i THEN 1 ELSE 0]]]
    /\ saved = [i \in Crashable |-> 1]
    /\ net = {}
    /\ restarts = 0

(* tick_election, or RawNode::campaign of a voter: MsgHup and campaign.    *)
(* The campaign of MsgTimeoutNow (step_follower) asks for no more than     *)
(* promotable: RaftNode hands out and applies what is committed before it  *)
(* takes the next event, so that the check below would have passed.        *)
Hup(i) ==
    /\ <<i, node[i].term + 1>> \in Elections
    /\ i \in node[i].prs
    /\ node[i].role # "Leader"
    /\ ~unapplied_conf(node[i])
    /\ \E n \in {become_candidate(node[i], i)} :
          IF quorum(n) = 1
          THEN Become(i, become_leader(n, i)) /\ UNCHANGED net
          ELSE Become(i, n) /\ send(MsgVote(n, i))
    /\ UNCHANGED restarts

is_up_to_date(n, m) ==
    \/ m.log_term > last_term(n)
    \/ m.log_term = last_term(n) /\ m.index >= Len(n.log)

(* A request of an earlier term is ignored; one of a later term makes the  *)
(* receiver a follower of that term, a learner included, before it votes.  *)
RecvVote(i, m) ==
    /\ m.type = "MsgVote" /\ i \in m.to /\ m.term >= node[i].term
    /\ \E n \in {IF m.term > node[i].term
                 THEN become_follower(node[i], i, m.term, Nil) ELSE node[i]} :
          IF /\ ~n.is_learner
             /\ n.vote = m.from \/ (n.vote = Nil /\ n.lead = Nil)
             /\ is_up_to_date(n, m)
          THEN /\ Become(i, [n EXCEPT !.vote = m.from])
               /\ send(MsgVoteResp(i, m))
          ELSE Become(i, n) /\ UNCHANGED net
    /\ UNCHANGED restarts

(* RawNode::step takes responses from members only; poll counts them.      *)
RecvVoteResp(i, m) ==
    /\ m.type = "MsgVoteResp" /\ i \in m.to /\ m.term = node[i].term
    /\ node[i].role = "Candidate" /\ m.from \in members(node[i])
    /\ \E n \in {[node[i] EXCEPT !.votes = @ \cup {m.from}]} :
          IF Cardinality(n.votes) = quorum(n)
          THEN \E l \in {become_leader(n, i)} : Become(i, l) /\ bcast(l, i)
          ELSE Become(i, n) /\ UNCHANGED net
    /\ UNCHANGED restarts

(* MsgProp at the leader: RawNode::propose and propose_conf_change.  A     *)
(* leader that removed itself drops it.                                    *)
Propose(i) ==
    /\ node[i].role = "Leader" /\ i \in node[i].prs
    /\ Len(node[i].log) + 1 \in DOMAIN Changes
    /\ \E change \in Changes[Len(node[i].log) + 1] :
       \E n \in {propose(node[i], i, change)} : Become(i, n) /\ bcast(n, i)
    /\ UNCHANGED restarts

(* The leader sends again, to every member it has by now: what an answered *)
(* heartbeat makes it do.                                                  *)
Beat(i) ==
    /\ node[i].role = "Leader"
    /\ bcast(node[i], i)
    /\ UNCHANGED <<node, saved, restarts>>

(* step and handle_append_entries; what is already held is kept.           *)
RecvApp(i, m) ==
    /\ m.type = "MsgApp" /\ i \in m.to /\ m.term >= node[i].term
    /\ \E n \in {IF m.term > node[i].term \/ node[i].role # "Follower"
                 THEN become_follower(node[i], i, m.term, m.from)
                 ELSE [node[i] EXCEPT !.lead = m.from]} :
          IF Len(m.log) < n.committed
          THEN /\ Become(i, n)
               /\ send(MsgAppResp(i, m, n.term, n.committed))
          ELSE /\ Become(i, [n EXCEPT
                      !.log = IF IsPrefix(m.log, @) THEN @ ELSE m.log,
                      !.committed = max(@, min(m.commit, Len(m.log)))])
               /\ send(MsgAppResp(i, m, n.term, Len(m.log)))
    /\ UNCHANGED restarts

RecvAppResp(i, m) ==
    /\ m.type = "MsgAppResp" /\ i \in m.to /\ m.term = node[i].term
    /\ node[i].role = "Leader" /\ m.from \in members(node[i])
    /\ m.index > node[i].match[m.from]
    /\ \E n \in {maybe_commit([node[i] EXCEPT !.match[m.from] = m.index])} :
          /\ Become(i, n)
          /\ IF n.committed > node[i].committed THEN bcast(n, i) ELSE UNCHANGED net
    /\ UNCHANGED restarts

(* The entries of a Ready applied in order: object k of the sequence is    *)
(* the one after the first k of them.                                      *)
publish_entries(n, i) ==
    LET todo == SubSeq(n.log, n.applied + 1, n.committed)
        after[k \in 0..Len(todo)] ==
            IF k = 0 THEN n ELSE apply_conf_change(after[k - 1], i, todo[k])
    IN [after[Len(todo)] EXCEPT !.applied = n.committed]

(* The user of RawNode takes a Ready, publishes what is committed, calling *)
(* apply_conf_change for every change, and advance moves applied_.  A      *)
(* removal makes any server, whatever its role, try to commit and tell the *)
(* others.                                                                 *)
Apply(i) ==
    /\ node[i].applied < node[i].committed
    /\ \E n \in {publish_entries(node[i], i)} :
          /\ Become(i, n)
          /\ IF n.committed > node[i].committed THEN bcast(n, i) ELSE UNCHANGED net
    /\ UNCHANGED restarts

(* A new process: the log, the term and the vote come back, the commit     *)
(* index as far as it was written out (a snapshot may have taken it beyond *)
(* saved), the members are those of the entries it applies again, and none *)
(* before that.                                                            *)
Restart(i) ==
    /\ i \in Crashable /\ restarts < MaxRestarts
    /\ \E c \in saved[i]..node[i].committed :
          /\ node' = [node EXCEPT ![i] = [@ EXCEPT
                !.committed = c, !.lead = Nil, !.role = "Follower", !.applied = 0,
                !.prs = {}, !.learners = {}, !.is_learner = FALSE, !.votes = {},
                !.pending = 0, !.match = [j \in Server |-> 0]]]
          /\ saved' = [saved EXCEPT ![i] = c]
    /\ restarts' = restarts + 1
    /\ UNCHANGED net

Next ==
    \/ \E i \in Server :
          \/ Hup(i)
          \/ Beat(i)
          \/ Apply(i)
          \/ Restart(i)
          \/ Propose(i)
    \/ \E i \in Server, m \in net :
          \/ RecvVote(i, m)
          \/ RecvVoteResp(i, m)
          \/ RecvApp(i, m)
          \/ RecvAppResp(i, m)

Spec == Init /\ [][Next]_vars

-----------------------------------------------------------------------------
(* Two servers never disagree about an entry both hold as committed,       *)
(* whatever configurations they counted their majorities in: one removes a *)
(* server while another, which has not applied the removal, still asks for *)
(* its vote (Raft::maybe_commit, Raft::remove_node, Raft::poll).           *)
CommittedAgree ==
    \A i, j \in Server :
        \A k \in 1..min(node[i].committed, node[j].committed) :
            node[i].log[k] = node[j].log[k]

(* "Only one conf change may be pending (in the log, but not yet applied)  *)
(* at a time" (raft.h:168), on the leader: also on a new one, which found  *)
(* the changes of earlier leaders in its log, and on a restarted one.      *)
OneConfPending ==
    \A i \in Server :
        node[i].role = "Leader" =>
            Cardinality(conf_entries(node[i], node[i].applied + 1,
                                     Len(node[i].log))) <= 1

(* The votes poll counts, without asking whose they are, are votes of the  *)
(* voters whose majority is asked for: the members do not change under a   *)
(* candidate, and a learner's vote is never among them.                    *)
VotesOfVoters ==
    \A i \in Server :
        node[i].role = "Candidate" => node[i].votes \subseteq node[i].prs
=============================================================================
