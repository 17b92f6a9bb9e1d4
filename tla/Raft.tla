-------------------------------- MODULE Raft --------------------------------
(***************************************************************************)
(* A cluster of kv::Raft objects (raft/raft.cpp), each driven by the       *)
(* single event loop of its server (server/raft_node.cpp) and exchanging   *)
(* proto::Message records over a network that may lose, delay, reorder and *)
(* repeat them.  The membership is the bootstrap membership: configuration *)
(* changes, learners, log compaction and MsgSnap, and ReadIndex are not in *)
(* this module.                                                            *)
(*                                                                         *)
(* A method of the C++ class is an operator from the record n of a Raft    *)
(* object to the record after the call; it keeps the method's name.  What  *)
(* the method sends is collected in n.msgs (Raft::msgs_) and leaves the    *)
(* server in the Ready that ends every event.  LOG_FATAL throws: n.fatal.  *)
(***************************************************************************)
EXTENDS Integers, Sequences, FiniteSets

CONSTANTS
    Server,          \* ids of the members
    Nil,             \* the id 0: no leader, no vote, no transferee
    Value,           \* payloads a client may propose
    PreVote,         \* Config::pre_vote
    CheckQuorum,     \* Config::check_quorum
    MaxInflight,     \* Config::max_inflight_msgs
    MaxMsgEntries,   \* Config::max_size_per_msg, counted in entries
    MaxUncommitted,  \* Config::max_uncommitted_entries_size, in payloads
    ApiCalls,        \* RawNode calls made by the application, see below
    WalDurable,      \* a synced WAL record survives a crash
    Elections,       \* bound: <<i, t>> when i may start an election for term t
    Beaters,         \* bound: servers whose heartbeat timer may fire
    Proposers,       \* bound: servers that clients send proposals to
    Links,           \* bound: <<i, j>> when messages from i may reach j
    Superseded,      \* bound: types of which a link keeps the latest event's messages
    Crashable,       \* bound: servers that may crash and restart
    MaxLogLen        \* bound: no proposal is accepted beyond this length

ASSUME ServerAssumption ==
    /\ IsFiniteSet(Server)
    /\ Server # {}
    /\ Nil \notin Server

ASSUME ConfigAssumption ==
    /\ PreVote \in BOOLEAN
    /\ CheckQuorum \in BOOLEAN
    /\ WalDurable \in BOOLEAN
    /\ MaxInflight \in Nat \ {0}
    /\ MaxMsgEntries \in Nat \ {0}
    /\ MaxUncommitted \in Nat
    /\ ApiCalls \subseteq {"transfer_leadership", "report_unreachable"}

ASSUME BoundAssumption ==
    /\ Elections \subseteq Server \X Nat
    /\ Proposers \subseteq Server
    /\ Beaters \subseteq Server
    /\ Links \subseteq Server \X Server
    /\ "MsgVoteResp" \notin Superseded
    /\ Crashable \subseteq Server
    /\ MaxLogLen \in Nat

VARIABLES
    node,   \* node[i]: the Raft object of server i
    net,    \* messages handed to the transport, never forgotten
    disk    \* disk[i]: what replay_WAL would find after a crash of i

vars == <<node, net, disk>>

-----------------------------------------------------------------------------
(* Entries, messages, progress records.                                    *)

Payload == Value \cup {"noop", "conf"}

Entry(t, v) == [term |-> t, value |-> v]

(* Entry::payload_size counted in proposals: the entry a new leader adds   *)
(* is empty and the bootstrap entries are never uncommitted.               *)
payload_size(ents) == Cardinality({k \in DOMAIN ents : ents[k].value \in Value})

VoteTypes == {"MsgVote", "MsgVoteResp", "MsgPreVote", "MsgPreVoteResp"}

MsgTypes == VoteTypes \cup {"MsgProp", "MsgApp", "MsgAppResp", "MsgHeartbeat",
              "MsgHeartbeatResp", "MsgTransferLeader", "MsgTimeoutNow"}

Message(type, to) ==
    [type |-> type, from |-> Nil, to |-> to, term |-> 0, log_term |-> 0,
     index |-> 0, entries |-> <<>>, commit |-> 0, reject |-> FALSE,
     reject_hint |-> 0]

(* Progress and its InFlights window: ins holds the window's contents in   *)
(* order and start the position of its first slot in the ring buffer.      *)
NewProgress(match, next) ==
    [match |-> match, next |-> next, state |-> "Probe", paused |-> FALSE,
     recent_active |-> FALSE, start |-> 0, ins |-> <<>>]

reset_state(p, st) == [p EXCEPT !.paused = FALSE, !.state = st,
                                !.start = 0, !.ins = <<>>]

become_replicate(p) == [reset_state(p, "Replicate") EXCEPT !.next = p.match + 1]

become_probe(p) == [reset_state(p, "Probe") EXCEPT !.next = p.match + 1]

is_full(p) == Len(p.ins) = MaxInflight

is_paused(p) == IF p.state = "Probe" THEN p.paused ELSE is_full(p)

add(p, last) == [p EXCEPT !.ins = Append(@, last)]

free_to(p, to) ==
    LET freed == Cardinality({k \in DOMAIN p.ins :
                                \A l \in 1..k : p.ins[l] <= to})
    IN  [p EXCEPT !.ins = SubSeq(@, freed + 1, Len(@)),
                  !.start = IF freed = Len(p.ins) THEN 0
                            ELSE (@ + freed) % MaxInflight]

free_first_one(p) == free_to(p, p.start)

maybe_update(p, idx) ==
    LET newer == p.match < idx
    IN  [p EXCEPT !.match  = IF newer THEN idx ELSE @,
                  !.paused = IF newer THEN FALSE ELSE @,
                  !.next   = IF @ < idx + 1 THEN idx + 1 ELSE @]

(* Whether maybe_decreases_to takes the rejection for a current one.       *)
decreases(p, rejected) ==
    IF p.state = "Replicate" THEN rejected > p.match ELSE p.next - 1 = rejected

maybe_decreases_to(p, rejected, last) ==
    LET lower == IF rejected < last + 1 THEN rejected ELSE last + 1
    IN  IF p.state = "Replicate"
        THEN [p EXCEPT !.next = p.match + 1]
        ELSE [p EXCEPT !.next = IF lower < 1 THEN 1 ELSE lower,
                       !.paused = FALSE]

-----------------------------------------------------------------------------
(* The log of a node.  Nothing is compacted, so first_index is 1.          *)

last_index(n) == Len(n.log)

log_term(n, idx) == IF idx \in DOMAIN n.log THEN n.log[idx].term ELSE 0

last_term(n) == log_term(n, last_index(n))

(* Mutant: the longer log wins, whatever its last term.                     *)
is_up_to_date_by_length(n, idx, t) == idx >= last_index(n)

is_up_to_date(n, idx, t) ==
    t > last_term(n) \/ (t = last_term(n) /\ idx >= last_index(n))

Fatal(n) == [n EXCEPT !.fatal = TRUE]

commit_to(n, idx) ==
    IF idx <= n.committed THEN n
    ELSE IF last_index(n) < idx THEN Fatal(n) ELSE [n EXCEPT !.committed = idx]

(* Truncate the log after index `after' and append ents.  A gap is refused *)
(* by Unstable::slice.                                                     *)
append(n, after, ents) ==
    IF after < n.committed \/ after > last_index(n) THEN Fatal(n)
    ELSE [n EXCEPT !.log = SubSeq(@, 1, after) \o ents]

(* Offsets in ents of the entries that the log does not already hold.      *)
conflicts(n, after, ents) ==
    {k \in DOMAIN ents : log_term(n, after + k) # ents[k].term}

maybe_append(n, m) ==
    LET cs    == conflicts(n, m.index, m.entries)
        ci    == CHOOSE k \in cs : \A l \in cs : k <= l
        after == m.index + ci - 1
        lastnewi == m.index + Len(m.entries)
        n1 == IF cs = {} THEN n
              ELSE append(n, after, SubSeq(m.entries, ci, Len(m.entries)))
    IN  commit_to(n1, IF m.commit < lastnewi THEN m.commit ELSE lastnewi)

-----------------------------------------------------------------------------
(* Sending.                                                                *)

send(n, ms) ==
    IF \A m \in ms : (m.type \in VoteTypes) <=> (m.term # 0)
    THEN [n EXCEPT !.msgs = @ \cup
            {[m EXCEPT !.from = n.id,
                       !.term = IF m.type \in VoteTypes THEN @ ELSE n.term] : m \in ms}]
    ELSE Fatal(n)

quorum == Cardinality(Server) \div 2 + 1

Peers(n) == Server \ {n.id}

(* Index of the last entry of the k-th message from index `next' on.       *)
ChunkEnd(n, next, k) ==
    LET e == next + k * MaxMsgEntries - 1
    IN  IF e < last_index(n) THEN e ELSE last_index(n)

AppMessage(n, to, next) ==
    [Message("MsgApp", to) EXCEPT
        !.index = next - 1, !.log_term = log_term(n, next - 1),
        !.entries = SubSeq(n.log, next, ChunkEnd(n, next, 1)),
        !.commit = n.committed]

(* The progress after a MsgApp that carries the entries up to last.        *)
Sent(p, last) ==
    IF last < p.next THEN p
    ELSE IF p.state = "Replicate" THEN add([p EXCEPT !.next = last + 1], last)
    ELSE [p EXCEPT !.paused = TRUE]

(* maybe_send_append(to, true) to every server in the set.                 *)
send_append(n, tos) ==
    LET ready == {j \in tos : ~is_paused(n.prs[j])}
        After(j) == Sent(n.prs[j], ChunkEnd(n, n.prs[j].next, 1))
    IN  [send(n, {AppMessage(n, j, n.prs[j].next) : j \in ready})
            EXCEPT !.prs = [j \in Server |-> IF j \in ready THEN After(j) ELSE @[j]]]

bcast_append(n) == send_append(n, Peers(n))

(* The loop that repeats maybe_send_append(to, false) until the window is  *)
(* full or every entry is on its way; the peer is in state Replicate.      *)
send_rest(n, to) ==
    LET p     == n.prs[to]
        todo  == (last_index(n) - p.next + MaxMsgEntries) \div MaxMsgEntries
        room  == MaxInflight - Len(p.ins)
        count == IF todo < room THEN todo ELSE room
        ends  == [k \in 1..count |-> ChunkEnd(n, p.next, k)]
    IN  IF count <= 0 THEN n
        ELSE [send(n, {AppMessage(n, to, p.next + k * MaxMsgEntries) : k \in 0..(count - 1)})
                EXCEPT !.prs[to] = [p EXCEPT !.next = ends[count] + 1,
                                             !.ins = p.ins \o ends]]

(* Mutant: the commit index is not cut to what the peer holds.              *)
bcast_heartbeat_full_commit(n) ==
    send(n, {[Message("MsgHeartbeat", j) EXCEPT !.commit = n.committed] : j \in Peers(n)})

bcast_heartbeat(n) ==
    LET commit(j) == IF n.prs[j].match < n.committed THEN n.prs[j].match ELSE n.committed
    IN  send(n, {[Message("MsgHeartbeat", j) EXCEPT !.commit = commit(j)] : j \in Peers(n)})

-----------------------------------------------------------------------------
(* Roles.                                                                  *)

reset(n, t) ==
    [n EXCEPT !.term = t,
              !.vote = IF t = n.term THEN @ ELSE Nil,
              !.lead = Nil,
              !.lapsed = FALSE,
              !.transferee = Nil,
              !.votes = [j \in Server |-> "none"],
              !.prs = [j \in Server |-> NewProgress(IF j = n.id THEN last_index(n) ELSE 0,
                                                    last_index(n) + 1)],
              !.uncommitted = 0]

become_follower(n, t, lead) ==
    [reset(n, t) EXCEPT !.lead = lead, !.state = "Follower"]

become_candidate(n) ==
    IF n.state = "Leader" THEN Fatal(n)
    ELSE [reset(n, n.term + 1) EXCEPT !.vote = n.id, !.state = "Candidate"]

(* Mutant: the pre-vote phase already opens a new term.                     *)
become_pre_candidate_new_term(n) ==
    [reset(n, n.term + 1) EXCEPT !.state = "PreCandidate"]

become_pre_candidate(n) ==
    IF n.state = "Leader" THEN Fatal(n)
    ELSE [n EXCEPT !.votes = [j \in Server |-> "none"], !.lead = Nil,
                   !.state = "PreCandidate"]

(* The index that a quorum of the members is known to hold.                *)
QuorumMatch(n) ==
    CHOOSE mci \in {n.prs[j].match : j \in Server} :
        /\ Cardinality({k \in Server : n.prs[k].match >= mci}) >= quorum
        /\ Cardinality({k \in Server : n.prs[k].match > mci}) < quorum

(* Mutant: an entry of any term is committed once a quorum holds it.       *)
maybe_commit_any_term(n) ==
    IF QuorumMatch(n) > n.committed THEN commit_to(n, QuorumMatch(n)) ELSE n

maybe_commit(n) ==
    IF QuorumMatch(n) > n.committed /\ log_term(n, QuorumMatch(n)) = n.term
    THEN commit_to(n, QuorumMatch(n))
    ELSE n

(* increase_uncommitted_size would refuse a proposal with payload v.       *)
over_quota(n, v) ==
    n.uncommitted > 0 /\ n.uncommitted + payload_size(<<Entry(n.term, v)>>) > MaxUncommitted

(* Mutant: the entry goes right after the committed ones.                   *)
append_entry_after_commit(n, v) ==
    LET n1 == append(n, n.committed, <<Entry(n.term, v)>>)
    IN  maybe_commit([n1 EXCEPT !.prs[n.id] = maybe_update(@, last_index(n1))])

append_entry(n, v) ==
    LET ents == <<Entry(n.term, v)>>
        n1 == append(n, last_index(n), ents)
    IN  maybe_commit([n1 EXCEPT !.uncommitted = @ + payload_size(ents),
                                !.prs[n.id] = maybe_update(@, last_index(n1))])

become_leader(n) ==
    IF n.state = "Follower" THEN Fatal(n)
    ELSE append_entry([reset(n, n.term) EXCEPT !.lead = n.id, !.state = "Leader",
                                               !.prs[n.id] = become_replicate(@)],
                      "noop")

Count(n, answer) == Cardinality({j \in Server : n.votes[j] = answer})

poll(n, j, granted) ==
    [n EXCEPT !.votes[j] = IF @ # "none" THEN @
                           ELSE IF granted THEN "granted" ELSE "rejected"]

VoteRequests(n, type, t) ==
    {[Message(type, j) EXCEPT !.term = t, !.index = last_index(n),
                              !.log_term = last_term(n)] : j \in Peers(n)}

campaign_election(n) ==
    LET c == poll(become_candidate(n), n.id, TRUE)
    IN  IF Count(c, "granted") = quorum THEN become_leader(c)
        ELSE send(c, VoteRequests(c, "MsgVote", c.term))

campaign_pre_election(n) ==
    LET c == poll(become_pre_candidate(n), n.id, TRUE)
    IN  IF Count(c, "granted") = quorum THEN campaign_election(c)
        ELSE send(c, VoteRequests(c, "MsgPreVote", c.term + 1))

-----------------------------------------------------------------------------
(* Message handlers.                                                       *)

Reply(m, type) == Message(type, m.from)

vote_resp_msg_type(type) == IF type = "MsgVote" THEN "MsgVoteResp" ELSE "MsgPreVoteResp"

(* Mutant: the vote already cast is not looked at.                         *)
can_vote_again(n, m) == n.lead = Nil \/ (m.type = "MsgPreVote" /\ m.term > n.term)

can_vote(n, m) ==
    \/ n.vote = m.from
    \/ n.vote = Nil /\ n.lead = Nil
    \/ m.type = "MsgPreVote" /\ m.term > n.term

grant_vote(n, m) ==
    LET n1 == send(n, {[Reply(m, vote_resp_msg_type(m.type)) EXCEPT !.term = m.term]})
    IN  IF m.type = "MsgVote" THEN [n1 EXCEPT !.lapsed = FALSE, !.vote = m.from] ELSE n1

reject_vote(n, m) ==
    send(n, {[Reply(m, vote_resp_msg_type(m.type)) EXCEPT !.term = n.term, !.reject = TRUE]})

handle_vote(n, m) ==
    IF can_vote(n, m) /\ is_up_to_date(n, m.index, m.log_term)
    THEN grant_vote(n, m) ELSE reject_vote(n, m)

handle_vote_resp(n, m) ==
    LET c == poll(n, m.from, ~m.reject)
    IN  IF Count(c, "granted") = quorum
        THEN IF c.state = "PreCandidate" THEN campaign_election(c)
             ELSE bcast_append(become_leader(c))
        ELSE IF Count(c, "rejected") = quorum THEN become_follower(c, c.term, Nil)
        ELSE c

(* Mutant: the entry before the new ones is looked up, not compared.       *)
handle_append_entries_unchecked(n, m) ==
    IF m.index < n.committed
    THEN send(n, {[Reply(m, "MsgAppResp") EXCEPT !.index = n.committed]})
    ELSE IF m.index <= last_index(n)
    THEN send(maybe_append(n, m),
              {[Reply(m, "MsgAppResp") EXCEPT !.index = m.index + Len(m.entries)]})
    ELSE send(n, {[Reply(m, "MsgAppResp") EXCEPT !.index = m.index, !.reject = TRUE,
                                                 !.reject_hint = last_index(n)]})

handle_append_entries(n, m) ==
    IF m.index < n.committed
    THEN send(n, {[Reply(m, "MsgAppResp") EXCEPT !.index = n.committed]})
    ELSE IF log_term(n, m.index) = m.log_term
    THEN send(maybe_append(n, m),
              {[Reply(m, "MsgAppResp") EXCEPT !.index = m.index + Len(m.entries)]})
    ELSE send(n, {[Reply(m, "MsgAppResp") EXCEPT !.index = m.index, !.reject = TRUE,
                                                 !.reject_hint = last_index(n)]})

handle_heartbeat(n, m) ==
    send(commit_to(n, m.commit), {Reply(m, "MsgHeartbeatResp")})

(* A follower or a candidate hears from the leader m.from of its term.     *)
heard_leader(n, m) ==
    IF n.state = "Follower" THEN [n EXCEPT !.lapsed = FALSE, !.lead = m.from]
    ELSE become_follower(n, m.term, m.from)

app_resp_rejected(n, m) ==
    LET p  == n.prs[m.from]
        p1 == maybe_decreases_to(p, m.index, m.reject_hint)
    IN  IF ~decreases(p, m.index) THEN n
        ELSE send_append([n EXCEPT !.prs[m.from] =
                            IF p1.state = "Replicate" THEN become_probe(p1) ELSE p1],
                         {m.from})

timeout_now(n, j) == send(n, {Message("MsgTimeoutNow", j)})

app_resp_accepted(n, m) ==
    LET p  == n.prs[m.from]
        p1 == maybe_update(p, m.index)
        p2 == IF p1.state = "Probe" THEN become_replicate(p1) ELSE free_to(p1, m.index)
        n2 == [n EXCEPT !.prs[m.from] = p2]
        n3 == maybe_commit(n2)
        n4 == IF n3.committed # n2.committed THEN bcast_append(n3)
              ELSE IF is_paused(p) THEN send_append(n3, {m.from}) ELSE n3
        n5 == send_rest(n4, m.from)
    IN  IF p.match >= m.index THEN [n EXCEPT !.prs[m.from] = p1]
        ELSE IF m.from = n5.transferee /\ n5.prs[m.from].match = last_index(n5)
             THEN timeout_now(n5, m.from) ELSE n5

(* Mutant: a rejection is taken for an acknowledgement.                     *)
handle_app_resp_any(n, m) == app_resp_accepted(n, m)

handle_app_resp(n, m) ==
    LET n1 == [n EXCEPT !.prs[m.from].recent_active = TRUE]
    IN  IF m.reject THEN app_resp_rejected(n1, m) ELSE app_resp_accepted(n1, m)

handle_heartbeat_resp(n, m) ==
    LET p  == [n.prs[m.from] EXCEPT !.recent_active = TRUE, !.paused = FALSE]
        n1 == [n EXCEPT !.prs[m.from] =
                 IF p.state = "Replicate" /\ is_full(p) THEN free_first_one(p) ELSE p]
    IN  IF p.match < last_index(n) THEN send_append(n1, {m.from}) ELSE n1

(* Mutant: the target is not checked for being up to date.                  *)
handle_transfer_leader_early(n, to) ==
    IF to \in {n.id, n.transferee} THEN n
    ELSE timeout_now([n EXCEPT !.transferee = to], to)

handle_transfer_leader(n, to) ==
    LET n1 == [n EXCEPT !.transferee = to, !.lapsed = FALSE]
    IN  IF n.transferee = to THEN n
        ELSE IF to = n.id THEN [n EXCEPT !.transferee = Nil]
        ELSE IF n.prs[to].match = last_index(n) THEN timeout_now(n1, to)
        ELSE send_append(n1, {to})

(* The leader steps a MsgProp that is not dropped.                         *)
propose(n, v) == bcast_append(append_entry(n, v))

check_quorum_active(n) ==
    Cardinality({j \in Server : j = n.id \/ n.prs[j].recent_active}) >= quorum

-----------------------------------------------------------------------------
(* The event loop: one event, then pull_ready_events until nothing is left *)
(* to save, send or apply.  No other event of the server comes in between; *)
(* a crash inside the loop is a crash before the event, or after it with   *)
(* its messages lost.                                                      *)

Saved(n) == [term |-> n.term, vote |-> n.vote, committed |-> n.committed, log |-> n.log]

(* Mutant: a new vote alone does not force a sync.                          *)
must_sync_no_vote(n, d) == n.term # d.term \/ n.log # d.log

(* is_must_sync: a change of the commit index alone stays in the buffer.   *)
must_sync(n, d) == n.term # d.term \/ n.vote # d.vote \/ n.log # d.log

(* Mutant: no protection against going below zero.                          *)
reduce_uncommitted_size_wraps(n, applied) ==
    [n EXCEPT !.uncommitted = @ - payload_size(SubSeq(n.log, applied + 1, n.committed))]

(* Mutant: the first committed entry is not counted.                        *)
reduce_uncommitted_size_late(n, applied) ==
    LET size == payload_size(SubSeq(n.log, applied + 2, n.committed))
    IN  [n EXCEPT !.uncommitted = IF size > @ THEN 0 ELSE @ - size]

(* ready() lowers uncommitted_size_ by what is handed out as committed.    *)
reduce_uncommitted_size(n, applied) ==
    LET size == payload_size(SubSeq(n.log, applied + 1, n.committed))
    IN  [n EXCEPT !.uncommitted = IF size > @ THEN 0 ELSE @ - size]

(* An undelivered message that newer ones of the same kind replace.        *)
Lost(m, ms) ==
    /\ m.type \in Superseded
    /\ \E x \in ms : x.type = m.type /\ x.from = m.from /\ x.to = m.to

pull_ready_events(i, n) ==
    IF n.fatal
    THEN /\ node' = [node EXCEPT ![i] = Fatal(@)]
         /\ UNCHANGED <<net, disk>>
    ELSE /\ node' = [node EXCEPT ![i] =
                       [reduce_uncommitted_size(n, @.committed) EXCEPT !.msgs = {}]]
         /\ net' = {m \in n.msgs : <<m.from, m.to>> \in Links}
                     \cup {m \in net : ~Lost(m, n.msgs)}
         /\ \/ disk' = [disk EXCEPT ![i] = IF must_sync(n, @) THEN Saved(n) ELSE @]
            \/ ~WalDurable /\ disk' = disk

-----------------------------------------------------------------------------
(* A term check precedes every handler (the head of Raft::step).  Messages *)
(* of a lower term go to RecvStale; a vote request of a higher term within *)
(* the lease of a known leader is dropped.  No vote request carries the    *)
(* context kCampaignTransfer that would override the lease.                *)

in_lease(n) == CheckQuorum /\ n.lead # Nil /\ ~n.lapsed

Admitted(n, m) ==
    /\ m.term >= n.term
    /\ ~(m.term > n.term /\ m.type \in {"MsgVote", "MsgPreVote"} /\ in_lease(n))

catch_up(n, m) ==
    IF \/ m.term = n.term
       \/ m.type = "MsgPreVote"
       \/ m.type = "MsgPreVoteResp" /\ ~m.reject
    THEN n
    ELSE become_follower(n, m.term,
                         IF m.type \in {"MsgApp", "MsgHeartbeat"} THEN m.from ELSE Nil)

Alive(i) == ~node[i].fatal

(* Server i takes message m from the transport and n is its Raft object    *)
(* when the handler of m starts.                                           *)
Takes(i, m, n) ==
    /\ Alive(i)
    /\ m.to = i
    /\ Admitted(node[i], m)
    /\ n = catch_up(node[i], m)

(* tick_election: the timer reaches the randomized timeout and MsgHup is   *)
(* stepped.                                                                *)
Hup(i) ==
    /\ Alive(i)
    /\ <<i, node[i].term + 1>> \in Elections
    /\ node[i].state # "Leader"
    /\ LET n == [node[i] EXCEPT !.lapsed = FALSE]
       IN  pull_ready_events(i, IF PreVote THEN campaign_pre_election(n)
                                ELSE campaign_election(n))

(* tick_election: the timer passes election_timeout_ without firing; only  *)
(* the lease check reads that, and only of a server that has a leader.     *)
Lapse(i) ==
    /\ Alive(i)
    /\ CheckQuorum
    /\ node[i].state # "Leader"
    /\ node[i].lead # Nil
    /\ ~node[i].lapsed
    /\ pull_ready_events(i, [node[i] EXCEPT !.lapsed = TRUE])

(* tick_heartbeat, with heartbeat_tick = 1; due: election_timeout_ ticks   *)
(* have passed since the last check.                                       *)
Beat(i, due) ==
    /\ Alive(i)
    /\ i \in Beaters
    /\ node[i].state = "Leader"
    /\ LET n == IF ~due THEN node[i]
                ELSE IF CheckQuorum /\ ~check_quorum_active(node[i])
                THEN become_follower(node[i], node[i].term, Nil)
                ELSE [node[i] EXCEPT !.transferee = Nil]
       IN  pull_ready_events(i, IF n.state = "Leader" THEN bcast_heartbeat(n) ELSE n)

(* MsgProp at n: a leader appends it unless it drops it, a follower passes *)
(* it on, everyone else drops it.                                          *)
step_prop(n, m) ==
    LET v == m.entries[1].value
    IN  IF n.state = "Leader"
        THEN IF n.transferee # Nil \/ over_quota(n, v) THEN n ELSE propose(n, v)
        ELSE IF n.state = "Follower" /\ n.lead # Nil THEN send(n, {[m EXCEPT !.to = n.lead]})
        ELSE n

Propose(i, v) ==
    /\ Alive(i)
    /\ i \in Proposers
    /\ last_index(node[i]) < MaxLogLen
    /\ pull_ready_events(i, step_prop(node[i],
          [Message("MsgProp", Nil) EXCEPT !.entries = <<Entry(0, v)>>]))

RecvProp(i, m) ==
    /\ m.type = "MsgProp"
    /\ last_index(node[i]) < MaxLogLen
    /\ \E n \in {catch_up(node[i], m)} :
          Takes(i, m, n) /\ pull_ready_events(i, step_prop(n, m))

RecvVote(i, m) ==
    /\ m.type \in {"MsgVote", "MsgPreVote"}
    /\ \E n \in {catch_up(node[i], m)} :
          Takes(i, m, n) /\ pull_ready_events(i, handle_vote(n, m))

RecvVoteResp(i, m) ==
    /\ m.type \in {"MsgVoteResp", "MsgPreVoteResp"}
    /\ \E n \in {catch_up(node[i], m)} :
          /\ Takes(i, m, n)
          /\ n.state \in {"PreCandidate", "Candidate"}
          /\ pull_ready_events(i, handle_vote_resp(n, m))

RecvApp(i, m) ==
    /\ m.type = "MsgApp"
    /\ \E n \in {catch_up(node[i], m)} :
          /\ Takes(i, m, n)
          /\ n.state # "Leader"
          /\ pull_ready_events(i, handle_append_entries(heard_leader(n, m), m))

RecvHeartbeat(i, m) ==
    /\ m.type = "MsgHeartbeat"
    /\ \E n \in {catch_up(node[i], m)} :
          /\ Takes(i, m, n)
          /\ n.state # "Leader"
          /\ pull_ready_events(i, handle_heartbeat(heard_leader(n, m), m))

RecvAppResp(i, m) ==
    /\ m.type = "MsgAppResp"
    /\ \E n \in {catch_up(node[i], m)} :
          /\ Takes(i, m, n)
          /\ n.state = "Leader"
          /\ pull_ready_events(i, handle_app_resp(n, m))

RecvHeartbeatResp(i, m) ==
    /\ m.type = "MsgHeartbeatResp"
    /\ \E n \in {catch_up(node[i], m)} :
          /\ Takes(i, m, n)
          /\ n.state = "Leader"
          /\ pull_ready_events(i, handle_heartbeat_resp(n, m))

(* MsgTransferLeader at n.  Passing it on overwrites from, the transferee. *)
step_transfer(n, m) ==
    IF n.state = "Leader" THEN handle_transfer_leader(n, m.from)
    ELSE IF n.state = "Follower" /\ n.lead # Nil THEN send(n, {[m EXCEPT !.to = n.lead]})
    ELSE n

TransferLeader(i, to) ==
    /\ Alive(i)
    /\ "transfer_leadership" \in ApiCalls
    /\ pull_ready_events(i, step_transfer(node[i],
          [Message("MsgTransferLeader", Nil) EXCEPT !.from = to]))

RecvTransferLeader(i, m) ==
    /\ m.type = "MsgTransferLeader"
    /\ \E n \in {catch_up(node[i], m)} :
          Takes(i, m, n) /\ pull_ready_events(i, step_transfer(n, m))

(* campaign(kCampaignTransfer) sends what campaign(kCampaignElection) does. *)
RecvTimeoutNow(i, m) ==
    /\ m.type = "MsgTimeoutNow"
    /\ \E n \in {catch_up(node[i], m)} :
          /\ Takes(i, m, n)
          /\ n.state = "Follower"
          /\ <<i, n.term + 1>> \in Elections
          /\ pull_ready_events(i, campaign_election(n))

(* A message whose type the role of n does not handle only moves the term. *)
Handled(n) ==
    {"MsgVote", "MsgPreVote", "MsgProp", "MsgTransferLeader"} \cup
    CASE n.state = "Leader"   -> {"MsgAppResp", "MsgHeartbeatResp"}
      [] n.state = "Follower" -> {"MsgApp", "MsgHeartbeat", "MsgTimeoutNow"}
      [] OTHER -> {"MsgApp", "MsgHeartbeat", "MsgVoteResp", "MsgPreVoteResp"}

RecvUnhandled(i, m) ==
    \E n \in {catch_up(node[i], m)} :
        /\ Takes(i, m, n)
        /\ m.type \notin Handled(n)
        /\ pull_ready_events(i, n)

(* A message of a lower term: tell a deposed leader, refuse a pre-vote.    *)
RecvStale(i, m) ==
    /\ Alive(i)
    /\ m.to = i
    /\ m.term < node[i].term
    /\ \/ /\ CheckQuorum \/ PreVote
          /\ m.type \in {"MsgHeartbeat", "MsgApp"}
          /\ pull_ready_events(i, send(node[i], {Reply(m, "MsgAppResp")}))
       \/ /\ m.type = "MsgPreVote"
          /\ pull_ready_events(i, reject_vote(node[i], m))

(* RawNode::report_unreachable: the leader gives up optimistic sending.    *)
Unreachable(i, j) ==
    /\ Alive(i)
    /\ "report_unreachable" \in ApiCalls
    /\ node[i].state = "Leader"
    /\ node[i].prs[j].state = "Replicate"
    /\ pull_ready_events(i, [node[i] EXCEPT !.prs[j] = become_probe(@)])

(* The Raft object built by the constructor from what the WAL holds;       *)
(* load_state refuses a commit index beyond the log.                       *)
NewRaft(i, d) ==
    LET n == become_follower(
                [id |-> i, term |-> d.term, vote |-> d.vote, state |-> "Follower",
                 lead |-> Nil, lapsed |-> FALSE, transferee |-> Nil,
                 votes |-> [j \in Server |-> "none"], log |-> d.log,
                 committed |-> d.committed,
                 prs |-> [j \in Server |-> NewProgress(0, 1)],
                 uncommitted |-> 0, msgs |-> {}, fatal |-> FALSE],
                d.term, Nil)
    IN  IF d.committed > Len(d.log) THEN Fatal(n) ELSE n

(* A crash of the process at any time, and the restart of the server.      *)
Restart(i) ==
    /\ i \in Crashable
    /\ node' = [node EXCEPT ![i] = NewRaft(i, disk[i])]
    /\ UNCHANGED <<net, disk>>

(* start_node has bootstrapped every server: one committed entry of term 1 *)
(* per member, saved by the first Ready.                                   *)
Bootstrap == [term |-> 1, vote |-> Nil, committed |-> Cardinality(Server),
              log |-> [k \in 1..Cardinality(Server) |-> Entry(1, "conf")]]

Init ==
    /\ node = [i \in Server |-> NewRaft(i, Bootstrap)]
    /\ net = {}
    /\ disk = [i \in Server |-> Bootstrap]

Receive(i, m) ==
    \/ RecvProp(i, m)
    \/ RecvVote(i, m)
    \/ RecvVoteResp(i, m)
    \/ RecvApp(i, m)
    \/ RecvHeartbeat(i, m)
    \/ RecvAppResp(i, m)
    \/ RecvHeartbeatResp(i, m)
    \/ RecvTransferLeader(i, m)
    \/ RecvTimeoutNow(i, m)
    \/ RecvUnhandled(i, m)
    \/ RecvStale(i, m)

Next ==
    \E i \in Server :
        \/ Hup(i)
        \/ Lapse(i)
        \/ \E due \in BOOLEAN : Beat(i, due)
        \/ \E v \in Value : Propose(i, v)
        \/ \E j \in Server : TransferLeader(i, j) \/ Unreachable(i, j)
        \/ Restart(i)
        \/ \E m \in net : Receive(i, m)

Spec == Init /\ [][Next]_vars

-----------------------------------------------------------------------------
(* Types.                                                                  *)

EntryType == [term : Nat, value : Payload]

Id == Server \cup {Nil}

MessageType ==
    [type : MsgTypes, from : Server, to : Server, term : Nat, log_term : Nat, index : Nat,
     entries : Seq(EntryType), commit : Nat, reject : BOOLEAN, reject_hint : Nat]

ProgressType ==
    [match : Nat, next : Nat \ {0}, state : {"Probe", "Replicate"}, paused : BOOLEAN,
     recent_active : BOOLEAN, start : Nat, ins : Seq(Nat)]

NodeType ==
    [id : Server, term : Nat, vote : Id,
     state : {"Follower", "PreCandidate", "Candidate", "Leader"}, lead : Id,
     lapsed : BOOLEAN, transferee : Id,
     votes : [Server -> {"none", "granted", "rejected"}],
     log : Seq(EntryType), committed : Nat, prs : [Server -> ProgressType],
     uncommitted : Nat, msgs : SUBSET MessageType, fatal : BOOLEAN]

DiskType == [term : Nat, vote : Id, committed : Nat, log : Seq(EntryType)]

(* The variables keep their types, every record knows its own server, and  *)
(* nothing stays in the outbox of a server between two events.             *)
TypeOK ==
    /\ node \in [Server -> NodeType]
    /\ \A i \in Server : node[i].id = i /\ node[i].msgs = {}
    /\ net \subseteq MessageType
    /\ disk \in [Server -> DiskType]

-----------------------------------------------------------------------------
(* Properties.                                                             *)

IsLeader(i) == node[i].state = "Leader"

(* No two servers lead the same term, whatever votes, restarts and stale   *)
(* answers came before (step_candidate counts the votes, handle_vote casts *)
(* them).                                                                  *)
ElectionSafety ==
    \A i, j \in Server :
        IsLeader(i) /\ IsLeader(j) /\ i # j => node[i].term # node[j].term

(* Servers in the same term never believe in different leaders, even when  *)
(* the leader of that term has since stepped down or restarted.            *)
LeadAgreed ==
    \A i, j \in Server :
        node[i].term = node[j].term /\ node[i].lead # Nil /\ node[j].lead # Nil
            => node[i].lead = node[j].lead

(* No LOG_FATAL is reached: no conflict with a committed entry, no commit  *)
(* index beyond the log, no message sent with the wrong term, no hard state *)
(* that load_state refuses.                                                *)
NoFatal == \A i \in Server : Alive(i)

(* Across crashes and restarts a server never goes back to an older term,  *)
(* and never replaces a vote it cast in its term (hard state saved before  *)
(* the vote is sent).                                                      *)
VoteIsFinal ==
    [][\A i \in Server :
          /\ node'[i].term >= node[i].term
          /\ node'[i].term = node[i].term /\ node[i].vote # Nil
               => node'[i].vote = node[i].vote]_vars

(* Two logs that have an entry of the same term at some index agree up to  *)
(* that index (find_conflict and truncation in maybe_append).              *)
LogMatching ==
    \A i, j \in Server :
        \A k \in DOMAIN node[i].log \cap DOMAIN node[j].log :
            node[i].log[k].term = node[j].log[k].term
                => SubSeq(node[i].log, 1, k) = SubSeq(node[j].log, 1, k)

(* What one server has committed, and so applied, no other server has      *)
(* committed differently.                                                  *)
StateMachineSafety ==
    \A i, j \in Server :
        \A k \in 1..node[i].committed :
            k <= node[j].committed => node[i].log[k] = node[j].log[k]

(* A server whose log a quorum would vote for.                             *)
Electable(j) ==
    Cardinality({q \in Server :
        is_up_to_date(node[q], last_index(node[j]), last_term(node[j]))}) >= quorum

(* Whatever any server has committed is in the log of every server that    *)
(* could win an election: the commit rule of maybe_commit counts only      *)
(* entries of the leader's own term.                                       *)
ElectableHoldsCommitted ==
    \A i, j \in Server :
        Electable(j) =>
            /\ node[i].committed <= last_index(node[j])
            /\ \A k \in 1..node[i].committed : node[i].log[k] = node[j].log[k]

(* While a server leads, its log only grows.                               *)
LeaderAppendOnly ==
    [][\A i \in Server :
          IsLeader(i) /\ node'[i].state = "Leader" /\ node'[i].term = node[i].term
            => /\ last_index(node'[i]) >= last_index(node[i])
               /\ SubSeq(node'[i].log, 1, last_index(node[i])) = node[i].log]_vars

(* The match index a leader keeps for a peer is backed by the peer's log,  *)
(* as long as the peer has not moved to a later term.                      *)
MatchIsHeld ==
    \A i, j \in Server :
        IsLeader(i) /\ node[j].term <= node[i].term
            => LET match == node[i].prs[j].match
               IN  /\ match <= last_index(node[j])
                   /\ SubSeq(node[i].log, 1, match) = SubSeq(node[j].log, 1, match)

(* uncommitted_size_ may underestimate the payload of the uncommitted tail *)
(* but never overestimates it, so a leader with nothing uncommitted never  *)
(* refuses a proposal.                                                     *)
QuotaNotOverestimated ==
    \A i \in Server :
        node[i].uncommitted <= payload_size(
            SubSeq(node[i].log, node[i].committed + 1, last_index(node[i])))

(* A leader tells a server to take over (MsgTimeoutNow) only when that     *)
(* server's log has everything its own has, unless the server is already   *)
(* in a later term.                                                        *)
TransferTargetCaughtUp ==
    [][\A m \in net' \ net :
          m.type = "MsgTimeoutNow" /\ node[m.to].term <= m.term
            => /\ last_index(node[m.to]) >= last_index(node'[m.from])
               /\ SubSeq(node[m.to].log, 1, last_index(node'[m.from])) = node'[m.from].log]_vars

(* With Pre-Vote a server that no message reaches never opens a term, so   *)
(* nothing it sends makes the leader of the others step down.              *)
DeafStaysQuiet ==
    \A i \in Server :
        (\A j \in Server \ {i} : <<j, i>> \notin Links) =>
            /\ node[i].term = Bootstrap.term
            /\ \A m \in net : m.from = i /\ m.term > node[i].term => m.type = "MsgPreVote"

=============================================================================
