---------------------------- MODULE Replication ----------------------------
(***************************************************************************)
(* How the leader of one term brings one follower to its log: Progress     *)
(* with its three states and its in-flight window (raft/progress.cpp), the *)
(* leader's and the follower's handlers of appends, heartbeats and         *)
(* snapshots (raft/raft.cpp), and the leader's own compaction              *)
(* (server/raft_node.cpp), over two pipes of module Pipe.                  *)
(*                                                                         *)
(* The cluster has three members: the leader, this follower and a third    *)
(* one of which only the acknowledged index is kept.  An entry is its      *)
(* term.  A log keeps the terms of compacted entries: first says what the  *)
(* leader's storage still holds.  As in module Raft a method is an         *)
(* operator from the object before the call to the one after it, msgs      *)
(* collecting what it sends to the follower.                               *)
(***************************************************************************)
EXTENDS Pipe, Integers

CONSTANTS
    LeaderLog,      \* the leader's log when it wins its election
    FollowerLogs,   \* logs the follower may hold by then
    Committed,      \* what the leader knew to be committed by then
    Term,           \* the term it wins
    MaxInflight,    \* Config::max_inflight_msgs
    MaxMsgEntries,  \* Config::max_size_per_msg, counted in entries
    SnapCount,      \* RaftNode::snap_count_
    CatchUp,        \* snapshotCatchUpEntriesN
    ApiCalls,       \* reports that reach the RawNode
    MaxBreaks,      \* bound: broken connections, restarts and reports
    MaxLog          \* bound: no proposal is accepted beyond this length

(* What module Raft shows of a leader that has just won: it holds what is  *)
(* committed, no entry is of its term yet, and the logs match.             *)
ASSUME ReplicationAssumption ==
    /\ Term \in Nat \ {0}
    /\ \A log \in FollowerLogs \cup {LeaderLog} :
          log \in Seq(1..(Term - 1))
    /\ \A log \in FollowerLogs : \A k \in DOMAIN log \cap DOMAIN LeaderLog :
          log[k] = LeaderLog[k] => \A j \in 1..k : log[j] = LeaderLog[j]
    /\ Committed \in 0..Len(LeaderLog)
    /\ MaxInflight \in Nat \ {0} /\ MaxMsgEntries \in Nat \ {0}
    /\ CatchUp \in Nat /\ SnapCount \in Nat /\ CatchUp <= SnapCount
    /\ ApiCalls \subseteq {"report_unreachable", "report_snapshot"}
    /\ MaxBreaks \in Nat /\ MaxLog \in Nat

VARIABLES
    ldr,     \* the leader
    fol,     \* the follower
    saved,   \* the commit index that is sure to be on the follower's disk
    down,    \* what is under way to the follower
    back,    \* what is under way to the leader
    breaks   \* broken connections, restarts and reports so far

vars == <<ldr, fol, saved, down, back, breaks>>

min(a, b) == IF a < b THEN a ELSE b

max(a, b) == IF a < b THEN b ELSE a

-----------------------------------------------------------------------------
(* Progress and InFlights: ins holds the window's contents in order, start *)
(* the position of its first slot in the ring buffer.                      *)

NewProgress(next) ==
    [match |-> 0, next |-> next, state |-> "Probe", paused |-> FALSE,
     recent_active |-> FALSE, pending_snapshot |-> 0, start |-> 0, ins |-> <<>>]

reset_state(p, st) == [p EXCEPT !.paused = FALSE, !.pending_snapshot = 0,
                                !.state = st, !.start = 0, !.ins = <<>>]

become_replicate(p) == [reset_state(p, "Replicate") EXCEPT !.next = p.match + 1]

become_probe(p) ==
    [reset_state(p, "Probe") EXCEPT !.next =
        IF p.state = "Snapshot" THEN max(p.match, p.pending_snapshot) + 1 ELSE p.match + 1]

become_snapshot(p, snapshoti) ==
    [reset_state(p, "Snapshot") EXCEPT !.pending_snapshot = snapshoti]

is_full(p) == Len(p.ins) = MaxInflight

is_paused(p) == CASE p.state = "Probe"     -> p.paused
                  [] p.state = "Replicate" -> is_full(p)
                  [] p.state = "Snapshot"  -> TRUE

(* Mutant: only the first acknowledged message leaves the window.           *)
free_to_one(p, to) ==
    IF p.ins # <<>> /\ Head(p.ins) <= to
    THEN [p EXCEPT !.ins = Tail(@), !.start = IF Len(p.ins) = 1 THEN 0 ELSE (@ + 1) % MaxInflight]
    ELSE p

(* What is left from the first index above to on.                          *)
free_to(p, to) ==
    LET above == {k \in DOMAIN p.ins : p.ins[k] > to}
        first == CHOOSE k \in above : \A l \in above : k <= l
        left  == IF above = {} THEN <<>> ELSE SubSeq(p.ins, first, Len(p.ins))
    IN  [p EXCEPT !.ins = left,
                  !.start = IF left = <<>> THEN 0
                            ELSE (@ + Len(p.ins) - Len(left)) % MaxInflight]

free_first_one(p) == free_to(p, p.start)

maybe_update(p, idx) ==
    [p EXCEPT !.match  = max(@, idx),
              !.paused = @ /\ ~(p.match < idx),
              !.next   = max(@, idx + 1)]

(* Whether maybe_decreases_to takes the rejection for a current one.       *)
decreases(p, rejected) ==
    IF p.state = "Replicate" THEN rejected > p.match ELSE p.next - 1 = rejected

maybe_decreases_to(p, rejected, last) ==
    IF p.state = "Replicate" THEN [p EXCEPT !.next = p.match + 1]
    ELSE [p EXCEPT !.next = max(min(rejected, last + 1), 1), !.paused = FALSE]

(* Mutant: a peer that is exactly at the snapshot still waits for it.       *)
need_snapshot_abort_late(p) == p.state = "Snapshot" /\ p.match > p.pending_snapshot

need_snapshot_abort(p) == p.state = "Snapshot" /\ p.match >= p.pending_snapshot

-----------------------------------------------------------------------------
(* The leader.                                                             *)

log_term(log, idx) == IF idx \in DOMAIN log THEN log[idx] ELSE 0

App(n, ents) ==
    [type |-> "MsgApp", index |-> n.pr.next - 1,
     log_term |-> log_term(n.log, n.pr.next - 1), entries |-> ents,
     commit |-> n.committed]

(* What sending ents does to the progress.                                 *)
sent(p, ents) ==
    LET last == p.next + Len(ents) - 1
    IN  IF ents = <<>> THEN p
        ELSE IF p.state = "Replicate"
        THEN [p EXCEPT !.next = last + 1, !.ins = Append(@, last)]
        ELSE [p EXCEPT !.paused = TRUE]

(* maybe_send_append.  The entries from next on cannot be had once they    *)
(* are compacted; a snapshot goes out in their place to a peer that has    *)
(* been heard of.  Message does not serialise the snapshot it carries.     *)
maybe_send_append(n, send_if_empty) ==
    LET p         == n.pr
        compacted == p.next < n.first
        ents == IF compacted THEN <<>>
                ELSE SubSeq(n.log, p.next, min(p.next + MaxMsgEntries - 1, Len(n.log)))
    IN  IF is_paused(p) \/ (ents = <<>> /\ ~send_if_empty) \/ (compacted /\ ~p.recent_active)
        THEN n
        ELSE IF compacted
        THEN [n EXCEPT !.pr = become_snapshot(p, n.snap),
                       !.msgs = Append(@, [type |-> "MsgSnap"])]
        ELSE [n EXCEPT !.pr = sent(p, ents), !.msgs = Append(@, App(n, ents))]

send_append(n) == maybe_send_append(n, TRUE)

(* while (maybe_send_append(to, false)): the window bounds the rounds.     *)
send_appends(n) ==
    LET after[k \in 0..MaxInflight + 1] ==
            IF k = 0 THEN n
            ELSE CHOOSE m \in {maybe_send_append(b, FALSE) : b \in {after[k - 1]}} : TRUE
    IN  after[MaxInflight + 1]

(* The index a majority of three holds, and whether it can be committed.   *)
mci(n) == max(n.pr.match, n.other)

can_commit(n) == mci(n) > n.committed /\ n.log[mci(n)] = Term

(* maybe_commit, then bcast_append if it did.                              *)
commit_and_send(n) ==
    IF can_commit(n) THEN send_append([n EXCEPT !.committed = mci(n)]) ELSE n

accept_resp(n, m) ==
    LET old_paused == is_paused(n.pr)
        newer      == n.pr.match < m.index
        p  == maybe_update(n.pr, m.index)
        p1 == CASE p.state = "Probe"        -> become_replicate(p)
                [] need_snapshot_abort(p)   -> become_probe(p)
                [] p.state = "Replicate"    -> free_to(p, m.index)
                [] OTHER                    -> p
        n1 == [n EXCEPT !.pr = p1]
        n2 == IF can_commit(n1) THEN commit_and_send(n1)
              ELSE IF old_paused THEN send_append(n1) ELSE n1
    IN  IF newer THEN send_appends(n2) ELSE [n EXCEPT !.pr = p]

reject_resp(n, m) ==
    LET p == maybe_decreases_to(n.pr, m.index, m.reject_hint)
    IN  IF decreases(n.pr, m.index)
        THEN send_append([n EXCEPT !.pr = IF p.state = "Replicate" THEN become_probe(p) ELSE p])
        ELSE n

(* Mutant: a probe is not repeated when a heartbeat is answered.            *)
heartbeat_resp_paused(n) ==
    IF n.pr.match < Len(n.log) THEN send_append(n) ELSE n

heartbeat_resp(n) ==
    LET p == [n.pr EXCEPT !.paused = FALSE]
        freed == IF p.state = "Replicate" /\ is_full(p) THEN free_first_one(p) ELSE p
        n1 == [n EXCEPT !.pr = freed]
    IN  IF freed.match < Len(n.log) THEN send_append(n1) ELSE n1

(* step_leader for the answers of the follower.                            *)
step_leader(n0, m) ==
    LET n == [n0 EXCEPT !.pr.recent_active = TRUE]
    IN  CASE m.type = "MsgAppResp" /\ m.reject  -> reject_resp(n, m)
          [] m.type = "MsgAppResp" /\ ~m.reject -> accept_resp(n, m)
          [] m.type = "MsgHeartbeatResp"        -> heartbeat_resp(n)

(* Everything committed is applied in the Ready of the event, and          *)
(* maybe_trigger_snapshot follows.                                         *)
maybe_trigger_snapshot(n) ==
    IF n.committed - n.snap <= SnapCount THEN n
    ELSE [n EXCEPT !.snap = n.committed, !.first = n.committed - CatchUp + 1]

(* The Ready that ends an event of the leader.                             *)
Ready(n) ==
    /\ \E r \in {n} : /\ ldr' = maybe_trigger_snapshot([r EXCEPT !.msgs = <<>>])
                      /\ down' = Put(down, r.msgs)
    /\ UNCHANGED <<fol, saved>>

Propose ==
    /\ Len(ldr.log) < MaxLog
    /\ Ready(send_append([ldr EXCEPT !.log = Append(@, Term)]))
    /\ UNCHANGED <<back, breaks>>

(* The third member acknowledges up to index i.                            *)
OtherResp ==
    /\ \E i \in (ldr.other + 1)..Len(ldr.log) :
          Ready(commit_and_send([ldr EXCEPT !.other = i]))
    /\ UNCHANGED <<back, breaks>>

UnderWay(p, type) == \E k \in DOMAIN p : \E l \in DOMAIN p[k] : p[k][l].type = type

(* Mutant: the follower is told all that is committed.                      *)
heartbeat_commit_all(n) == n.committed

heartbeat_commit(n) == min(n.pr.match, n.committed)

(* Bound: a heartbeat waits for the last one and its answer to be gone.    *)
Beat ==
    /\ ~UnderWay(down, "MsgHeartbeat") /\ ~UnderWay(back, "MsgHeartbeatResp")
    /\ Ready([ldr EXCEPT !.msgs = <<[type |-> "MsgHeartbeat",
                                     commit |-> heartbeat_commit(ldr)]>>])
    /\ UNCHANGED <<back, breaks>>

(* A message of connection k is read.                                      *)
LeaderReads(k) == k \in DOMAIN back /\ back[k] # <<>> /\ back' = Taken(back, k)

RecvResp(k) ==
    /\ LeaderReads(k)
    /\ Ready(step_leader(ldr, Next1(back, k)))
    /\ UNCHANGED breaks

(* RawNode::report_unreachable.                                            *)
ReportUnreachable ==
    /\ "report_unreachable" \in ApiCalls
    /\ ldr.pr.state = "Replicate"
    /\ breaks < MaxBreaks
    /\ breaks' = breaks + 1
    /\ Ready([ldr EXCEPT !.pr = become_probe(@)])
    /\ UNCHANGED back

(* RawNode::report_snapshot.                                               *)
ReportSnapshot ==
    /\ "report_snapshot" \in ApiCalls
    /\ ldr.pr.state = "Snapshot"
    /\ breaks < MaxBreaks
    /\ breaks' = breaks + 1
    /\ \E failed \in BOOLEAN :
          LET p == IF failed THEN [ldr.pr EXCEPT !.pending_snapshot = 0] ELSE ldr.pr
          IN  Ready([ldr EXCEPT !.pr = [become_probe(p) EXCEPT !.paused = TRUE]])
    /\ UNCHANGED back

-----------------------------------------------------------------------------
(* The follower.                                                           *)

AppResp(index, reject, hint) ==
    [type |-> "MsgAppResp", index |-> index, reject |-> reject, reject_hint |-> hint]

commit_to(f, idx) ==
    IF idx <= f.committed THEN f
    ELSE IF Len(f.log) < idx THEN [f EXCEPT !.fatal = TRUE] ELSE [f EXCEPT !.committed = idx]

(* RaftLog::maybe_append of entries that follow a matching one.            *)
maybe_append(f, m) ==
    LET cs == {k \in DOMAIN m.entries : log_term(f.log, m.index + k) # m.entries[k]}
        ci == CHOOSE k \in cs : \A l \in cs : k <= l
        lastnewi == m.index + Len(m.entries)
        f1 == IF cs = {} THEN f
              ELSE IF m.index + ci <= f.committed THEN [f EXCEPT !.fatal = TRUE]
              ELSE [f EXCEPT !.log = SubSeq(@, 1, m.index + ci - 1)
                                       \o SubSeq(m.entries, ci, Len(m.entries))]
    IN  commit_to(f1, min(m.commit, lastnewi))

(* The follower after a message, and its answer.  handle_snapshot is given *)
(* an empty snapshot, which restore ignores, and writes the index of its   *)
(* answer into the request: the answer's index stays 0.                    *)
step_follower(f, m) ==
    CASE m.type = "MsgApp" /\ m.index < f.committed ->
            <<f, AppResp(f.committed, FALSE, 0)>>
      [] m.type = "MsgApp" /\ m.index >= f.committed
                           /\ log_term(f.log, m.index) = m.log_term ->
            <<maybe_append(f, m), AppResp(m.index + Len(m.entries), FALSE, 0)>>
      [] m.type = "MsgApp" /\ m.index >= f.committed
                           /\ log_term(f.log, m.index) # m.log_term ->
            <<f, AppResp(m.index, TRUE, Len(f.log))>>
      [] m.type = "MsgHeartbeat" ->
            <<commit_to(f, m.commit), [type |-> "MsgHeartbeatResp"]>>
      [] m.type = "MsgSnap" -> <<f, AppResp(0, FALSE, 0)>>

(* WAL::save writes out its buffer, HardState and all, when entries are    *)
(* stored; a commit index alone stays in the buffer (is_must_sync).        *)
FollowerReads(k) == k \in DOMAIN down /\ down[k] # <<>> /\ down' = Taken(down, k)

RecvApp(k) ==
    /\ FollowerReads(k)
    /\ \E after \in {step_follower(fol, Next1(down, k))} :
          /\ fol' = after[1] /\ back' = Put(back, <<after[2]>>)
          /\ saved' = IF after[1].log = fol.log THEN saved ELSE after[1].committed
    /\ UNCHANGED <<ldr, breaks>>

-----------------------------------------------------------------------------
(* Failures.  Bound: two streams in a pipe.                                *)

BreakDown ==
    /\ breaks < MaxBreaks
    /\ breaks' = breaks + 1
    /\ \E n \in 0..Len(down[Len(down)]) : down' = Reconnected(down, n) /\ Len(down') <= 2
    /\ UNCHANGED <<ldr, fol, saved, back>>

BreakBack ==
    /\ breaks < MaxBreaks
    /\ breaks' = breaks + 1
    /\ \E n \in 0..Len(back[Len(back)]) : back' = Reconnected(back, n) /\ Len(back') <= 2
    /\ UNCHANGED <<ldr, fol, saved, down>>

(* The process of the follower is killed and started again.  Its log is on *)
(* disk, its commit index as far as it was written out: up to saved, or    *)
(* further when a snapshot of its own has flushed the WAL since.  What it  *)
(* had not read or written is gone.                                        *)
Restart ==
    /\ breaks < MaxBreaks
    /\ breaks' = breaks + 1
    /\ \E c \in saved..fol.committed : fol' = [fol EXCEPT !.committed = c] /\ saved' = c
    /\ down' = EmptyPipe
    /\ \E n \in 0..Len(back[Len(back)]) : back' = Reconnected(back, n) /\ Len(back') <= 2
    /\ UNCHANGED ldr

-----------------------------------------------------------------------------

(* become_leader and bcast_append of the election just won.                *)
Elected ==
    send_append([log |-> Append(LeaderLog, Term), first |-> 1, snap |-> 0,
                 committed |-> Committed, other |-> 0,
                 pr |-> NewProgress(Len(LeaderLog) + 1), msgs |-> <<>>])

Init ==
    /\ ldr = [Elected EXCEPT !.msgs = <<>>]
    /\ \E log \in FollowerLogs :
          fol = [log |-> log, committed |-> 0, fatal |-> FALSE]
    /\ saved = 0
    /\ down = Put(EmptyPipe, Elected.msgs)
    /\ back = EmptyPipe
    /\ breaks = 0

Next ==
    \/ Propose \/ OtherResp \/ Beat
    \/ \E k \in 1..2 : RecvResp(k) \/ RecvApp(k)
    \/ ReportUnreachable \/ ReportSnapshot
    \/ BreakDown \/ BreakBack \/ Restart

(* The heartbeat timer goes on firing and the servers go on reading their  *)
(* connections; nothing obliges a client, the third member or a failure.   *)
(* A break that empties a pipe may look like a read, but breaks are few.   *)
Fairness ==
    /\ WF_vars(Beat)
    /\ \A k \in 1..2 : WF_back(LeaderReads(k)) /\ WF_down(FollowerReads(k))

Spec == Init /\ [][Next]_vars /\ Fairness

-----------------------------------------------------------------------------
(* Properties.                                                             *)

(* What the follower has committed is what the leader has there, it never  *)
(* commits beyond its log, and what the leader counts as its match it      *)
(* holds: across restarts, lost buffers and late connections.              *)
FollowerAgrees ==
    /\ ~fol.fatal
    /\ fol.committed <= ldr.committed
    /\ ldr.pr.match <= Len(fol.log)
    /\ \A k \in 1..max(fol.committed, ldr.pr.match) : fol.log[k] = ldr.log[k]

(* In state Replicate the window lists, in order and within its size, the  *)
(* last index of every message sent beyond the acknowledged ones.          *)
WindowInOrder ==
    LET p == ldr.pr
    IN  p.state = "Replicate" =>
            /\ p.match < p.next
            /\ p.next <= Len(ldr.log) + 1
            /\ Len(p.ins) <= MaxInflight
            /\ \A k \in DOMAIN p.ins : p.match < p.ins[k] /\ p.ins[k] < p.next
            /\ \A k, l \in DOMAIN p.ins : k < l => p.ins[k] < p.ins[l]

(* "(0, match] is what the node has received" and "(0, next) has been sent  *)
(* to the node" (progress.h): next is beyond match, in every state.        *)
NextAfterMatch == ldr.pr.match < ldr.pr.next

Repaired(p) ==
    /\ p.match < p.next
    /\ p.state = "Snapshot" => p.match < p.pending_snapshot

(* A late rejection may leave next at or below match, and the peer waiting *)
(* for a snapshot it no longer needs.  Match never goes back, and the      *)
(* acknowledgement that moves it undoes both: next is beyond it again, and *)
(* a peer that still waits for a snapshot lacks entries the snapshot has,  *)
(* whatever the same event commits, sends or compacts.                     *)
AckRepairs ==
    [][ldr'.pr.match # ldr.pr.match =>
          ldr.pr.match < ldr'.pr.match /\ Repaired(ldr'.pr)]_vars

CaughtUp == fol.log = ldr.log /\ fol.committed = ldr.committed

(* Whatever was lost on the way, and wherever the logs had parted, the     *)
(* follower ends with the leader's log and commit index, unless the peer   *)
(* is found again and again behind a full window or waiting for a snapshot.*)
CatchesUp ==
    <>[]CaughtUp \/ []<>(is_full(ldr.pr) \/ ldr.pr.state = "Snapshot")
=============================================================================
