------------------------------ MODULE LogStore ------------------------------
(***************************************************************************)
(* The log of one server: RaftLog (raft/raft_log.cpp), which reads through *)
(* Unstable (raft/unstable.cpp) to MemoryStorage (raft/storage.cpp), and   *)
(* the loop of RaftNode::pull_ready_events (server/raft_node.cpp) that     *)
(* moves entries and snapshots from the first to the second and hands the  *)
(* committed ones to the key-value store.                                  *)
(*                                                                         *)
(* An entry is represented by its term; its index is its position.  A      *)
(* method is an operator that keeps its name; l is a RaftLog, u an         *)
(* Unstable, s a MemoryStorage.  A snapshot is its metadata, index 0 being *)
(* "no snapshot", as in Snapshot::is_empty.                                *)
(***************************************************************************)
EXTENDS Integers, Sequences, FiniteSetsExt

CONSTANTS
    SnapCount,      \* snap_count_
    CatchUp,        \* snapshotCatchUpEntriesN
    SelfRemoval,    \* whether a committed entry may remove this server
    MaxTerm,        \* bound on terms
    MaxIndex        \* bound on indexes

(* Compaction never fails because the snapshots are at least as far apart  *)
(* as the entries kept behind them (both are 100000).                      *)
ASSUME SnapAssumption ==
    /\ SnapCount \in Nat
    /\ CatchUp \in 0..SnapCount
    /\ SelfRemoval \in BOOLEAN
    /\ MaxTerm \in Nat \ {0} /\ MaxIndex \in Nat

VARIABLES
    log,        \* the RaftLog: storage, unstable, committed, applied
    app,        \* RaftNode's applied_index and snapshot_index
    delivered,  \* entries the store was given, 0 for those inside a snapshot
    rd,         \* the Ready being processed
    pc,         \* where pull_ready_events is; "start" before its first call
    fatal       \* a LOG_FATAL was reached

vars == <<log, app, delivered, rd, pc, fatal>>

Terms == 1..MaxTerm

NoSnap == [index |-> 0, term |-> 0]

(* The configuration entries a new cluster of two starts with.             *)
Bootstrap == <<1, 1>>

NoReady == [entries |-> <<>>, offset |-> 0, snapshot |-> NoSnap,
            committed_entries |-> <<>>, first |-> 0]

-----------------------------------------------------------------------------
(* MemoryStorage: base is the dummy entry entries_[0].                     *)

storage_last_index(s) == s.base.index + Len(s.ents)

Unavailable == -1

storage_term(s, i) ==
    CASE i = s.base.index -> s.base.term
      [] i \in s.base.index+1 .. storage_last_index(s) -> s.ents[i - s.base.index]
      [] OTHER -> Unavailable

(* Entries that start right at the end, or before it, take the place of    *)
(* everything from their first index on; compacted ones are skipped.       *)
storage_gap(s, offset, ents) ==
    ents # <<>> /\ offset > storage_last_index(s) + 1

(* Mutant: entries after the appended ones survive.                        *)
storage_append_no_truncate(s, offset, ents) ==
    LET first == s.base.index + 1
        from  == Max({first, offset})
        new   == SubSeq(ents, from - offset + 1, Len(ents))
    IN  IF ents = <<>> \/ offset + Len(ents) - 1 < first THEN s
        ELSE [s EXCEPT !.ents = SubSeq(@, 1, from - first) \o new
                \o SubSeq(@, from - first + Len(new) + 1, Len(@))]

storage_append(s, offset, ents) ==
    LET first == s.base.index + 1
        from  == Max({first, offset})
    IN  IF ents = <<>> \/ offset + Len(ents) - 1 < first THEN s
        ELSE [s EXCEPT !.ents = SubSeq(@, 1, from - first)
                \o SubSeq(ents, from - offset + 1, Len(ents))]

compact_fails(s, i) == i <= s.base.index \/ i > storage_last_index(s)

compact(s, i) ==
    [s EXCEPT !.base = [index |-> i, term |-> storage_term(s, i)],
              !.ents = SubSeq(@, i - s.base.index + 1, Len(@))]

create_snapshot_fails(s, i) == i <= s.snap \/ i > storage_last_index(s)

create_snapshot(s, i) == [s EXCEPT !.snap = i]

apply_snapshot(s, snapshot) ==
    IF s.snap >= snapshot.index THEN s
    ELSE [snap |-> snapshot.index, base |-> snapshot, ents |-> <<>>]

-----------------------------------------------------------------------------
(* Unstable.                                                               *)

upper(u) == u.offset + Len(u.ents)

maybe_term(u, i) ==
    CASE i < u.offset /\ u.snap # NoSnap /\ u.snap.index = i -> u.snap.term
      [] i \in u.offset .. upper(u) - 1 -> u.ents[i - u.offset + 1]
      [] OTHER -> Unavailable

unstable_stable_to(u, i, t) ==
    IF maybe_term(u, i) = t /\ i >= u.offset
    THEN [u EXCEPT !.offset = i + 1,
                   !.ents = SubSeq(@, i - u.offset + 2, Len(@))]
    ELSE u

unstable_stable_snap_to(u, i) ==
    IF u.snap # NoSnap /\ u.snap.index = i THEN [u EXCEPT !.snap = NoSnap] ELSE u

(* Mutant: the offset skips the first entry after the snapshot.            *)
unstable_restore_skips(snapshot) ==
    [offset |-> snapshot.index + 2, ents |-> <<>>, snap |-> snapshot]

unstable_restore(snapshot) ==
    [offset |-> snapshot.index + 1, ents |-> <<>>, snap |-> snapshot]

(* The slice of the last case is out of bounds beyond upper(u).            *)
truncate_and_append(u, from, ents) ==
    IF ents = <<>> THEN u
    ELSE IF from = upper(u) THEN [u EXCEPT !.ents = @ \o ents]
    ELSE IF from <= u.offset THEN [u EXCEPT !.offset = from, !.ents = ents]
    ELSE [u EXCEPT !.ents = SubSeq(@, 1, from - u.offset) \o ents]

-----------------------------------------------------------------------------
(* RaftLog.                                                                *)

first_index(l) == IF l.unstable.snap # NoSnap THEN l.unstable.snap.index + 1
                  ELSE l.storage.base.index + 1

last_index(l) ==
    CASE l.unstable.ents # <<>> -> upper(l.unstable) - 1
      [] l.unstable.ents = <<>> /\ l.unstable.snap # NoSnap -> l.unstable.snap.index
      [] OTHER -> storage_last_index(l.storage)

term(l, i) ==
    IF i \notin first_index(l) - 1 .. last_index(l) THEN 0
    ELSE IF maybe_term(l.unstable, i) # Unavailable THEN maybe_term(l.unstable, i)
    ELSE storage_term(l.storage, i)

last_term(l) == term(l, last_index(l))

match_term(l, i, t) == term(l, i) = t

(* The index of the first entry that is not in the log, or 0.              *)
find_conflict(l, index, ents) ==
    LET new == {k \in 1..Len(ents) : ~ match_term(l, index + k, ents[k])}
    IN  IF new = {} THEN 0 ELSE index + Min(new)

commit_to_fails(l, c) == c > l.committed /\ c > last_index(l)

commit_to(l, c) == [l EXCEPT !.committed = Max({@, c})]

append_fails(l, after, ents) ==
    ents # <<>> /\ (after < l.committed \/ after + 1 > upper(l.unstable))

append(l, after, ents) ==
    [l EXCEPT !.unstable = truncate_and_append(@, after + 1, ents)]

(* What maybe_append appends: the entries from the first conflict on.      *)
fresh(l, index, ents) ==
    LET ci == find_conflict(l, index, ents)
    IN  IF ci = 0 THEN <<>> ELSE SubSeq(ents, ci - index, Len(ents))

maybe_append_fails(l, index, ents) ==
    LET new == fresh(l, index, ents)
    IN  append_fails(l, index + Len(ents) - Len(new), new)

maybe_append(l, index, c, ents) ==
    LET new == fresh(l, index, ents)
        l1  == append(l, index + Len(ents) - Len(new), new)
    IN  commit_to(l1, Min({c, index + Len(ents)}))

restore(l, snapshot) ==
    [l EXCEPT !.committed = snapshot.index, !.unstable = unstable_restore(snapshot)]

(* Entries lo..hi: those below unstable.offset come from the storage.      *)
slice_fails(l, lo, hi) ==
    \/ lo < first_index(l) \/ hi > last_index(l)
    \/ /\ lo < l.unstable.offset
       /\ Min({hi, l.unstable.offset - 1}) > storage_last_index(l.storage)

slice(l, lo, hi) ==
    [k \in 1 .. hi - lo + 1 |->
        IF lo + k - 1 < l.unstable.offset THEN storage_term(l.storage, lo + k - 1)
        ELSE maybe_term(l.unstable, lo + k - 1)]

next_offset(l) == Max({l.applied + 1, first_index(l)})

has_next_entries(l) == l.committed + 1 > next_offset(l)

-----------------------------------------------------------------------------
(* Events: a call of tick() or step() by the server's only thread, which   *)
(* runs the loop below afterwards until nothing is left to process.  The   *)
(* first event comes before the first run of the loop, so that it finds    *)
(* the bootstrap entries not yet stored, or replayed ones not yet applied. *)

(* Mutant: committed entries left out of a Ready do not cause another.     *)
has_ready_no_next(l) == l.unstable.snap # NoSnap \/ l.unstable.ents # <<>>

has_ready(l) ==
    l.unstable.snap # NoSnap \/ l.unstable.ents # <<>> \/ has_next_entries(l)

Idle == ~fatal /\ (pc = "start" \/ (pc = "idle" /\ ~ has_ready(log)))

Batches == UNION {[1..n -> Terms] : n \in 1..2}

Ordered(t, ents) ==
    \A k \in 1..Len(ents) : (IF k = 1 THEN t ELSE ents[k-1]) <= ents[k]

(* A LOG_FATAL leaves everything as it is.                                 *)
Become(l, fails) ==
    /\ fatal' = fails
    /\ log' = IF fails THEN log ELSE l
    /\ pc' = "idle"
    /\ UNCHANGED <<app, delivered, rd>>

(* The first tick of start_timer.  Later ones leave everything as it is.   *)
Tick == pc = "start" /\ Become(log, FALSE)

(* Raft::append_entry: a leader adds entries of its own term.              *)
AppendEntry ==
    /\ Idle
    /\ \E ents \in Batches :
          /\ Ordered(last_term(log), ents)
          /\ ents[1] = ents[Len(ents)]
          /\ last_index(log) + Len(ents) <= MaxIndex
          /\ Become(append(log, last_index(log), ents),
                    append_fails(log, last_index(log), ents))

(* Raft::maybe_commit: a leader commits an entry of its own term.          *)
maybe_commit(l, i, t) ==
    IF i > l.committed /\ term(l, i) = t THEN commit_to(l, i) ELSE l

MaybeCommit ==
    /\ Idle
    /\ \E i \in 1..MaxIndex, t \in Terms :
          /\ t >= last_term(log)
          /\ Become(maybe_commit(log, i, t), FALSE)

(* Raft::handle_append_entries: a message whose previous entry is below    *)
(* the commit index is answered without touching the log.                  *)
handle_append_entries(l, index, log_term, c, ents) ==
    IF index >= l.committed /\ match_term(l, index, log_term)
    THEN maybe_append(l, index, c, ents)
    ELSE l

HandleAppend ==
    /\ Idle
    /\ \E index \in 0..MaxIndex, log_term \in 0..MaxTerm, c \in 0..MaxIndex,
          ents \in Batches \cup {<<>>} :
          /\ Ordered(log_term, ents)
          /\ (log_term = 0) <=> (index = 0)
          /\ index + Len(ents) <= MaxIndex
          /\ Become(handle_append_entries(log, index, log_term, c, ents),
                    /\ index >= log.committed
                    /\ match_term(log, index, log_term)
                    /\ maybe_append_fails(log, index, ents))

(* Raft::handle_heartbeat: the commit index a leader sends is within what  *)
(* the follower has acknowledged.                                          *)
HandleHeartbeat ==
    /\ Idle
    /\ \E c \in 0..last_index(log) :
          Become(commit_to(log, c), commit_to_fails(log, c))

(* Raft::restore: a snapshot of committed entries newer than ours.         *)
HandleSnapshot ==
    /\ Idle
    /\ \E snapshot \in [index : 1..MaxIndex, term : Terms] :
          /\ snapshot.term >= term(log, log.committed)
          /\ Become(
               CASE snapshot.index <= log.committed -> log
                 [] snapshot.index > log.committed
                      /\ match_term(log, snapshot.index, snapshot.term) ->
                      commit_to(log, snapshot.index)
                 [] OTHER -> restore(log, snapshot), FALSE)

-----------------------------------------------------------------------------
(* pull_ready_events, one iteration in four steps of the same thread.      *)

(* RawNode::ready.  max_next_ents_size_ cuts the committed entries after   *)
(* any number of them, but never before the first.                         *)
(* Mutant: only the entries that are not yet committed are persisted.      *)
ready_entries_uncommitted(l) ==
    LET n == Max({0, l.committed + 1 - l.unstable.offset})
    IN  SubSeq(l.unstable.ents, n + 1, Len(l.unstable.ents))

ready_entries(l) == l.unstable.ents

Ready ==
    /\ pc = "idle" /\ ~fatal /\ has_ready(log)
    /\ LET lo == next_offset(log)
           fails == has_next_entries(log) /\ slice_fails(log, lo, log.committed)
       IN  /\ fatal' = fails
           /\ pc' = IF fails THEN pc ELSE "store"
           /\ \E hi \in IF has_next_entries(log) THEN lo..log.committed ELSE {lo - 1} :
                rd' = IF fails THEN NoReady ELSE
                      [entries |-> ready_entries(log),
                       offset |-> upper(log.unstable) - Len(ready_entries(log)),
                       snapshot |-> log.unstable.snap,
                       committed_entries |-> slice(log, lo, hi),
                       first |-> lo]
    /\ UNCHANGED <<log, app, delivered>>

(* wal_->save, save_snap, apply_snapshot, publish_snapshot, append.        *)
Store ==
    /\ pc = "store" /\ ~fatal
    /\ LET has_snap == rd.snapshot # NoSnap
           s  == IF has_snap THEN apply_snapshot(log.storage, rd.snapshot)
                 ELSE log.storage
           publish_fails == has_snap /\ rd.snapshot.index <= app.applied_index
           fails == publish_fails \/ storage_gap(s, rd.offset, rd.entries)
       IN  /\ fatal' = fails
           /\ IF fails THEN UNCHANGED <<log, app, delivered, pc>>
              ELSE /\ log' = [log EXCEPT !.storage = storage_append(s, rd.offset, rd.entries)]
                   /\ pc' = "publish"
                   /\ IF has_snap
                      THEN /\ app' = [applied_index |-> rd.snapshot.index,
                                      snapshot_index |-> rd.snapshot.index]
                           /\ delivered' = [i \in 1..rd.snapshot.index |-> 0]
                      ELSE UNCHANGED <<app, delivered>>
    /\ UNCHANGED rd

(* entries_to_apply drops what was applied before.                         *)
entries_to_apply_fails(a) ==
    rd.committed_entries # <<>> /\ rd.first > a.applied_index + 1

entries_to_apply(a) ==
    IF rd.committed_entries = <<>> THEN <<>>
    ELSE SubSeq(rd.committed_entries, a.applied_index - rd.first + 2,
                Len(rd.committed_entries))

(* publish_entries.  An entry may remove a server, and if this one leads,  *)
(* remove_node commits what the smaller quorum holds; if it removes this   *)
(* server, publish_entries returns before that entry counts as applied.    *)
(* A configuration entry that does not decode, which it skips in the same  *)
(* way, is left out: node.cpp encodes each one it writes.                  *)
Publish ==
    /\ pc = "publish" /\ ~fatal
    /\ IF entries_to_apply_fails(app)
       THEN fatal' = TRUE /\ UNCHANGED <<log, app, delivered, pc>>
       ELSE LET ents == entries_to_apply(app)
            IN  \E n \in {Len(ents)} \cup IF ~SelfRemoval THEN {} ELSE
                          {k \in 0..Len(ents) : app.applied_index + k >= Len(Bootstrap)},
                   c \in log.committed .. IF ents = <<>> THEN log.committed
                                          ELSE last_index(log) :
                  /\ delivered' = delivered \o SubSeq(ents, 1, n)
                  /\ app' = [app EXCEPT !.applied_index = @ + n]
                  /\ log' = commit_to(log, c)
                  /\ pc' = "snapshot"
                  /\ UNCHANGED fatal
    /\ UNCHANGED rd

(* maybe_trigger_snapshot.                                                 *)
compact_index(a) == IF a.applied_index > CatchUp THEN a.applied_index - CatchUp ELSE 1

TriggerSnapshot ==
    /\ pc = "snapshot" /\ ~fatal
    /\ LET s == create_snapshot(log.storage, app.applied_index)
           due == app.applied_index - app.snapshot_index > SnapCount
           fails == due /\ (\/ create_snapshot_fails(log.storage, app.applied_index)
                            \/ compact_fails(s, compact_index(app)))
       IN  /\ fatal' = fails
           /\ IF due /\ ~fails
              THEN /\ log' = [log EXCEPT !.storage = compact(s, compact_index(app))]
                   /\ app' = [app EXCEPT !.snapshot_index = app.applied_index]
              ELSE UNCHANGED <<log, app>>
           /\ pc' = IF fails THEN pc ELSE "advance"
    /\ UNCHANGED <<delivered, rd>>

(* Ready::applied_cursor.                                                  *)
(* Mutant: a Ready is taken to hold everything that was committed.         *)
applied_cursor_committed(l) == l.committed

applied_cursor(l) ==
    IF rd.committed_entries # <<>> THEN rd.first + Len(rd.committed_entries) - 1
    ELSE IF rd.snapshot # NoSnap THEN rd.snapshot.index
    ELSE l.applied

(* RawNode::advance.                                                       *)
Advance ==
    /\ pc = "advance" /\ ~fatal
    /\ LET n  == Len(rd.entries)
           u1 == IF n > 0 THEN unstable_stable_to(log.unstable, rd.offset + n - 1,
                                                  rd.entries[n])
                 ELSE log.unstable
           u2 == IF rd.snapshot # NoSnap
                 THEN unstable_stable_snap_to(u1, rd.snapshot.index) ELSE u1
       IN  log' = [log EXCEPT !.applied = applied_cursor(log), !.unstable = u2]
    /\ pc' = "idle" /\ rd' = NoReady
    /\ UNCHANGED <<app, delivered, fatal>>

-----------------------------------------------------------------------------
(* A new server bootstraps a log of committed configuration entries; a     *)
(* restarted one has what replay_WAL read behind its last snapshot, and    *)
(* RaftLog's constructor and load_state set the cursors.                   *)
Fresh ==
    [storage |-> [snap |-> 0, base |-> NoSnap, ents |-> <<>>],
     unstable |-> [offset |-> 1, ents |-> Bootstrap, snap |-> NoSnap],
     committed |-> Len(Bootstrap), applied |-> 0]

Restarted(base, ents, c) ==
    [storage |-> [snap |-> base.index, base |-> base, ents |-> ents],
     unstable |-> [offset |-> base.index + Len(ents) + 1, ents |-> <<>>, snap |-> NoSnap],
     committed |-> c, applied |-> base.index]

Init ==
    /\ \/ log = Fresh
       \/ \E c \in 0..Len(Bootstrap) : log = Restarted(NoSnap, Bootstrap, c)
       \/ \E base \in [index : Len(Bootstrap)+1 .. MaxIndex, term : Terms],
             ents \in Batches \cup {<<>>} :
            /\ base.index + Len(ents) <= MaxIndex
            /\ Ordered(base.term, ents)
            /\ \E c \in base.index .. base.index + Len(ents) :
                 log = Restarted(base, ents, c)
    /\ app = [applied_index |-> log.storage.snap, snapshot_index |-> log.storage.snap]
    /\ delivered = [i \in 1..log.storage.snap |-> 0]
    /\ rd = NoReady
    /\ pc = "start"
    /\ fatal = FALSE

Event == Tick \/ AppendEntry \/ MaybeCommit \/ HandleAppend \/ HandleHeartbeat \/ HandleSnapshot

Loop == Ready \/ Store \/ Publish \/ TriggerSnapshot \/ Advance

Next == Event \/ Loop

(* The loop runs until nothing is ready before the thread takes the next   *)
(* event: an iteration that has begun is always finished.  The timer makes *)
(* it run for the first time if no message does.                           *)
Spec == Init /\ [][Next]_vars /\ WF_vars(Loop) /\ WF_vars(Tick)

-----------------------------------------------------------------------------
(* Properties.                                                             *)

(* No order of appends, truncations, snapshots and Ready iterations makes  *)
(* one of the LOG_FATALs of raft_log.cpp, unstable.cpp, storage.cpp and    *)
(* raft_node.cpp fire: a gap in the storage, a slice out of bounds, a      *)
(* snapshot behind the store, an entry beyond the applied index + 1, or a  *)
(* compaction outside the log.                                             *)
NoFatal == ~fatal

(* "The user must persist entries before applying them, or entries before  *)
(* the commit index would be applied that are not yet durable" (comment in *)
(* RaftLog::maybe_append): whatever the store was given is in the stable   *)
(* storage, also in the middle of an iteration.                            *)
DurableBeforeApplied ==
    /\ Len(delivered) <= storage_last_index(log.storage)
    /\ \A i \in log.storage.base.index+1 .. Len(delivered) :
          delivered[i] # 0 => delivered[i] = storage_term(log.storage, i)

(* "Invariant: applied <= committed" (raft_log.h), and between iterations  *)
(* RaftLog's cursor, RaftNode's applied index and the store agree, so      *)
(* that no entry is delivered twice or skipped by the next Ready.          *)
CursorsAgree ==
    /\ log.applied <= log.committed
    /\ pc = "idle" => /\ log.applied = app.applied_index
                      /\ app.applied_index = Len(delivered)

(* The storage and the unstable part never leave a hole between them, and  *)
(* compaction never removes an entry that is still to be read.             *)
NoHole ==
    /\ log.unstable.snap = NoSnap =>
          log.unstable.offset <= storage_last_index(log.storage) + 1
    /\ pc = "idle" => log.storage.base.index <= log.applied
    /\ log.storage.snap >= log.storage.base.index

(* What is read through RaftLog is one log; only its uncommitted suffix is *)
(* ever replaced, and the store receives its entries in order, each once.  *)
Abstract == INSTANCE AbstractLog WITH
    base <- [index |-> first_index(log) - 1, term |-> term(log, first_index(log) - 1)],
    ents <- [k \in 1 .. last_index(log) - first_index(log) + 1 |->
                term(log, first_index(log) + k - 1)],
    committed <- log.committed,
    delivered <- delivered

OneLog == Abstract!Spec

(* Everything committed is delivered, although a Ready carries only as     *)
(* many committed entries as max_committed_size_per_ready allows.          *)
EverythingDelivered ==
    \A i \in 1..MaxIndex : log.committed >= i ~> Len(delivered) >= i
=============================================================================
