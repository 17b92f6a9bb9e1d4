--------------------------------- MODULE Wal ---------------------------------
(***************************************************************************)
(* What one server keeps on disk and how it comes back: the write-ahead    *)
(* log (wal/wal.cpp), the snapshot files (snap/snapshotter.cpp) and the    *)
(* parts of RaftNode (server/raft_node.cpp) that write them, in the order  *)
(* in which they do, and read them in replay_WAL.  The process may be      *)
(* killed between any two of these steps and in the middle of a write.     *)
(*                                                                         *)
(* An entry is represented by its term; a log position covered by the      *)
(* snapshot a process started from holds 0.  The pair of term and vote of  *)
(* a HardState is a single number, term: both are synced whenever either   *)
(* changes.  The store is the set of entry indexes whose effect it has.    *)
(* Snapshots are those the server takes itself: a MsgSnap does not carry   *)
(* its snapshot over the wire.                                             *)
(***************************************************************************)
EXTENDS Integers, Sequences, FiniteSetsExt

CONSTANTS
    SyncFlushes,    \* whether WAL_File::sync leaves nothing in memory
    StartupCrash,   \* whether a crash may hit the very first start
    SnapCount,      \* snap_count_
    MaxTerm,        \* bound on terms
    MaxIndex,       \* bound on indexes
    MaxCrashes      \* bound on crashes

ASSUME WalAssumption ==
    /\ SyncFlushes \in BOOLEAN
    /\ StartupCrash \in BOOLEAN
    /\ SnapCount \in Nat
    /\ MaxTerm \in Nat /\ MaxIndex \in Nat /\ MaxCrashes \in Nat

VARIABLES
    file,       \* WAL records that survive a crash
    stdio,      \* records handed to fwrite and still in the FILE's buffer
    buffer,     \* WAL_File::data_buffer
    dirs,       \* "none", "dir" (the WAL directory exists), "wal" (and its file)
    snaps,      \* snapshot files
    mem,        \* the process: Raft's log and hard state, RaftNode's indexes
    sent,       \* term and log when messages were last sent
    pc,         \* where the process is
    crashes

vars == <<file, stdio, buffer, dirs, snaps, mem, sent, pc, crashes>>

NoSnap == [index |-> 0, term |-> 0]

EmptyState == [term |-> 0, commit |-> 0]

EntryRecord(i, t) == [type |-> "entry", index |-> i, term |-> t]
StateRecord(hs)   == [type |-> "state", index |-> hs.commit, term |-> hs.term]
SnapRecord(snap)  == [type |-> "snap", index |-> snap.index, term |-> snap.term]

(* The configuration entries of a new cluster.                             *)
Bootstrap == <<1, 1>>

NewProcess(snap, log, hs) ==
    [base |-> snap.index, log |-> log, term |-> hs.term, commit |-> hs.commit,
     applied |-> snap.index, snapshot_index |-> snap.index, prev |-> hs,
     state |-> EmptyState, peers |-> FALSE, store |-> {}, matched |-> 0]

-----------------------------------------------------------------------------
(* Reading the disk.                                                       *)

(* Snapshotter::load: a file whose write was cut short is renamed and the  *)
(* next older one is tried; file names sort by term, then by index.        *)
load ==
    IF snaps = {} THEN NoSnap
    ELSE CHOOSE s \in snaps : \A o \in snaps : o.index <= s.index

(* WAL::handle_record_wal_record, after the snapshot at start.  An entry   *)
(* cuts the log at its own position first; a hole is filled with null      *)
(* entries.                                                                *)
Resize(log, n) == [i \in 1..n |-> IF i <= Len(log) THEN log[i] ELSE 0]

(* Mutant: an entry is put in its place and the rest is kept.              *)
handle_record_keeps_tail(start, acc, r) ==
    CASE r.type = "entry" /\ r.index > start.index ->
            [acc EXCEPT !.log = IF r.index <= Len(@) THEN [@ EXCEPT ![r.index] = r.term]
                                ELSE Append(Resize(@, r.index - 1), r.term)]
      [] r.type = "state" -> [acc EXCEPT !.hs = [term |-> r.term, commit |-> r.index]]
      [] OTHER -> acc

handle_record(start, acc, r) ==
    CASE r.type = "entry" /\ r.index > start.index ->
            [acc EXCEPT !.log = Append(Resize(@, r.index - 1), r.term)]
      [] r.type = "state" -> [acc EXCEPT !.hs = [term |-> r.term, commit |-> r.index]]
      [] r.type = "snap" /\ r.index = start.index /\ r.term # start.term ->
            [acc EXCEPT !.fatal = TRUE]
      [] OTHER -> acc

(* What the records say, one after the other.                              *)
replay(start, records) ==
    LET acc[n \in 0..Len(records)] ==
          IF n = 0
          THEN [hs |-> EmptyState, log |-> [i \in 1..start.index |-> 0], fatal |-> FALSE]
          ELSE handle_record(start, acc[n-1], records[n])
    IN  acc[Len(records)]

(* WAL::read_all.  A record cut short by a crash is truncated away.        *)
read_all(start) == replay(start, file)

(* Raft::load_state.                                                       *)
load_state_fails(start, hs, log) ==
    hs # EmptyState /\ hs.commit \notin start.index .. Len(log)

-----------------------------------------------------------------------------
(* Writing to it.                                                          *)

(* Mutant: entries alone do not require a sync.                            *)
is_must_sync_state(hs, state, n) == hs.term # state.term

is_must_sync(hs, state, n) == n # 0 \/ hs.term # state.term

(* WAL_File::sync hands the records to fwrite.  With SyncFlushes it also   *)
(* does what its comment says, "and makes sure the data is persistent".    *)
sync(records) ==
    /\ IF SyncFlushes THEN file' = file \o records /\ UNCHANGED stdio
                      ELSE stdio' = stdio \o records /\ UNCHANGED file
    /\ buffer' = <<>>

hard_state == [term |-> mem.term, commit |-> mem.commit]

(* Ready::entries: what differs from the log of the last Ready.            *)
Unsaved ==
    LET new == {i \in 1..Len(mem.log) :
                  \E j \in 1..i : j > Len(sent.log) \/ mem.log[j] # sent.log[j]}
    IN  IF new = {} THEN <<>>
        ELSE [k \in 1 .. Len(mem.log) - Min(new) + 1 |->
                EntryRecord(Min(new) + k - 1, mem.log[Min(new) + k - 1])]

(* What WAL::save appends for this Ready: its entries, then the HardState  *)
(* if it changed.                                                          *)
Batch ==
    Unsaved \o IF hard_state = mem.prev \/ hard_state = EmptyState THEN <<>>
               ELSE <<StateRecord(hard_state)>>

must_sync ==
    is_must_sync(IF hard_state = mem.prev THEN EmptyState ELSE hard_state,
                 mem.state, Len(Unsaved))

(* What the step that is about to run hands to sync.                       *)
due == mem.applied - mem.snapshot_index > SnapCount

Snapshot == [index |-> mem.applied, term |-> mem.log[mem.applied]]

Writing ==
    CASE pc = "save" /\ Batch # <<>> /\ must_sync -> buffer \o Batch
      [] pc = "trigger" /\ due -> buffer \o <<SnapRecord(Snapshot)>>
      [] OTHER -> <<>>

-----------------------------------------------------------------------------
(* The first start: RaftNode's constructor finds no WAL directory, makes   *)
(* it, then the file (written aside, closed and renamed), and starts a new *)
(* RawNode.                                                                *)

CreateDir ==
    /\ pc = "new"
    /\ dirs' = "dir" /\ pc' = "create"
    /\ UNCHANGED <<file, stdio, buffer, snaps, mem, sent, crashes>>

CreateWal ==
    /\ pc = "create"
    /\ dirs' = "wal" /\ pc' = "start"
    /\ file' = <<SnapRecord(NoSnap)>>
    /\ UNCHANGED <<stdio, buffer, snaps, mem, sent, crashes>>

StartNode ==
    /\ pc = "start"
    /\ mem' = [NewProcess(NoSnap, Bootstrap, [term |-> 1, commit |-> Len(Bootstrap)])
                 EXCEPT !.prev = EmptyState, !.peers = TRUE]
    /\ pc' = "save"
    /\ UNCHANGED <<file, stdio, buffer, dirs, snaps, sent, crashes>>

(* A crash loses both buffers; of what a running sync was writing, any     *)
(* number of records is on disk, and without a flush any number of what    *)
(* earlier ones wrote.                                                     *)
Crash ==
    /\ pc \notin {"new", "down", "fatal"}
    /\ pc \in {"create", "start"} => StartupCrash
    /\ crashes < MaxCrashes
    /\ \E n \in 0 .. Len(stdio \o Writing) :
          file' = file \o SubSeq(stdio \o Writing, 1, n)
    /\ stdio' = <<>> /\ buffer' = <<>>
    /\ crashes' = crashes + 1
    /\ pc' = "down"
    /\ UNCHANGED <<dirs, snaps, mem, sent>>

(* replay_WAL, then restart_node; schedule starts the store with the       *)
(* snapshot's data, which replay_WAL keeps only if no entry follows it.    *)
Restart ==
    /\ pc = "down"
    /\ LET snap == load
           got  == read_all(snap)
           fails == \/ dirs = "dir"
                    \/ got.fatal
                    \/ \E i \in snap.index+1 .. Len(got.log) : got.log[i] = 0
                    \/ load_state_fails(snap, got.hs, got.log)
           hs == IF got.hs = EmptyState THEN [term |-> 0, commit |-> snap.index]
                 ELSE got.hs
       IN  IF fails THEN pc' = "fatal" /\ UNCHANGED <<mem, sent>>
           ELSE /\ pc' = "idle"
                /\ mem' = [NewProcess(snap, got.log, hs) EXCEPT
                             !.prev = IF got.log = <<>> THEN EmptyState ELSE hs,
                             !.store = IF Len(got.log) = snap.index THEN 1..snap.index
                                       ELSE {}]
                /\ sent' = [term |-> hs.term, log |-> got.log]
    /\ UNCHANGED <<file, stdio, buffer, dirs, snaps, crashes>>

-----------------------------------------------------------------------------
(* Events of a running server, each followed by pull_ready_events.         *)

TermAt(i) == IF i = 0 THEN 0 ELSE mem.log[i]

(* A term or a vote.                                                       *)
NewTerm ==
    /\ pc = "idle"
    /\ mem.term < MaxTerm
    /\ mem' = [mem EXCEPT !.term = @ + 1, !.matched = 0]
    /\ pc' = "save"
    /\ UNCHANGED <<file, stdio, buffer, dirs, snaps, sent, crashes>>

(* One or two entries replace what follows a position at or after the      *)
(* commit index, which may advance with them.  What the leader of the      *)
(* current term has sent (matched) is not replaced in that term.           *)
NewEntries ==
    /\ pc = "idle"
    /\ \E after \in Max({mem.commit, mem.matched}) .. Len(mem.log), n \in 1..2, t \in 1..mem.term :
       \E c \in {mem.commit, after + n} :
          /\ after + n <= MaxIndex
          /\ t >= TermAt(after)
          /\ after < Len(mem.log) => t # mem.log[after + 1]
          /\ mem' = [mem EXCEPT !.log = SubSeq(@, 1, after) \o [k \in 1..n |-> t],
                                !.matched = after + n, !.commit = c]
    /\ pc' = "save"
    /\ UNCHANGED <<file, stdio, buffer, dirs, snaps, sent, crashes>>

(* A leader of the current term says what is committed.                    *)
Commit ==
    /\ pc = "idle"
    /\ mem.term >= Max({1, TermAt(Len(mem.log))})
    /\ \E c \in mem.commit+1 .. Len(mem.log) : mem' = [mem EXCEPT !.commit = c]
    /\ pc' = "save"
    /\ UNCHANGED <<file, stdio, buffer, dirs, snaps, sent, crashes>>

-----------------------------------------------------------------------------
(* pull_ready_events.                                                      *)

(* WAL::save.                                                              *)
Save ==
    /\ pc = "save"
    /\ IF Batch # <<>> /\ must_sync THEN sync(buffer \o Batch)
       ELSE buffer' = buffer \o Batch /\ UNCHANGED <<file, stdio>>
    /\ mem' = [mem EXCEPT !.state = IF hard_state = mem.prev THEN @ ELSE hard_state]
    /\ pc' = "apply"
    /\ UNCHANGED <<dirs, snaps, sent, crashes>>

(* Messages leave, committed entries reach the store, and applying the     *)
(* bootstrap entries makes the members known.                              *)
Apply ==
    /\ pc = "apply"
    /\ sent' = [term |-> mem.term, log |-> mem.log]
    /\ mem' = [mem EXCEPT
                 !.applied = mem.commit,
                 !.store = @ \cup (mem.applied+1 .. mem.commit),
                 !.peers = @ \/ (mem.applied < Len(Bootstrap)
                                  /\ mem.commit >= Len(Bootstrap)),
                 !.prev = hard_state]
    /\ pc' = "trigger"
    /\ UNCHANGED <<file, stdio, buffer, dirs, snaps, crashes>>

(* Mutant: the record stays in data_buffer.                                *)
save_snapshot_buffered ==
    buffer' = Append(buffer, SnapRecord(Snapshot)) /\ UNCHANGED <<file, stdio>>

(* maybe_trigger_snapshot: save_snap first puts a record into the WAL...   *)
save_snapshot == sync(Append(buffer, SnapRecord(Snapshot)))

Trigger ==
    /\ pc = "trigger"
    /\ IF due THEN save_snapshot /\ pc' = "snapfile"
       ELSE pc' = "idle" /\ UNCHANGED <<file, stdio, buffer>>
    /\ UNCHANGED <<dirs, snaps, mem, sent, crashes>>

(* ...and then writes and closes the snapshot file.                        *)
SaveSnap ==
    /\ pc = "snapfile"
    /\ snaps' = snaps \cup {Snapshot}
    /\ mem' = [mem EXCEPT !.snapshot_index = mem.applied]
    /\ pc' = "idle"
    /\ UNCHANGED <<file, stdio, buffer, dirs, sent, crashes>>

-----------------------------------------------------------------------------
Init ==
    /\ file = <<>> /\ stdio = <<>> /\ buffer = <<>>
    /\ dirs = "none" /\ snaps = {}
    /\ mem = NewProcess(NoSnap, <<>>, EmptyState)
    /\ sent = [term |-> 0, log |-> <<>>]
    /\ pc = "new" /\ crashes = 0

Next ==
    \/ CreateDir \/ CreateWal \/ StartNode \/ Crash \/ Restart
    \/ NewTerm \/ NewEntries \/ Commit
    \/ Save \/ Apply \/ Trigger \/ SaveSnap

Spec == Init /\ [][Next]_vars

-----------------------------------------------------------------------------
(* Properties.                                                             *)

(* After a crash at any point the server comes back: the WAL is found, has *)
(* no hole after the snapshot, and its last HardState commits at least the *)
(* snapshot and at most the last entry (the LOG_FATAL of load_state).      *)
RestartSucceeds == pc # "fatal"

(* "must save the snapshot index to the WAL before saving the snapshot to  *)
(* maintain the invariant that we only Open the wal at previously-saved    *)
(* snapshot indexes" (RaftNode::save_snap).                                *)
OpenedAtSavedSnapshot ==
    pc = "down" => \A s \in snaps : \E k \in DOMAIN file : file[k] = SnapRecord(s)

NothingResurrected ==
    \A i \in mem'.base+1 .. Len(mem'.log) :
        \E was \in {sent.log, mem.log} : i <= Len(was) /\ mem'.log[i] = was[i]

(* A restarted server holds the term, vote and log it had when it last     *)
(* sent messages, except for positions that the interrupted save had begun *)
(* to overwrite; so it takes back no vote and no acknowledgement.  If it   *)
(* restarts without a snapshot, nothing overwritten earlier comes back.    *)
RestartKeepsSent ==
    [][pc = "down" /\ pc' = "idle" =>
        /\ mem'.term >= sent.term
        /\ \A i \in mem'.base+1 .. Len(sent.log) :
              \/ i <= Len(mem'.log) /\ mem'.log[i] = sent.log[i]
              \/ \E j \in mem'.base+1 .. i :
                    /\ j <= Len(mem'.log) /\ j <= Len(mem.log)
                    /\ mem'.log[j] = mem.log[j] /\ mem.log[j] # sent.log[j]
        /\ mem'.base = 0 => NothingResurrected]_vars

(* What a restarted server takes for committed was committed before, and   *)
(* nothing the store had is missing from the log or the snapshot.          *)
RestartKeepsApplied ==
    [][pc = "down" /\ pc' = "idle" =>
        /\ mem'.commit <= mem.commit
        /\ Len(mem'.log) >= mem.applied
        /\ \A i \in mem'.base+1 .. mem.applied : mem'.log[i] = mem.log[i]]_vars

(* A restart from a snapshot with entries after it (replay_WAL) restores   *)
(* what the snapshot stands for.  "The state of the user is the latest     *)
(* snapshot with the entries after it applied one by one" (notes.md): the  *)
(* store has every applied entry.  "conf_state keeps the membership at the *)
(* time of the snapshot" (proto.h): a server that applied the bootstrap    *)
(* entries knows the members.                                              *)
RestartRestores ==
    pc = "idle" /\ mem.base < Len(mem.log) =>
        /\ mem.store = 1..mem.applied
        /\ mem.applied >= Len(Bootstrap) => mem.peers
=============================================================================
