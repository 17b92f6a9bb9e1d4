------------------------------ MODULE RedisStore ------------------------------
(***************************************************************************)
(* The key-value store of one server: RedisStore and RedisSession          *)
(* (server/redis_store.cpp, server/redis_session.cpp) on the redis thread, *)
(* and the parts of RaftNode (server/raft_node.cpp) on the raft thread     *)
(* that they exchange work with.  Each thread runs the closures posted to  *)
(* its io_service one after the other, in the order of posting; socket     *)
(* events come in between.                                                 *)
(*                                                                         *)
(* Raft is seen from above: log is the sequence of entries the cluster     *)
(* commits, proposed the RaftCommits that some leader may still commit.    *)
(* A request is identified by its number in order of arrival; req carries  *)
(* that number next to the commit_id that the program uses instead.        *)
(***************************************************************************)
EXTENDS Integers, Sequences

CONSTANTS
    Session,      \* client connections
    Key,          \* keys
    Value,        \* values
    NoValue,      \* what GET answers for a missing key
    SnapCount,    \* RaftNode::snap_count_
    Command,      \* bound: the writes of the clients of this server
    OtherCommit,  \* bound: id and command of the writes of other servers
    MaxRequests,  \* bound on requests
    MaxLog,       \* bound on committed entries
    MaxRestarts   \* bound on restarts of the server

(* RedisCommitData: an assignment or a deletion, the keys it is about and  *)
(* the value it gives them.                                                *)
CommandType == [op : {"set", "del"}, keys : SUBSET Key, value : Value \cup {NoValue}]

ASSUME RedisAssumption ==
    /\ SnapCount \in Nat
    /\ MaxRequests \in Nat /\ MaxLog \in Nat /\ MaxRestarts \in Nat
    /\ NoValue \notin Value
    /\ Command \subseteq CommandType /\ OtherCommit \subseteq Nat \X CommandType

VARIABLES
    key_values,       \* the map, of the redis thread
    pending,          \* pending_requests_: commit_id -> request, or None
    next_request_id,
    redis_queue,      \* closures posted to the redis thread
    raft_queue,       \* closures posted to the raft thread
    waiting,          \* the raft thread waits for the data of a snapshot
    applied_index,
    snapshot,         \* the last snapshot saved: its index and its map
    log,              \* committed entries
    proposed,         \* entries accepted by Raft that may still be committed
    session,          \* per connection, the send buffer, the write under way, quit_
    received,         \* per connection, the replies that reached the client
    request,          \* requests in order of arrival
    start,            \* index and map that the map of this process is built on
    restarts

vars == <<key_values, pending, next_request_id, redis_queue, raft_queue, waiting,
          applied_index, snapshot, log, proposed, session, received, request,
          start, restarts>>

raft_vars  == <<applied_index, snapshot, log, proposed, waiting, raft_queue>>
ghost_vars == <<start, restarts>>

-----------------------------------------------------------------------------
None == 0        \* no request

EmptyMap == [k \in Key |-> NoValue]

(* RaftCommit; a deletion names its keys, an assignment a single one.      *)
SetCommand(k, v) == [op |-> "set", keys |-> {k}, value |-> v]
DelCommand(ks)   == [op |-> "del", keys |-> ks, value |-> NoValue]

(* node: whether the entry was proposed by this server.                    *)
Commit(node, id, cmd, req) ==
    [node |-> node, id |-> id, cmd |-> cmd, req |-> req]

(* An entry without data, as a new leader appends it.                      *)
NoOp == Commit("none", 0, DelCommand({}), None)

apply(kv, cmd) == [k \in Key |-> IF k \in cmd.keys THEN cmd.value ELSE kv[k]]

(* A closure posted to the redis thread, with what it captured.            *)
Closure(kind, commit, map) == [kind |-> kind, commit |-> commit, map |-> map]

read_commit(e) == Closure("read_commit", e, EmptyMap)

(* The map kv after a closure, and after the closures of a queue.          *)
effect(kv, cl) ==
    CASE cl.kind = "read_commit" -> apply(kv, cl.commit.cmd)
      [] cl.kind = "recover" -> cl.map
      [] OTHER -> kv

Effects(kv, queue) ==
    LET map[i \in 0..Len(queue)] == IF i = 0 THEN kv ELSE effect(map[i - 1], queue[i])
    IN  map[Len(queue)]

(* The map kv with the committed entries after index from, up to index to. *)
Replay(kv, from, to) == Effects(kv, [i \in 1..(to - from) |-> read_commit(log[from + i])])

NewSession == [buffer |-> <<>>, writing |-> 0, broken |-> FALSE, quit |-> FALSE]

-----------------------------------------------------------------------------
(* RedisSession: replies.  A reply is the number of its request and its    *)
(* text.  writing is the length of the buffer when async_write was called. *)

start_send(s) == [s EXCEPT !.writing = Len(s.buffer)]

(* Mutant: a reply is only written out at once or not at all.              *)
send_reply_when_idle(s, r) ==
    IF s.buffer = <<>> THEN start_send([s EXCEPT !.buffer = Append(@, r)]) ELSE s

send_reply(s, r) ==
    LET s1 == [s EXCEPT !.buffer = Append(@, r)]
    IN  IF s.buffer = <<>> THEN start_send(s1) ELSE s1

Reply(req, text) == [req |-> req, text |-> text]

(* The callback kept in pending_requests_ answers request r.               *)
answer(r, text) ==
    session' = [session EXCEPT ![request[r].session] = send_reply(@, Reply(r, text))]

(* The handler of async_write: everything it was given has been sent.      *)
Written(c) ==
    LET s == session[c]
    IN  /\ s.writing > 0
        /\ ~s.broken
        /\ received' = [received EXCEPT ![c] = @ \o SubSeq(s.buffer, 1, s.writing)]
        /\ session' = [session EXCEPT ![c] =
                         start_send([s EXCEPT !.buffer = SubSeq(@, s.writing + 1, Len(@))])]
        /\ UNCHANGED <<key_values, pending, next_request_id, redis_queue, raft_vars,
                       request, ghost_vars>>

(* A write error: the handler only returns, so the buffer never empties    *)
(* and nothing is sent any more, while reads go on.                        *)
Broken(c) ==
    /\ session[c].writing > 0
    /\ ~session[c].broken
    /\ session' = [session EXCEPT ![c].broken = TRUE]
    /\ UNCHANGED <<key_values, pending, next_request_id, redis_queue, raft_vars,
                   received, request, ghost_vars>>

-----------------------------------------------------------------------------
(* RedisSession: commands.  handle_read hands them over one by one.  Bytes *)
(* are not modelled: a line that comes in two reads loses its first part   *)
(* (lines 115 to 118), and what the parser makes of the rest is a command  *)
(* of Command, one that is answered at once, or a protocol error.          *)

Arrive(c, cmd) ==
    /\ Len(request) < MaxRequests
    /\ ~session[c].quit
    /\ request' = Append(request, [session |-> c, cmd |-> cmd])

(* The end of a connection's reads: quit_ on a protocol error, or a read   *)
(* error.  Replies that are still due go out.                              *)
Quit(c) ==
    /\ ~session[c].quit
    /\ session' = [session EXCEPT ![c].quit = TRUE]
    /\ UNCHANGED <<key_values, pending, next_request_id, redis_queue, raft_vars,
                   received, request, ghost_vars>>

(* on_redis_reply with an answer that needs no Raft.                       *)
AnswerNow(c, cmd, text) ==
    /\ Arrive(c, cmd)
    /\ session' = [session EXCEPT ![c] = send_reply(@, Reply(Len(request) + 1, text))]
    /\ UNCHANGED <<key_values, pending, next_request_id, redis_queue, raft_vars,
                   received, ghost_vars>>

(* GET and KEYS read the map of the redis thread; PING, an unknown command *)
(* and a wrong number or type of arguments are answered with a constant.   *)
(* Which text it is makes no difference to what follows.                   *)
Read(c) == AnswerNow(c, NoOp.cmd, "reply")

(* set_command and del_command with RedisStore::set and del: the closure   *)
(* of RaftNode::propose goes to the raft thread.                           *)
Write(c, cmd) ==
    /\ Arrive(c, cmd)
    /\ next_request_id' = next_request_id + 1
    /\ pending' = [pending EXCEPT ![next_request_id] = Len(request) + 1]
    /\ raft_queue' = Append(raft_queue, Commit("self", next_request_id, cmd, Len(request) + 1))
    /\ UNCHANGED <<key_values, redis_queue, applied_index, snapshot, log, proposed,
                   waiting, session, received, ghost_vars>>

-----------------------------------------------------------------------------
(* The raft thread.                                                        *)

(* RaftNode::propose: Raft takes the proposal (appends or forwards it) or  *)
(* drops it; the callback posts the status back.                           *)
Propose(ok) ==
    /\ ~waiting
    /\ raft_queue # <<>>
    /\ raft_queue' = Tail(raft_queue)
    /\ proposed' = IF ok THEN proposed \cup {Head(raft_queue)} ELSE proposed
    /\ redis_queue' = Append(redis_queue,
          Closure(IF ok THEN "accepted" ELSE "dropped", Head(raft_queue), EmptyMap))
    /\ UNCHANGED <<key_values, pending, next_request_id, applied_index, snapshot, log,
                   waiting, session, received, request, ghost_vars>>

(* The cluster commits: a proposal of this server, one of another server   *)
(* with a request id of that server, or a leader's empty entry.            *)
Committable ==
    proposed \cup {NoOp} \cup {Commit("other", o[1], o[2], None) : o \in OtherCommit}

CommitEntry(e) ==
    /\ Len(log) < MaxLog
    /\ log' = Append(log, e)
    /\ proposed' = proposed \ {e}
    /\ UNCHANGED <<key_values, pending, next_request_id, redis_queue, raft_queue, waiting,
                   applied_index, snapshot, session, received, request, ghost_vars>>

(* Mutant: the map is taken without asking the redis thread for it.        *)
maybe_trigger_snapshot_now(n, posted) ==
    /\ redis_queue' = redis_queue \o posted
    /\ snapshot' = IF n - snapshot.index > SnapCount
                   THEN [index |-> n, map |-> key_values] ELSE snapshot
    /\ UNCHANGED waiting

(* After the closures posted for the entries up to n: get_snapshot is      *)
(* posted and the thread waits.                                            *)
maybe_trigger_snapshot(n, posted) ==
    LET due == n - snapshot.index > SnapCount
    IN  /\ redis_queue' = redis_queue \o posted
              \o (IF due THEN <<Closure("get_snapshot", NoOp, EmptyMap)>> ELSE <<>>)
        /\ waiting' = due
        /\ UNCHANGED snapshot

(* Mutant: the entry after the last applied one is passed over.            *)
publish_entries_skips(n) ==
    [i \in 1..(n - applied_index - 1) |-> read_commit(log[applied_index + 1 + i])]

(* RedisStore::read_commit is posted for every entry with data.            *)
publish_entries(n) ==
    LET posted[i \in applied_index..n] ==
          IF i = applied_index THEN <<>>
          ELSE IF log[i] = NoOp THEN posted[i - 1]
          ELSE Append(posted[i - 1], read_commit(log[i]))
    IN  posted[n]

(* An iteration of pull_ready_events with the committed entries up to n.   *)
Publish(n) ==
    /\ ~waiting
    /\ n \in applied_index + 1 .. Len(log)
    /\ applied_index' = n
    /\ maybe_trigger_snapshot(n, publish_entries(n))
    /\ UNCHANGED <<key_values, pending, next_request_id, raft_queue, log, proposed,
                   session, received, request, ghost_vars>>

(* publish_snapshot: a snapshot of another server replaces the map.        *)
PublishSnapshot(n) ==
    /\ ~waiting
    /\ n \in applied_index + 1 .. Len(log)
    /\ applied_index' = n
    /\ snapshot' = [index |-> n, map |-> Replay(EmptyMap, 0, n)]
    /\ start' = snapshot'
    /\ redis_queue' = Append(redis_queue, Closure("recover", NoOp, snapshot'.map))
    /\ UNCHANGED <<key_values, pending, next_request_id, raft_queue, waiting, log, proposed,
                   session, received, request, restarts>>

-----------------------------------------------------------------------------
(* The redis thread runs the closure at the head of its queue.             *)

Run(kind) ==
    /\ redis_queue # <<>>
    /\ Head(redis_queue).kind = kind
    /\ redis_queue' = Tail(redis_queue)
    /\ UNCHANGED <<next_request_id, raft_queue, log, proposed, applied_index,
                   received, request, ghost_vars>>

(* Mutant: the request stays in pending_requests_.                         *)
settle_keeps(id, text) ==
    IF pending[id] = None THEN UNCHANGED <<pending, session>>
    ELSE answer(pending[id], text) /\ UNCHANGED pending

(* The callback found under commit_id is called with text and erased.      *)
settle(id, text) ==
    IF pending[id] = None THEN UNCHANGED <<pending, session>>
    ELSE answer(pending[id], text) /\ pending' = [pending EXCEPT ![id] = None]

(* The status of node_->propose: a refusal is passed on; an acceptance     *)
(* answers a deletion, while an assignment waits for its commit.           *)
RunStatus ==
    \E ok \in BOOLEAN :
        /\ Run(IF ok THEN "accepted" ELSE "dropped")
        /\ LET commit == Head(redis_queue).commit
           IN  IF ok /\ commit.cmd.op = "set" THEN UNCHANGED <<pending, session>>
               ELSE settle(commit.id, IF ok THEN "OK" ELSE "ERR")
        /\ UNCHANGED <<key_values, snapshot, waiting>>

(* Mutant: the entry of any server answers the request with its id.        *)
own_commit_any(commit) == TRUE

own_commit(commit) == commit.node = "self"

(* read_commit.                                                            *)
RunCommit ==
    LET commit == Head(redis_queue).commit
    IN  /\ Run("read_commit")
        /\ key_values' = apply(key_values, commit.cmd)
        /\ IF own_commit(commit) THEN settle(commit.id, "OK")
           ELSE UNCHANGED <<pending, session>>
        /\ UNCHANGED <<snapshot, waiting>>

(* get_snapshot; the raft thread wakes up and saves what it gets under its *)
(* own applied index.  It does nothing else before that.                   *)
RunGetSnapshot ==
    /\ Run("get_snapshot")
    /\ snapshot' = [index |-> applied_index, map |-> key_values]
    /\ waiting' = FALSE
    /\ UNCHANGED <<key_values, pending, session>>

(* recover_from_snapshot.                                                  *)
RunRecover ==
    /\ Run("recover")
    /\ key_values' = Head(redis_queue).map
    /\ UNCHANGED <<pending, session, snapshot, waiting>>

-----------------------------------------------------------------------------
(* The map of a new process.  replay_WAL passes the data of the snapshot   *)
(* on only when the WAL holds no entry after it; entries that are stored   *)
(* and not yet committed make it drop the data as well.                    *)
Loaded(entries) == IF entries THEN EmptyMap ELSE snapshot.map

(* The server is killed and started again; the other servers go on.        *)
Restart(entries) ==
    /\ restarts < MaxRestarts
    /\ restarts' = restarts + 1
    /\ applied_index > snapshot.index => entries
    /\ key_values' = Loaded(entries)
    /\ start' = [index |-> snapshot.index, map |-> Loaded(entries)]
    /\ pending' = [id \in DOMAIN pending |-> None]
    /\ next_request_id' = 0
    /\ redis_queue' = <<>> /\ raft_queue' = <<>>
    /\ waiting' = FALSE
    /\ applied_index' = snapshot.index
    /\ session' = [c \in Session |-> NewSession]
    /\ UNCHANGED <<snapshot, log, proposed, received, request>>

Init ==
    /\ key_values = EmptyMap
    /\ pending = [id \in 0..(MaxRequests - 1) |-> None]
    /\ next_request_id = 0
    /\ redis_queue = <<>> /\ raft_queue = <<>>
    /\ waiting = FALSE
    /\ applied_index = 0
    /\ snapshot = [index |-> 0, map |-> EmptyMap]
    /\ log = <<>> /\ proposed = {}
    /\ session = [c \in Session |-> NewSession]
    /\ received = [c \in Session |-> <<>>]
    /\ request = <<>>
    /\ start = [index |-> 0, map |-> EmptyMap]
    /\ restarts = 0

Client(c) ==
    \/ Read(c)
    \/ \E cmd \in Command : Write(c, cmd)
    \/ Broken(c)
    \/ Quit(c)

RedisThread == RunStatus \/ RunCommit \/ RunGetSnapshot \/ RunRecover

RaftThread ==
    \/ \E ok \in BOOLEAN : Propose(ok)
    \/ \E n \in 1..MaxLog : Publish(n)

Next ==
    \/ \E c \in Session : Client(c) \/ Written(c)
    \/ RedisThread
    \/ RaftThread
    \/ \E n \in 1..MaxLog : PublishSnapshot(n)
    \/ \E e \in Committable : CommitEntry(e)
    \/ \E entries \in BOOLEAN : Restart(entries)

(* Both threads keep running what is posted to them, and what is handed to *)
(* a socket that works is sent.  Clients and the cluster owe nothing.      *)
Spec ==
    /\ Init /\ [][Next]_vars
    /\ WF_vars(RedisThread)
    /\ WF_vars(RaftThread)
    /\ \A c \in Session : WF_vars(Written(c))

-----------------------------------------------------------------------------
(* Properties.                                                             *)

Replies(c) == received[c] \o session[c].buffer

Answered(r, text) ==
    \E i \in DOMAIN Replies(request[r].session) :
        Replies(request[r].session)[i] = Reply(r, text)

Writes == {r \in DOMAIN request : request[r].cmd.op \in {"set", "del"} /\ request[r].cmd.keys # {}}

(* Once the redis thread has run what the raft thread posted so far, the   *)
(* map is the one it was started with and the committed entries up to      *)
(* applied_index_, each applied once and in order: read_commit and         *)
(* recover_from_snapshot reach the map in the order of their posting.      *)
StoreIsApplied ==
    Effects(key_values, redis_queue) = Replay(start.map, start.index, applied_index)

(* The data saved as the snapshot of an index is the map at that index,    *)
(* although the map belongs to another thread (maybe_trigger_snapshot).    *)
SnapshotMatchesIndex ==
    [][snapshot' # snapshot =>
          snapshot'.map = Replay(start'.map, start'.index, snapshot'.index)]_vars

(* As long as the server was not restarted, a SET answered with OK is      *)
(* committed and the map has it, so a later GET on this server sees it or  *)
(* what replaced it.                                                       *)
OkIsCommitted ==
    restarts = 0 =>
        \A r \in Writes : request[r].cmd.op = "set" /\ Answered(r, "OK") =>
            /\ \E i \in 1..applied_index : log[i].req = r
            /\ \A k \in DOMAIN redis_queue :
                  redis_queue[k].kind = "read_commit" => redis_queue[k].commit.req # r

(* No request is answered twice, whatever order its status, its commit and *)
(* the entries of other servers with the same id come in; and without a    *)
(* restart a write that was not answered still waits in pending_requests_. *)
AnsweredOnce ==
    /\ \A c \in Session : \A i, j \in DOMAIN Replies(c) :
          i # j => Replies(c)[i].req # Replies(c)[j].req
    /\ restarts = 0 => \A r \in Writes :
          (\E text \in {"OK", "ERR"} : Answered(r, text)) # (\E id \in DOMAIN pending : pending[id] = r)

Committed(r) == \E i \in applied_index + 1 .. Len(log) : log[i].req = r

Refused(r) == \E i \in DOMAIN redis_queue :
                 redis_queue[i].kind = "dropped" /\ redis_queue[i].commit.req = r

Received(r) == \E c \in Session : \E i \in DOMAIN received[c] : received[c][i].req = r

Unreachable(r) == r \in DOMAIN request /\ session[request[r].session].broken

(* A write of a client that Raft refused, or that is committed and not yet *)
(* applied here, is answered to the client in the end: the raft thread     *)
(* never waits for good, no reply stays in a send buffer.  Excepted are a  *)
(* connection that broke, a restart, and a commit that a received snapshot *)
(* skips.                                                                  *)
RequestSettled ==
    \A r \in 1..MaxRequests :
        (restarts = 0 /\ r \in Writes /\ (Committed(r) \/ Refused(r)))
          ~> (\/ restarts > 0 \/ Received(r) \/ Unreachable(r)
              \/ \E i \in 1..start.index : log[i].req = r)
=============================================================================
