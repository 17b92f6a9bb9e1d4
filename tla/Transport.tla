----------------------------- MODULE Transport -----------------------------
(***************************************************************************)
(* How messages travel from one server to another (transport/peer.cpp,     *)
(* transport/transport.cpp, transport/raft_server.cpp).  PeerImpl opens a  *)
(* TCP connection (ClientSession) when there is something to send, keeps   *)
(* what it has not written in the session's buffer, has at most one write  *)
(* under way, and drops session and buffer together on any error.  It      *)
(* never reads, so it learns that the receiver is gone only when a write   *)
(* fails.  The receiver runs one ServerSession for each connection it      *)
(* accepts: what an earlier connection still holds may be read after       *)
(* messages of the next one.  It accepts none after an error of its        *)
(* acceptor, although the system still opens connections in its name.      *)
(* Messages are numbered as they are sent.                                 *)
(***************************************************************************)
EXTENDS Naturals, Sequences, SequencesExt

CONSTANTS
    MaxSent,     \* bound: messages sent
    MaxFaults,   \* bound: connections, writes, sessions and processes that fail
    MaxConns     \* bound: connections with something left to read

ASSUME TransportAssumption ==
    MaxSent \in Nat /\ MaxFaults \in Nat /\ MaxConns \in Nat \ {0}

VARIABLES
    session,   \* PeerImpl::session_: "none", "connecting" or "connected"
    buffer,    \* ClientSession::buffer_, in messages
    writing,   \* messages of the async_write under way
    conns,     \* what the connections before the session's hold, oldest first
    cur,       \* what the session's connection holds for its ServerSession
    reader,    \* its other end: "none" (gone), "reading", or "waiting" to be accepted
    accepting, \* AsioServer has an async_accept under way
    sent,      \* messages sent so far
    got,       \* messages received, in the order of their receipt
    faults     \* failures so far

client == <<session, buffer, writing>>
wire   == <<conns, cur, reader>>
vars   == <<session, buffer, writing, conns, cur, reader, accepting, sent, got, faults>>

(* PeerImpl::start_timer sends one every three seconds.                    *)
Debug == 0

Init ==
    /\ session = "none" /\ buffer = <<>> /\ writing = 0
    /\ conns = <<>> /\ cur = <<>> /\ reader = "none" /\ accepting = TRUE
    /\ sent = 0 /\ got = <<>> /\ faults = 0

(* start_write hands the whole buffer to async_write.                      *)
start_write(b) == buffer' = b /\ writing' = Len(b)

(* Mutant: a failed session is emptied but not replaced.                    *)
close_session_stays == UNCHANGED session /\ writing' = 0 /\ buffer' = <<>>

(* Mutant: only the session is reset, and the next one resends its buffer.  *)
close_session_keeps_buffer ==
    session' = "none" /\ writing' = 0 /\ buffer' = buffer

close_session == session' = "none" /\ writing' = 0 /\ buffer' = <<>>

(* The session is no more; its connection holds k messages of the write    *)
(* that was under way, and what the other end is still to read.            *)
Shelve(k) ==
    LET left == IF reader = "reading" THEN cur \o SubSeq(buffer, 1, k) ELSE <<>>
    IN  /\ conns' = IF left = <<>> THEN conns ELSE Append(conns, left)
        /\ cur' = <<>> /\ reader' = "none"

(* ClientSession::send: a message that finds the buffer of a connected     *)
(* session empty starts the write; any other waits for the handlers of the *)
(* connection or of the write under way.                                   *)
send(m) ==
    IF session = "connected" /\ buffer = <<>>
    THEN start_write(<<m>>)
    ELSE buffer' = Append(buffer, m) /\ UNCHANGED writing

(* One step: all calls are on the io thread but the first of a peer, which *)
(* add_peer makes on its caller's thread (see SenderRestarts).             *)
do_send_data(m) ==
    /\ session' = IF session = "none" THEN "connecting" ELSE session
    /\ send(m)
    /\ UNCHANGED wire

(* TransportImpl::send for one message.                                    *)
SendMessage ==
    /\ sent < MaxSent
    /\ do_send_data(sent + 1)
    /\ sent' = sent + 1
    /\ UNCHANGED <<accepting, got, faults>>

(* Bound: a debug message joins the one that is still under way.           *)
DebugTimer ==
    IF Contains(buffer \o cur \o FlattenSeq(conns), Debug)
    THEN UNCHANGED vars
    ELSE do_send_data(Debug) /\ UNCHANGED <<accepting, sent, got, faults>>

connected == session' = "connected" /\ start_write(buffer)

(* async_connect succeeds as soon as the other system has queued the       *)
(* connection; a ServerSession reads it if the acceptor still runs.        *)
ConnectOk ==
    /\ session = "connecting"
    /\ Len(conns) < MaxConns
    /\ connected
    /\ reader' = IF accepting THEN "reading" ELSE "waiting"
    /\ UNCHANGED <<conns, cur, accepting, sent, got, faults>>

ConnectError ==
    /\ session = "connecting"
    /\ faults < MaxFaults
    /\ close_session
    /\ faults' = faults + 1
    /\ UNCHANGED <<wire, accepting, sent, got>>

(* The handler of async_accept with an error: it returns without calling   *)
(* start again.                                                            *)
AcceptError ==
    /\ accepting
    /\ faults < MaxFaults
    /\ accepting' = FALSE
    /\ faults' = faults + 1
    /\ UNCHANGED <<client, wire, sent, got>>

(* Mutant: what came during the write waits for the next message.           *)
read_bytes_only == buffer' = SubSeq(buffer, writing + 1, Len(buffer)) /\ writing' = 0

(* The handler of async_write: read_bytes, then start_write for what came  *)
(* during the write.                                                       *)
read_bytes == start_write(SubSeq(buffer, writing + 1, Len(buffer)))

(* What a connection holds that nobody accepts is left out.                *)
Written ==
    /\ writing > 0 /\ reader # "none"
    /\ cur' = IF reader = "reading" THEN cur \o SubSeq(buffer, 1, writing) ELSE cur
    /\ read_bytes
    /\ UNCHANGED <<session, conns, reader, accepting, sent, got, faults>>

(* The write fails with some of its messages already in the connection.    *)
WriteError ==
    /\ writing > 0 /\ reader # "none"
    /\ faults < MaxFaults
    /\ \E k \in 0..(writing - 1) : Shelve(k)
    /\ close_session
    /\ faults' = faults + 1
    /\ UNCHANGED <<accepting, sent, got>>

(* The receiver is gone: no write succeeds any more.                       *)
WriteRefused ==
    /\ writing > 0 /\ reader = "none"
    /\ close_session
    /\ UNCHANGED <<wire, accepting, sent, got, faults>>

(* A connection breaks, or its ServerSession ends in the middle of a       *)
(* message or on one it cannot decode, and with it what was not read.      *)
SessionEnds ==
    /\ faults < MaxFaults
    /\ faults' = faults + 1
    /\ \/ reader # "none" /\ cur' = <<>> /\ reader' = "none" /\ UNCHANGED conns
       \/ \E k \in DOMAIN conns : conns' = RemoveAt(conns, k) /\ UNCHANGED <<cur, reader>>
    /\ UNCHANGED <<client, accepting, sent, got>>

(* The sending process is killed and started again, at any time; or it     *)
(* ends in the first do_send_data of a peer, when the io thread handles    *)
(* the end of async_connect between its lines: session_ is null at line    *)
(* 115 of peer.cpp, or both threads start a write and read_bytes asserts.  *)
SenderRestarts ==
    /\ faults < MaxFaults
    /\ \E k \in 0..writing : Shelve(k)
    /\ close_session
    /\ faults' = faults + 1
    /\ UNCHANGED <<accepting, sent, got>>

(* The same for the receiving process: its sessions end, and it listens    *)
(* and accepts again.                                                      *)
ReceiverRestarts ==
    /\ faults < MaxFaults
    /\ conns' = <<>> /\ cur' = <<>> /\ reader' = "none" /\ accepting' = TRUE
    /\ faults' = faults + 1
    /\ UNCHANGED <<client, sent, got>>

(* decode_message of the head of a connection: a debug message is checked  *)
(* and dropped, the others go to RaftNode::process.                        *)
decode_message(m) == got' = IF m = Debug THEN got ELSE Append(got, m)

ReadCurrent ==
    /\ cur # <<>>
    /\ decode_message(Head(cur))
    /\ cur' = Tail(cur)
    /\ UNCHANGED <<client, conns, reader, accepting, sent, faults>>

ReadEarlier(k) ==
    /\ k \in DOMAIN conns
    /\ decode_message(Head(conns[k]))
    /\ conns' = IF Tail(conns[k]) = <<>> THEN RemoveAt(conns, k)
                ELSE [conns EXCEPT ![k] = Tail(@)]
    /\ UNCHANGED <<client, cur, reader, accepting, sent, faults>>

Next ==
    \/ SendMessage \/ DebugTimer
    \/ ConnectOk \/ ConnectError \/ AcceptError
    \/ Written \/ WriteError \/ WriteRefused
    \/ SessionEnds \/ SenderRestarts \/ ReceiverRestarts
    \/ ReadCurrent
    \/ \E k \in 1..MaxConns : ReadEarlier(k)

(* The io threads run the handlers of what has completed, and the timer    *)
(* fires.  A write to a connection that nobody reads may never complete;   *)
(* nothing obliges Raft to send or a connection to fail.                   *)
Fairness ==
    /\ WF_vars(DebugTimer)
    /\ WF_vars(ConnectOk)
    /\ WF_vars(reader = "reading" /\ Written)
    /\ WF_vars(WriteRefused)
    /\ WF_vars(ReadCurrent)
    /\ \A k \in 1..MaxConns : WF_vars(ReadEarlier(k))

Spec == Init /\ [][Next]_vars /\ Fairness

-----------------------------------------------------------------------------
(* Properties.                                                             *)

Raft(s) == SelectSeq(s, LAMBDA m : m # Debug)

(* The streams a receiver may still see: those of the earlier connections  *)
(* and the session's, with what is in its buffer unless the other end is   *)
(* gone or will never read it.                                             *)
Streams ==
    LET last == CASE session = "none"       -> <<>>
                  [] session = "connecting" -> buffer
                  [] session = "connected"  -> IF reader = "reading" THEN cur \o buffer ELSE <<>>
        all == [k \in DOMAIN conns |-> Raft(conns[k])]
    IN  Append(SelectSeq(all, LAMBDA s : s # <<>>), Raft(last))

C == INSTANCE Channel WITH pipe <- Streams

(* The sessions of peer.cpp and raft_server.cpp implement the channel of   *)
(* module Channel: no message twice, none out of order or missing in the   *)
(* middle of a connection, however connections and writes fail.            *)
ImplementsChannel == C!Spec

(* Whatever is put in a session's buffer leaves it: written or dropped     *)
(* with the session, but never left waiting for a write nobody starts.     *)
(* Only a connection that the receiver no longer accepts may hold it up.   *)
BufferDrains == buffer # <<>> ~> (buffer = <<>> \/ reader = "waiting")

(* Once failures stop the receiver reads the session's connection again,   *)
(* by the debug timer if Raft sends nothing: unless its acceptor had an    *)
(* error, after which AsioServer accepts nothing until its process is      *)
(* started again.                                                          *)
Reconnects == <>[](session = "connected" /\ reader = "reading") \/ <>[]~accepting
=============================================================================
