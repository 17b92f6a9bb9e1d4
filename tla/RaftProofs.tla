----------------------------- MODULE RaftProofs -----------------------------
(***************************************************************************)
(* Proofs about module Raft for every number of servers and every value of *)
(* the bounds: type correctness, finality of votes, the quota of           *)
(* uncommitted proposals, silence of a server that hears nobody and,       *)
(* without Pre-Vote and with a durable WAL, election safety.               *)
(***************************************************************************)
EXTENDS Raft, TLAPS, FiniteSetTheorems, SequenceTheorems, WellFoundedInduction

-----------------------------------------------------------------------------
(* Facts about numbers and sequences.                                      *)

(* A nonempty set of naturals has a least element.                         *)
LEMMA LeastNat ==
    ASSUME NEW S \in SUBSET Nat, S # {}
    PROVE  \E x \in S : \A y \in S : x <= y
<1>1. PICK x \in S : \A y \in S : ~ (<<y, x>> \in OpToRel(<, Nat))
    BY NatLessThanWellFounded, WFMin
<1>2. \A y \in S : ~(y < x)
    BY <1>1 DEF OpToRel
<1> QED BY <1>2

(* What SubSeq returns when its bounds lie in the sequence.                *)
LEMMA SubSeqType ==
    ASSUME NEW S, NEW s \in Seq(S), NEW a \in Nat \ {0}, NEW b \in Nat, b <= Len(s)
    PROVE  SubSeq(s, a, b) \in Seq(S)
<1>1. CASE a <= b
    BY <1>1, SubSeqProperties
<1>2. CASE a > b
    BY <1>2, SubSeqProperties
<1> QED BY <1>1, <1>2

(* The positions of a sequence that satisfy a condition are countable.     *)
LEMMA PositionsType ==
    ASSUME NEW S, NEW s \in Seq(S), NEW T \in SUBSET DOMAIN s
    PROVE  /\ Cardinality(T) \in Nat
           /\ Cardinality(T) <= Len(s)
<1>1. DOMAIN s = 1..Len(s) /\ Len(s) \in Nat
    OBVIOUS
<1>2. \A b \in Nat : IsFiniteSet(1..b) /\ Cardinality(1..b) = b
  <2> TAKE b \in Nat
  <2>1. Cardinality(1..b) = IF 1 > b THEN 0 ELSE b - 1 + 1
      BY FS_Interval
  <2> QED BY <2>1, FS_Interval
<1> QED BY <1>1, <1>2, FS_Subset, FS_CardinalityType

LEMMA PayloadSizeType ==
    ASSUME NEW ents \in Seq(EntryType)
    PROVE  payload_size(ents) \in Nat
BY PositionsType DEF payload_size

LEMMA QuorumType == quorum \in Nat /\ 2 * quorum > Cardinality(Server)
<1>1. Cardinality(Server) \in Nat
    BY ServerAssumption, FS_CardinalityType
<1> QED BY <1>1 DEF quorum

-----------------------------------------------------------------------------
(* Progress records.                                                       *)

LEMMA ProgressTypes ==
    ASSUME NEW p \in ProgressType, NEW idx \in Nat
    PROVE  /\ become_replicate(p) \in ProgressType
           /\ become_probe(p) \in ProgressType
           /\ is_full(p) \in BOOLEAN
           /\ add(p, idx) \in ProgressType
           /\ maybe_update(p, idx) \in ProgressType
<1>1. p.match \in Nat /\ p.next \in Nat \ {0} /\ p.ins \in Seq(Nat)
    BY DEF ProgressType
<1>2. \A st \in {"Probe", "Replicate"} : reset_state(p, st) \in ProgressType
  <2>1. <<>> \in Seq(Nat)
      OBVIOUS
  <2> QED BY <2>1, Zenon DEF ProgressType, reset_state
<1>3. become_replicate(p) \in ProgressType /\ become_probe(p) \in ProgressType
  <2>1. p.match + 1 \in Nat \ {0}
      BY <1>1
  <2> QED BY <1>2, <2>1, Zenon DEF ProgressType, become_replicate, become_probe
<1>4. add(p, idx) \in ProgressType
  <2>1. Append(p.ins, idx) \in Seq(Nat)
      BY <1>1
  <2> QED BY <2>1 DEF add, ProgressType
<1>5. maybe_update(p, idx) \in ProgressType
  <2>1. /\ (IF p.match < idx THEN idx ELSE p.match) \in Nat
        /\ (IF p.next < idx + 1 THEN idx + 1 ELSE p.next) \in Nat \ {0}
      BY <1>1
  <2>2. (IF p.match < idx THEN FALSE ELSE p.paused) \in BOOLEAN
      BY Zenon DEF ProgressType
  <2> QED BY <2>1, <2>2, Zenon DEF maybe_update, ProgressType
<1> QED BY <1>3, <1>4, <1>5 DEF is_full

LEMMA FreeToType ==
    ASSUME NEW p \in ProgressType, NEW to
    PROVE  free_to(p, to) \in ProgressType
<1> DEFINE freed == Cardinality({k \in DOMAIN p.ins : \A l \in 1..k : p.ins[l] <= to})
<1>1. p.ins \in Seq(Nat) /\ p.start \in Nat
    BY DEF ProgressType
<1>2. freed \in Nat
    BY <1>1, PositionsType
<1> HIDE DEF freed
<1>3. SubSeq(p.ins, freed + 1, Len(p.ins)) \in Seq(Nat)
    BY <1>1, <1>2, SubSeqType
<1>4. (p.start + freed) % MaxInflight \in Nat
    BY <1>1, <1>2, ConfigAssumption
<1>5. free_to(p, to) = [p EXCEPT !.ins = SubSeq(@, freed + 1, Len(@)),
                                 !.start = IF freed = Len(p.ins) THEN 0
                                           ELSE (@ + freed) % MaxInflight]
    BY DEF free_to, freed
<1>6. (IF freed = Len(p.ins) THEN 0 ELSE (p.start + freed) % MaxInflight) \in Nat
    BY <1>4
<1> QED BY <1>3, <1>5, <1>6, Zenon DEF ProgressType

LEMMA DecreasesType ==
    ASSUME NEW p \in ProgressType, NEW rejected \in Nat, NEW last \in Nat
    PROVE  maybe_decreases_to(p, rejected, last) \in ProgressType
<1> DEFINE lower == IF rejected < last + 1 THEN rejected ELSE last + 1
<1>1. /\ p.match + 1 \in Nat \ {0}
      /\ (IF lower < 1 THEN 1 ELSE lower) \in Nat \ {0}
    BY DEF ProgressType
<1> QED BY <1>1, Zenon DEF maybe_decreases_to, ProgressType

-----------------------------------------------------------------------------
(* Raft objects between two steps of a handler.                            *)

(* The type of a Raft object in the middle of an event.                    *)
NodeOK(n) ==
    /\ n \in NodeType
    /\ n.committed <= Len(n.log)
    /\ \A m \in n.msgs : m.from = n.id /\ (m.type = "MsgProp" => Len(m.entries) = 1)

(* r comes from n by steps that touch neither its term, vote, role or      *)
(* votes received, nor send pre-votes or answers to vote requests.         *)
Answers == {"MsgVoteResp", "MsgPreVoteResp", "MsgPreVote"}

Quiet(n, r) ==
    /\ NodeOK(r)
    /\ r.id = n.id /\ r.term = n.term /\ r.vote = n.vote
    /\ r.state = n.state /\ r.votes = n.votes
    /\ \A m \in r.msgs : m.type \in Answers => m \in n.msgs

LEMMA QuietTrans ==
    ASSUME NEW n, NEW r, NEW q, Quiet(n, r), Quiet(r, q)
    PROVE  Quiet(n, q)
BY Zenon DEF Quiet

LEMMA NodeFields ==
    ASSUME NEW n, NodeOK(n)
    PROVE  /\ n.id \in Server /\ n.term \in Nat /\ n.vote \in Id /\ n.lead \in Id
           /\ n.log \in Seq(EntryType) /\ n.committed \in Nat
           /\ n.prs \in [Server -> ProgressType]
           /\ n.uncommitted \in Nat /\ n.msgs \subseteq MessageType
           /\ last_index(n) \in Nat
           /\ \A idx : log_term(n, idx) \in Nat
           /\ n.committed <= last_index(n)
<1>1. n \in NodeType /\ n.committed <= Len(n.log)
    BY DEF NodeOK
<1>2. /\ n.id \in Server /\ n.term \in Nat /\ n.vote \in Id /\ n.lead \in Id
      /\ n.log \in Seq(EntryType) /\ n.committed \in Nat
      /\ n.prs \in [Server -> ProgressType]
      /\ n.uncommitted \in Nat /\ n.msgs \subseteq MessageType
    BY <1>1 DEF NodeType
<1>3. last_index(n) \in Nat
    BY <1>2 DEF last_index
<1>4. ASSUME NEW idx
      PROVE  log_term(n, idx) \in Nat
  <2>1. CASE idx \in DOMAIN n.log
    <3>1. n.log[idx] \in EntryType
        BY <1>2, <2>1
    <3> QED BY <2>1, <3>1 DEF log_term, EntryType
  <2> QED BY <2>1 DEF log_term
<1> QED BY <1>1, <1>2, <1>3, <1>4 DEF last_index

LEMMA FatalQuiet ==
    ASSUME NEW n, NodeOK(n)
    PROVE  Quiet(n, Fatal(n))
<1>1. Fatal(n) \in NodeType
    BY Zenon DEF NodeOK, NodeType, Fatal
<1>2. /\ Fatal(n).committed = n.committed /\ Fatal(n).log = n.log
      /\ Fatal(n).msgs = n.msgs /\ Fatal(n).id = n.id /\ Fatal(n).term = n.term
      /\ Fatal(n).vote = n.vote /\ Fatal(n).state = n.state /\ Fatal(n).votes = n.votes
    BY DEF NodeOK, NodeType, Fatal
<1> QED BY <1>1, <1>2, Zenon DEF Quiet, NodeOK

LEMMA CommitToQuiet ==
    ASSUME NEW n, NodeOK(n), NEW idx \in Nat
    PROVE  Quiet(n, commit_to(n, idx))
<1> DEFINE r == [n EXCEPT !.committed = idx]
<1>1. CASE idx <= n.committed
    BY <1>1 DEF commit_to, Quiet
<1>2. CASE ~(idx <= n.committed) /\ last_index(n) < idx
    BY <1>2, FatalQuiet DEF commit_to
<1>3. CASE ~(idx <= n.committed) /\ ~(last_index(n) < idx)
  <2>1. r \in NodeType
      BY Zenon DEF NodeOK, NodeType
  <2>2. r.committed <= Len(r.log)
      BY <1>3, NodeFields DEF NodeOK, NodeType, last_index
  <2>3. /\ r.msgs = n.msgs /\ r.id = n.id /\ r.term = n.term
        /\ r.vote = n.vote /\ r.state = n.state /\ r.votes = n.votes
      BY DEF NodeOK, NodeType
  <2>4. Quiet(n, r)
      BY <2>1, <2>2, <2>3, Zenon DEF Quiet, NodeOK
  <2> QED BY <1>3, <2>4 DEF commit_to
<1> QED BY <1>1, <1>2, <1>3

LEMMA AppendQuiet ==
    ASSUME NEW n, NodeOK(n), NEW after \in Nat, NEW ents \in Seq(EntryType)
    PROVE  /\ Quiet(n, append(n, after, ents))
           /\ append(n, after, ents).prs = n.prs
<1> DEFINE log1 == SubSeq(n.log, 1, after) \o ents
           r == [n EXCEPT !.log = log1]
<1>1. CASE after < n.committed \/ after > last_index(n)
  <2>1. Fatal(n).prs = n.prs
      BY DEF NodeOK, NodeType, Fatal
  <2> QED BY <1>1, <2>1, FatalQuiet DEF append
<1>2. CASE ~(after < n.committed \/ after > last_index(n))
  <2>0. n.log \in Seq(EntryType) /\ n.committed \in Nat /\ after <= Len(n.log)
      BY <1>2, NodeFields DEF last_index
  <2>1. SubSeq(n.log, 1, after) \in Seq(EntryType) /\ Len(SubSeq(n.log, 1, after)) = after
      BY <2>0, SubSeqType, SubSeqProperties
  <2>2. log1 \in Seq(EntryType) /\ Len(log1) = after + Len(ents)
      BY <2>1
  <2>3. n.committed <= Len(log1)
      BY <1>2, <2>0, <2>2
  <2> HIDE DEF log1
  <2>4. r \in NodeType
      BY <2>2, Zenon DEF NodeOK, NodeType
  <2>5. /\ r.msgs = n.msgs /\ r.id = n.id /\ r.term = n.term /\ r.prs = n.prs
        /\ r.vote = n.vote /\ r.state = n.state /\ r.votes = n.votes
        /\ r.log = log1 /\ r.committed = n.committed
      BY DEF NodeOK, NodeType
  <2>6. Quiet(n, r)
      BY <2>3, <2>4, <2>5, Zenon DEF Quiet, NodeOK
  <2>7. append(n, after, ents) = r
      BY <1>2 DEF append, log1
  <2> QED BY <2>5, <2>6, <2>7
<1> QED BY <1>1, <1>2

(* The message of a MsgApp handler is well typed.                          *)
LEMMA MessageFields ==
    ASSUME NEW m \in MessageType
    PROVE  /\ m.type \in MsgTypes /\ m.from \in Server /\ m.to \in Server
           /\ m.term \in Nat /\ m.log_term \in Nat /\ m.index \in Nat
           /\ m.entries \in Seq(EntryType) /\ m.commit \in Nat /\ m.reject_hint \in Nat
BY DEF MessageType

LEMMA MaybeAppendQuiet ==
    ASSUME NEW n, NodeOK(n), NEW m \in MessageType
    PROVE  Quiet(n, maybe_append(n, m))
<1> DEFINE cs == conflicts(n, m.index, m.entries)
           ci == CHOOSE k \in cs : \A l \in cs : k <= l
           after == m.index + ci - 1
           lastnewi == m.index + Len(m.entries)
           n1 == IF cs = {} THEN n
                 ELSE append(n, after, SubSeq(m.entries, ci, Len(m.entries)))
           to == IF m.commit < lastnewi THEN m.commit ELSE lastnewi
<1>1. m.index \in Nat /\ m.entries \in Seq(EntryType) /\ m.commit \in Nat
    BY MessageFields
<1>2. to \in Nat
    BY <1>1
<1>3. Quiet(n, n1)
  <2>1. CASE cs = {}
      BY <2>1 DEF Quiet
  <2>2. CASE cs # {}
    <3>1. cs \subseteq 1..Len(m.entries)
        BY <1>1 DEF conflicts
    <3>2. cs \in SUBSET Nat
        BY <3>1
    <3>3. \E k \in cs : \A l \in cs : k <= l
        BY <2>2, <3>2, LeastNat
    <3>4. ci \in cs
        BY <3>3
    <3> HIDE DEF ci, cs
    <3>5. ci \in Nat \ {0} /\ ci <= Len(m.entries)
        BY <3>1, <3>4, <1>1
    <3>6. after \in Nat /\ SubSeq(m.entries, ci, Len(m.entries)) \in Seq(EntryType)
        BY <3>5, <1>1, SubSeqType
    <3> QED BY <2>2, <3>6, AppendQuiet
  <2> QED BY <2>1, <2>2
<1>4. Quiet(n1, commit_to(n1, to))
    BY <1>2, <1>3, CommitToQuiet DEF Quiet
<1>5. Quiet(n, commit_to(n1, to))
    BY <1>3, <1>4, QuietTrans
<1> QED BY <1>5 DEF maybe_append

-----------------------------------------------------------------------------
(* Sending.                                                                *)

(* A message as its maker hands it to send.                                *)
Draft ==
    [type : MsgTypes, from : Id, to : Server, term : Nat, log_term : Nat, index : Nat,
     entries : Seq(EntryType), commit : Nat, reject : BOOLEAN, reject_hint : Nat]

LEMMA MessageDraft ==
    ASSUME NEW type \in MsgTypes, NEW to \in Server
    PROVE  /\ Message(type, to) \in Draft
           /\ Message(type, to).type = type /\ Message(type, to).to = to
           /\ Message(type, to).entries = <<>>
<1>1. <<>> \in Seq(EntryType) /\ 0 \in Nat
    OBVIOUS
<1>2. Message(type, to) \in Draft
    BY <1>1, Zenon DEF Message, Draft, Id
<1> QED BY <1>2 DEF Message

(* What sending drafts does: it only adds messages, stamped with the       *)
(* sender and, unless they are about votes, with its term.                 *)
LEMMA SendAny ==
    ASSUME NEW n, NodeOK(n), NEW ms \in SUBSET Draft,
           \A m \in ms : m.type = "MsgProp" => Len(m.entries) = 1
    PROVE  LET r == send(n, ms)
           IN  /\ NodeOK(r)
               /\ r.id = n.id /\ r.term = n.term /\ r.vote = n.vote
               /\ r.state = n.state /\ r.votes = n.votes
               /\ r.log = n.log /\ r.prs = n.prs /\ r.committed = n.committed
               /\ \A x \in r.msgs : \/ x \in n.msgs
                                    \/ \E m \in ms : /\ x.type = m.type /\ x.to = m.to
                                                     /\ x.from = n.id /\ (m.reject => x.reject)
                                                     /\ m.type \in VoteTypes => x.term = m.term
<1> DEFINE stamp(m) == [m EXCEPT !.from = n.id,
                                 !.term = IF m.type \in VoteTypes THEN @ ELSE n.term]
           out == n.msgs \cup {stamp(m) : m \in ms}
           r == [n EXCEPT !.msgs = out]
<1>1. CASE ~\A m \in ms : (m.type \in VoteTypes) <=> (m.term # 0)
  <2>1. /\ Fatal(n).log = n.log /\ Fatal(n).prs = n.prs
        /\ Fatal(n).committed = n.committed /\ Fatal(n).msgs = n.msgs
      BY DEF NodeOK, NodeType, Fatal
  <2>2. send(n, ms) = Fatal(n)
      BY <1>1 DEF send
  <2> QED BY <2>1, <2>2, FatalQuiet DEF Quiet
<1>2. CASE \A m \in ms : (m.type \in VoteTypes) <=> (m.term # 0)
  <2>1. ASSUME NEW m \in ms
        PROVE  /\ stamp(m) \in MessageType
               /\ stamp(m).type = m.type /\ stamp(m).entries = m.entries
               /\ stamp(m).to = m.to /\ stamp(m).from = n.id
               /\ m.reject => stamp(m).reject
               /\ m.type \in VoteTypes => stamp(m).term = m.term
    <3>1. n.id \in Server /\ n.term \in Nat
        BY NodeFields
    <3>2. m \in Draft /\ m.term \in Nat
        BY DEF Draft
    <3>3. (IF m.type \in VoteTypes THEN m.term ELSE n.term) \in Nat
        BY <3>1, <3>2
    <3>4. stamp(m) \in MessageType
        BY <3>1, <3>2, <3>3, Zenon DEF Draft, MessageType
    <3>5. /\ stamp(m).type = m.type /\ stamp(m).entries = m.entries
          /\ stamp(m).to = m.to /\ stamp(m).from = n.id
          /\ m.type \in VoteTypes => stamp(m).term = m.term
        BY <3>2 DEF Draft
    <3>6. m.reject => stamp(m).reject
        BY <3>2, Zenon DEF Draft
    <3> QED BY <3>4, <3>5, <3>6
  <2> HIDE DEF stamp
  <2>2. out \subseteq MessageType
      BY <2>1, NodeFields
  <2>3. \A x \in out : \/ x \in n.msgs
                       \/ \E m \in ms : /\ x.type = m.type /\ x.to = m.to
                                        /\ x.from = n.id /\ (m.reject => x.reject)
                                        /\ m.type \in VoteTypes => x.term = m.term
      BY <2>1, Zenon
  <2>4. \A m \in out : m.from = n.id /\ (m.type = "MsgProp" => Len(m.entries) = 1)
      BY <2>1 DEF NodeOK
  <2> HIDE DEF out
  <2>5. r \in NodeType
      BY <2>2, Zenon DEF NodeOK, NodeType
  <2>6. /\ r.msgs = out /\ r.id = n.id /\ r.term = n.term /\ r.prs = n.prs
        /\ r.vote = n.vote /\ r.state = n.state /\ r.votes = n.votes
        /\ r.log = n.log /\ r.committed = n.committed
      BY DEF NodeOK, NodeType
  <2>7. NodeOK(r)
      BY <2>4, <2>5, <2>6, Zenon DEF NodeOK
  <2>8. send(n, ms) = r
      BY <1>2 DEF send, out, stamp
  <2> HIDE DEF r
  <2> QED BY <2>3, <2>6, <2>7, <2>8, Zenon
<1> QED BY <1>1, <1>2

(* Sending drafts whose types are not answers to vote requests.            *)
LEMMA SendQuiet ==
    ASSUME NEW n, NodeOK(n), NEW ms \in SUBSET Draft,
           \A m \in ms : m.type \notin Answers,
           \A m \in ms : m.type = "MsgProp" => Len(m.entries) = 1
    PROVE  /\ Quiet(n, send(n, ms))
           /\ send(n, ms).log = n.log /\ send(n, ms).prs = n.prs
           /\ send(n, ms).committed = n.committed
<1> DEFINE r == send(n, ms)
<1>1. /\ NodeOK(r)
      /\ r.id = n.id /\ r.term = n.term /\ r.vote = n.vote
      /\ r.state = n.state /\ r.votes = n.votes
      /\ r.log = n.log /\ r.prs = n.prs /\ r.committed = n.committed
      /\ \A x \in r.msgs : x \in n.msgs \/ \E m \in ms : x.type = m.type
    BY SendAny
<1> HIDE DEF r
<1>2. Quiet(n, r)
    BY <1>1, Zenon DEF Quiet
<1> QED BY <1>1, <1>2 DEF r

(* A change of the progress records alone.                                 *)
LEMMA PrsQuiet ==
    ASSUME NEW n, NodeOK(n), NEW f \in [Server -> ProgressType]
    PROVE  LET r == [n EXCEPT !.prs = f]
           IN  /\ Quiet(n, r)
               /\ r.log = n.log /\ r.prs = f /\ r.committed = n.committed
<1> DEFINE r == [n EXCEPT !.prs = f]
<1>1. r \in NodeType
    BY Zenon DEF NodeOK, NodeType
<1>2. /\ r.msgs = n.msgs /\ r.id = n.id /\ r.term = n.term /\ r.prs = f
      /\ r.vote = n.vote /\ r.state = n.state /\ r.votes = n.votes
      /\ r.log = n.log /\ r.committed = n.committed
    BY DEF NodeOK, NodeType
<1> QED BY <1>1, <1>2, Zenon DEF Quiet, NodeOK

LEMMA ChunkEndType ==
    ASSUME NEW n, NodeOK(n), NEW next \in Nat \ {0}, NEW k \in Nat \ {0}
    PROVE  ChunkEnd(n, next, k) \in Nat /\ ChunkEnd(n, next, k) <= Len(n.log)
<1>1. last_index(n) \in Nat /\ last_index(n) = Len(n.log)
    BY NodeFields DEF last_index
<1>2. k * MaxMsgEntries \in Nat
    BY ConfigAssumption
<1>3. next + k * MaxMsgEntries - 1 \in Nat
    BY <1>2
<1> QED BY <1>1, <1>3 DEF ChunkEnd

LEMMA AppMessageDraft ==
    ASSUME NEW n, NodeOK(n), NEW to \in Server, NEW next \in Nat \ {0}
    PROVE  /\ AppMessage(n, to, next) \in Draft
           /\ AppMessage(n, to, next).type = "MsgApp"
<1> DEFINE e == SubSeq(n.log, next, ChunkEnd(n, next, 1))
<1>1. e \in Seq(EntryType)
  <2>1. ChunkEnd(n, next, 1) \in Nat /\ ChunkEnd(n, next, 1) <= Len(n.log)
      BY ChunkEndType
  <2>2. n.log \in Seq(EntryType)
      BY NodeFields
  <2> QED BY <2>1, <2>2, SubSeqType
<1>2. next - 1 \in Nat /\ log_term(n, next - 1) \in Nat /\ n.committed \in Nat
    BY NodeFields
<1>3. "MsgApp" \in MsgTypes
    BY DEF MsgTypes
<1>4. Message("MsgApp", to) \in Draft /\ Message("MsgApp", to).type = "MsgApp"
    BY <1>3, MessageDraft
<1> HIDE DEF e
<1>5. AppMessage(n, to, next) = [Message("MsgApp", to) EXCEPT
        !.index = next - 1, !.log_term = log_term(n, next - 1),
        !.entries = e, !.commit = n.committed]
    BY DEF AppMessage, e
<1>6. AppMessage(n, to, next) \in Draft
    BY <1>1, <1>2, <1>4, <1>5, Zenon DEF Draft
<1>7. AppMessage(n, to, next).type = "MsgApp"
    BY <1>4, <1>5 DEF Draft
<1> QED BY <1>6, <1>7

LEMMA SentType ==
    ASSUME NEW p \in ProgressType, NEW last \in Nat
    PROVE  Sent(p, last) \in ProgressType
<1>1. last + 1 \in Nat \ {0}
    OBVIOUS
<1>2. [p EXCEPT !.next = last + 1] \in ProgressType
    BY <1>1, Zenon DEF ProgressType
<1>3. [p EXCEPT !.paused = TRUE] \in ProgressType
    BY Zenon DEF ProgressType
<1>4. add([p EXCEPT !.next = last + 1], last) \in ProgressType
    BY <1>2, ProgressTypes
<1> QED BY <1>3, <1>4 DEF Sent

LEMMA SendAppendQuiet ==
    ASSUME NEW n, NodeOK(n), NEW tos \in SUBSET Server
    PROVE  /\ Quiet(n, send_append(n, tos))
           /\ send_append(n, tos).log = n.log
<1> DEFINE ready == {j \in tos : ~is_paused(n.prs[j])}
           ms == {AppMessage(n, j, n.prs[j].next) : j \in ready}
           s == send(n, ms)
           f == [j \in Server |->
                   IF j \in ready THEN Sent(n.prs[j], ChunkEnd(n, n.prs[j].next, 1))
                   ELSE s.prs[j]]
<1>1. ready \subseteq Server /\ \A j \in Server : n.prs[j] \in ProgressType
    BY NodeFields
<1> HIDE DEF ready
<1>2. \A j \in Server : n.prs[j].next \in Nat \ {0}
    BY <1>1 DEF ProgressType
<1>3. \A m \in ms : m \in Draft /\ m.type = "MsgApp"
    BY <1>1, <1>2, AppMessageDraft
<1>4. /\ Quiet(n, s) /\ s.log = n.log /\ s.prs = n.prs
  <2>1. ms \in SUBSET Draft
      BY <1>3
  <2>2. \A m \in ms : m.type \notin Answers /\ m.type # "MsgProp"
      BY <1>3 DEF Answers
  <2> HIDE DEF ms
  <2> QED BY <2>1, <2>2, SendQuiet
<1>5. f \in [Server -> ProgressType]
  <2>1. \A j \in Server : ChunkEnd(n, n.prs[j].next, 1) \in Nat
      BY <1>2, ChunkEndType
  <2>2. \A j \in Server : Sent(n.prs[j], ChunkEnd(n, n.prs[j].next, 1)) \in ProgressType
      BY <1>1, <2>1, SentType
  <2> QED BY <1>1, <1>4, <2>2
<1>6. send_append(n, tos) = [s EXCEPT !.prs = f]
    BY DEF send_append, ready
<1> HIDE DEF s, f
<1>7. Quiet(s, [s EXCEPT !.prs = f]) /\ [s EXCEPT !.prs = f].log = s.log
    BY <1>4, <1>5, PrsQuiet DEF Quiet
<1> QED BY <1>4, <1>6, <1>7, QuietTrans

-----------------------------------------------------------------------------
(* The index that maybe_commit computes.                                   *)

(* For every assignment of match indexes to the servers there is one that  *)
(* a quorum has reached and that no quorum has passed.                     *)
LEMMA QuorumMatchExists ==
    ASSUME NEW match \in [Server -> Nat]
    PROVE  \E x \in {match[j] : j \in Server} :
              /\ Cardinality({k \in Server : match[k] >= x}) >= quorum
              /\ Cardinality({k \in Server : match[k] > x}) < quorum
<1> DEFINE M == {match[j] : j \in Server}
           AtLeast(x) == {k \in Server : match[k] >= x}
           Above(x) == {k \in Server : match[k] > x}
           T == {x \in M : Cardinality(AtLeast(x)) >= quorum}
           U == {Cardinality(Above(x)) : x \in T}
<1>1. IsFiniteSet(Server) /\ Cardinality(Server) \in Nat /\ Server # {}
    BY ServerAssumption, FS_CardinalityType
<1>2. Cardinality(Server) > 0
    BY <1>1, FS_EmptySet
<1>3. quorum \in Nat /\ quorum > 0 /\ quorum <= Cardinality(Server)
    BY <1>1, <1>2 DEF quorum
<1>4. \A S \in SUBSET Server : IsFiniteSet(S) /\ Cardinality(S) \in Nat
    BY <1>1, FS_Subset, FS_CardinalityType
<1>5. M \in SUBSET Nat /\ M # {}
    BY <1>1
<1>6. T # {}
  <2>1. PICK x \in M : \A y \in M : x <= y
      BY <1>5, LeastNat
  <2>2. AtLeast(x) = Server
      BY <2>1, <1>5
  <2> QED BY <1>3, <2>2
<1>7. U \in SUBSET Nat /\ U # {}
    BY <1>4, <1>6
<1>8. PICK x \in T : \A y \in T : Cardinality(Above(x)) <= Cardinality(Above(y))
  <2>1. PICK c \in U : \A d \in U : c <= d
      BY <1>7, LeastNat
  <2> HIDE DEF T, Above
  <2>2. PICK x \in T : c = Cardinality(Above(x))
      OBVIOUS
  <2> QED BY <2>1, <2>2
<1>9. ASSUME ~(Cardinality(Above(x)) < quorum)
      PROVE  FALSE
  <2>1. Above(x) \in SUBSET Server /\ Cardinality(Above(x)) >= quorum
      BY <1>3, <1>4, <1>9
  <2>2. Above(x) # {}
      BY <2>1, <1>3, FS_EmptySet
  <2>3. PICK k \in Above(x) : \A l \in Above(x) : match[k] <= match[l]
    <3> DEFINE V == {match[l] : l \in Above(x)}
    <3>1. V \in SUBSET Nat /\ V # {}
        BY <2>1, <2>2
    <3>2. PICK y \in V : \A z \in V : y <= z
        BY <3>1, LeastNat
    <3> QED BY <3>2
  <2>4. x \in Nat /\ match[k] \in Nat /\ match[k] > x /\ k \in Server /\ match[k] \in M
      BY <1>5
  <2>5. AtLeast(match[k]) = Above(x)
    <3>1. \A l \in Server : match[l] \in Nat
        OBVIOUS
    <3>2. ASSUME NEW l \in Server
          PROVE  match[l] >= match[k] <=> match[l] > x
        BY <2>3, <2>4, <3>1
    <3> QED BY <3>2
  <2>6. match[k] \in T
      BY <2>1, <2>4, <2>5
  <2>7. Above(match[k]) \in SUBSET Above(x) /\ k \notin Above(match[k])
    <3>1. \A l \in Server : match[l] \in Nat
        OBVIOUS
    <3> QED BY <2>4, <3>1
  <2>8. Cardinality(Above(match[k])) < Cardinality(Above(x))
    <3>1. IsFiniteSet(Above(x)) /\ Cardinality(Above(x)) \in Nat
        BY <1>4, <2>1
    <3>2. /\ Cardinality(Above(match[k])) <= Cardinality(Above(x))
          /\ Cardinality(Above(x)) = Cardinality(Above(match[k])) => Above(x) = Above(match[k])
        BY <2>7, <3>1, FS_Subset
    <3>3. Above(match[k]) \in SUBSET Server
        OBVIOUS
    <3>4. Cardinality(Above(match[k])) \in Nat
        BY <1>4, <3>3
    <3>5. Above(x) # Above(match[k])
        BY <2>3, <2>7
    <3> HIDE DEF Above
    <3> QED BY <3>1, <3>2, <3>4, <3>5
  <2>9. Cardinality(Above(x)) <= Cardinality(Above(match[k]))
      BY <1>8, <2>6
  <2>10. Above(match[k]) \in SUBSET Server
      OBVIOUS
  <2>11. Cardinality(Above(match[k])) \in Nat /\ Cardinality(Above(x)) \in Nat
      BY <1>4, <2>1, <2>10
  <2> HIDE DEF Above
  <2> QED BY <2>8, <2>9, <2>11
<1>10. x \in M /\ Cardinality(AtLeast(x)) >= quorum
    BY <1>8
<1> QED BY <1>9, <1>10

LEMMA QuorumMatchType ==
    ASSUME NEW n, NodeOK(n)
    PROVE  QuorumMatch(n) \in Nat
<1> DEFINE match == [j \in Server |-> n.prs[j].match]
<1>1. \A j \in Server : n.prs[j].match \in Nat
    BY NodeFields DEF ProgressType
<1>2. match \in [Server -> Nat]
    BY <1>1
<1>3. \E x \in {match[j] : j \in Server} :
              /\ Cardinality({k \in Server : match[k] >= x}) >= quorum
              /\ Cardinality({k \in Server : match[k] > x}) < quorum
    BY <1>2, QuorumMatchExists
<1>4. {match[j] : j \in Server} = {n.prs[j].match : j \in Server}
    OBVIOUS
<1>5. \A x : /\ {k \in Server : match[k] >= x} = {k \in Server : n.prs[k].match >= x}
             /\ {k \in Server : match[k] > x} = {k \in Server : n.prs[k].match > x}
    OBVIOUS
<1>6. \E x \in {n.prs[j].match : j \in Server} :
              /\ Cardinality({k \in Server : n.prs[k].match >= x}) >= quorum
              /\ Cardinality({k \in Server : n.prs[k].match > x}) < quorum
    BY <1>3, <1>4, <1>5
<1>7. QuorumMatch(n) \in {n.prs[j].match : j \in Server}
    BY <1>6 DEF QuorumMatch
<1> QED BY <1>1, <1>7

LEMMA MaybeCommitQuiet ==
    ASSUME NEW n, NodeOK(n)
    PROVE  Quiet(n, maybe_commit(n)) /\ maybe_commit(n).log = n.log
<1>1. Quiet(n, commit_to(n, QuorumMatch(n)))
    BY QuorumMatchType, CommitToQuiet
<1>2. commit_to(n, QuorumMatch(n)).log = n.log
    BY DEF commit_to, Fatal, NodeOK, NodeType
<1> QED BY <1>1, <1>2 DEF maybe_commit, Quiet

LEMMA AppendEntryQuiet ==
    ASSUME NEW n, NodeOK(n), NEW v \in Payload
    PROVE  Quiet(n, append_entry(n, v))
<1> DEFINE ents == <<Entry(n.term, v)>>
           n1 == append(n, last_index(n), ents)
           size == n1.uncommitted + payload_size(ents)
           f == [n1.prs EXCEPT ![n.id] = maybe_update(@, last_index(n1))]
           n2 == [n1 EXCEPT !.uncommitted = size, !.prs = f]
<1>1. n.id \in Server /\ n.term \in Nat /\ last_index(n) \in Nat
    BY NodeFields
<1>2. ents \in Seq(EntryType)
    BY <1>1 DEF Entry, EntryType
<1> HIDE DEF ents
<1>3. Quiet(n, n1)
    BY <1>1, <1>2, AppendQuiet
<1> HIDE DEF n1
<1>4. NodeOK(n1)
    BY <1>3 DEF Quiet
<1>5. size \in Nat
    BY <1>2, <1>4, NodeFields, PayloadSizeType
<1>6. f \in [Server -> ProgressType]
  <2>1. n1.prs \in [Server -> ProgressType] /\ last_index(n1) \in Nat
      BY <1>4, NodeFields
  <2>2. maybe_update(n1.prs[n.id], last_index(n1)) \in ProgressType
      BY <1>1, <2>1, ProgressTypes
  <2> QED BY <2>1, <2>2
<1>7. maybe_commit(n2) = append_entry(n, v)
    BY DEF append_entry, n1, ents
<1> HIDE DEF size, f
<1>8. Quiet(n1, n2)
  <2>1. n2 \in NodeType
      BY <1>4, <1>5, <1>6, Zenon DEF NodeOK, NodeType
  <2>2. /\ n2.msgs = n1.msgs /\ n2.id = n1.id /\ n2.term = n1.term
        /\ n2.vote = n1.vote /\ n2.state = n1.state /\ n2.votes = n1.votes
        /\ n2.log = n1.log /\ n2.committed = n1.committed
      BY <1>4 DEF NodeOK, NodeType
  <2> QED BY <1>4, <2>1, <2>2, Zenon DEF Quiet, NodeOK
<1>9. Quiet(n, n2)
    BY <1>3, <1>8, QuietTrans
<1>10. Quiet(n2, maybe_commit(n2))
    BY <1>8, MaybeCommitQuiet DEF Quiet
<1> QED BY <1>7, <1>9, <1>10, QuietTrans

-----------------------------------------------------------------------------
(* Handlers that only replicate the log.                                   *)

LEMMA BcastAppendQuiet ==
    ASSUME NEW n, NodeOK(n)
    PROVE  Quiet(n, bcast_append(n))
<1>1. Peers(n) \in SUBSET Server
    BY DEF Peers
<1> QED BY <1>1, SendAppendQuiet DEF bcast_append

LEMMA SendRestQuiet ==
    ASSUME NEW n, NodeOK(n), NEW to \in Server
    PROVE  Quiet(n, send_rest(n, to)) /\ send_rest(n, to).log = n.log
<1> DEFINE p == n.prs[to]
           todo == (last_index(n) - p.next + MaxMsgEntries) \div MaxMsgEntries
           room == MaxInflight - Len(p.ins)
           count == IF todo < room THEN todo ELSE room
           ends == [k \in 1..count |-> ChunkEnd(n, p.next, k)]
           ms == {AppMessage(n, to, p.next + k * MaxMsgEntries) : k \in 0..(count - 1)}
           s == send(n, ms)
           q == [p EXCEPT !.next = ends[count] + 1, !.ins = p.ins \o ends]
           f == [s.prs EXCEPT ![to] = q]
<1>1. p \in ProgressType
    BY NodeFields
<1>2. p.next \in Nat \ {0} /\ p.ins \in Seq(Nat) /\ last_index(n) \in Nat
    BY <1>1, NodeFields DEF ProgressType
<1>3. count \in Int
    BY <1>2, ConfigAssumption, SMTT(30)
<1>4. CASE count <= 0
    BY <1>4 DEF send_rest, Quiet
<1>5. CASE ~(count <= 0)
  <2> HIDE DEF p, count
  <2>1. count \in Nat \ {0}
      BY <1>3, <1>5
  <2>2. \A k \in 1..count : ChunkEnd(n, p.next, k) \in Nat
    <3>1. \A k \in Nat \ {0} : ChunkEnd(n, p.next, k) \in Nat
        BY <1>2, ChunkEndType
    <3>2. \A k \in 1..count : k \in Nat \ {0}
        BY <2>1
    <3> QED BY <3>1, <3>2
  <2>3. ends \in Seq(Nat) /\ ends[count] \in Nat
      BY <2>1, <2>2
  <2>4. \A k \in 0..(count - 1) : p.next + k * MaxMsgEntries \in Nat \ {0}
    <3>1. \A k \in Nat : k * MaxMsgEntries \in Nat
        BY ConfigAssumption
    <3>2. \A x \in Nat : p.next + x \in Nat \ {0}
        BY <1>2
    <3>3. \A k \in 0..(count - 1) : k \in Nat
        BY <2>1
    <3> QED BY <3>1, <3>2, <3>3
  <2>5. \A m \in ms : m \in Draft /\ m.type = "MsgApp"
      BY <2>4, AppMessageDraft
  <2>6. Quiet(n, s) /\ s.log = n.log /\ s.prs = n.prs
    <3>1. ms \in SUBSET Draft
        BY <2>5
    <3>2. \A m \in ms : m.type \notin Answers /\ m.type # "MsgProp"
        BY <2>5 DEF Answers
    <3> HIDE DEF ms
    <3> QED BY <3>1, <3>2, SendQuiet
  <2>7. f \in [Server -> ProgressType]
    <3>1. s.prs \in [Server -> ProgressType] /\ s.prs[to] = p
        BY <2>6, NodeFields DEF p
    <3>2. p.ins \o ends \in Seq(Nat) /\ ends[count] + 1 \in Nat \ {0}
        BY <1>2, <2>3
    <3> HIDE DEF ends, s
    <3>3. q \in ProgressType
        BY <1>1, <3>1, <3>2, Zenon DEF ProgressType
    <3> QED BY <3>1, <3>3
  <2>8. send_rest(n, to) = [s EXCEPT !.prs = f]
      BY <1>5 DEF send_rest, p, count
  <2> HIDE DEF s, f
  <2>9. Quiet(s, [s EXCEPT !.prs = f]) /\ [s EXCEPT !.prs = f].log = s.log
      BY <2>6, <2>7, PrsQuiet DEF Quiet
  <2> QED BY <2>6, <2>8, <2>9, QuietTrans
<1> QED BY <1>4, <1>5

(* One message of a type other than the answers to vote requests.          *)
LEMMA SendOneQuiet ==
    ASSUME NEW n, NodeOK(n), NEW m \in Draft,
           m.type \notin Answers, m.type # "MsgProp"
    PROVE  Quiet(n, send(n, {m}))
BY SendQuiet

LEMMA ReplyDraft ==
    ASSUME NEW type \in MsgTypes \ Answers, type # "MsgProp", NEW to \in Server
    PROVE  /\ Message(type, to) \in Draft
           /\ Message(type, to).type \notin Answers
           /\ Message(type, to).type # "MsgProp"
BY MessageDraft

LEMMA BcastHeartbeatQuiet ==
    ASSUME NEW n, NodeOK(n)
    PROVE  Quiet(n, bcast_heartbeat(n))
<1> DEFINE commit(j) == IF n.prs[j].match < n.committed THEN n.prs[j].match ELSE n.committed
           hb(j) == [Message("MsgHeartbeat", j) EXCEPT !.commit = commit(j)]
           ms == {hb(j) : j \in Peers(n)}
<1>1. "MsgHeartbeat" \in MsgTypes \ Answers
    BY DEF MsgTypes, Answers
<1>2. ASSUME NEW j \in Server
      PROVE  /\ hb(j) \in Draft /\ hb(j).type \notin Answers /\ hb(j).type # "MsgProp"
  <2>1. n.prs[j].match \in Nat /\ n.committed \in Nat
      BY NodeFields DEF ProgressType
  <2>2. commit(j) \in Nat
      BY <2>1
  <2> HIDE DEF commit
  <2>0. Message("MsgHeartbeat", j) \in Draft
      BY <1>1, ReplyDraft
  <2>3. hb(j) \in Draft
      BY <2>0, <2>2, Zenon DEF Draft
  <2>4. hb(j).type = Message("MsgHeartbeat", j).type
      BY <1>1, ReplyDraft DEF Draft
  <2> QED BY <1>1, <2>3, <2>4, ReplyDraft
<1> HIDE DEF hb
<1>3. ms \in SUBSET Draft /\ \A m \in ms : m.type \notin Answers /\ m.type # "MsgProp"
    BY <1>2 DEF Peers
<1>4. bcast_heartbeat(n) = send(n, ms)
    BY DEF bcast_heartbeat, hb
<1> HIDE DEF ms
<1> QED BY <1>3, <1>4, SendQuiet

LEMMA AppendEntriesQuiet ==
    ASSUME NEW n, NodeOK(n), NEW m \in MessageType
    PROVE  Quiet(n, handle_append_entries(n, m))
<1> DEFINE a1 == [Reply(m, "MsgAppResp") EXCEPT !.index = n.committed]
           a2 == [Reply(m, "MsgAppResp") EXCEPT !.index = m.index + Len(m.entries)]
           a3 == [Reply(m, "MsgAppResp") EXCEPT !.index = m.index, !.reject = TRUE,
                                                !.reject_hint = last_index(n)]
<1>1. "MsgAppResp" \in MsgTypes \ Answers
    BY DEF MsgTypes, Answers
<1>2. m.from \in Server /\ m.index \in Nat /\ m.entries \in Seq(EntryType)
    BY MessageFields
<1>3. /\ Reply(m, "MsgAppResp") \in Draft
      /\ Reply(m, "MsgAppResp").type \notin Answers /\ Reply(m, "MsgAppResp").type # "MsgProp"
    BY <1>1, <1>2, ReplyDraft DEF Reply
<1>4. n.committed \in Nat /\ m.index + Len(m.entries) \in Nat /\ last_index(n) \in Nat
    BY <1>2, NodeFields
<1>5. a1 \in Draft /\ a2 \in Draft /\ a3 \in Draft
    BY <1>2, <1>3, <1>4, Zenon DEF Draft
<1>6. /\ a1.type = Reply(m, "MsgAppResp").type
      /\ a2.type = Reply(m, "MsgAppResp").type
      /\ a3.type = Reply(m, "MsgAppResp").type
    BY <1>3 DEF Draft
<1>7. handle_append_entries(n, m) \in
        {send(n, {a1}), send(maybe_append(n, m), {a2}), send(n, {a3})}
    BY DEF handle_append_entries
<1> HIDE DEF a1, a2, a3
<1>8. Quiet(n, send(n, {a1})) /\ Quiet(n, send(n, {a3}))
    BY <1>3, <1>5, <1>6, SendOneQuiet
<1>9. Quiet(n, maybe_append(n, m))
    BY MaybeAppendQuiet
<1>10. Quiet(maybe_append(n, m), send(maybe_append(n, m), {a2}))
    BY <1>3, <1>5, <1>6, <1>9, SendOneQuiet DEF Quiet
<1> QED BY <1>7, <1>8, <1>9, <1>10, QuietTrans

LEMMA HeartbeatQuiet ==
    ASSUME NEW n, NodeOK(n), NEW m \in MessageType
    PROVE  Quiet(n, handle_heartbeat(n, m))
<1>1. "MsgHeartbeatResp" \in MsgTypes \ Answers
    BY DEF MsgTypes, Answers
<1>2. Quiet(n, commit_to(n, m.commit))
    BY MessageFields, CommitToQuiet
<1>3. Quiet(commit_to(n, m.commit), handle_heartbeat(n, m))
    BY <1>1, <1>2, MessageFields, ReplyDraft, SendOneQuiet
       DEF handle_heartbeat, Reply, Quiet
<1> QED BY <1>2, <1>3, QuietTrans

LEMMA TimeoutNowQuiet ==
    ASSUME NEW n, NodeOK(n), NEW j \in Server
    PROVE  Quiet(n, timeout_now(n, j))
<1>1. "MsgTimeoutNow" \in MsgTypes \ Answers
    BY DEF MsgTypes, Answers
<1> QED BY <1>1, ReplyDraft, SendOneQuiet DEF timeout_now

LEMMA AppRespRejectedQuiet ==
    ASSUME NEW n, NodeOK(n), NEW m \in MessageType
    PROVE  Quiet(n, app_resp_rejected(n, m))
<1> DEFINE p1 == maybe_decreases_to(n.prs[m.from], m.index, m.reject_hint)
           p2 == IF p1.state = "Replicate" THEN become_probe(p1) ELSE p1
           f == [n.prs EXCEPT ![m.from] = p2]
           n1 == [n EXCEPT !.prs = f]
<1>1. m.from \in Server /\ m.index \in Nat /\ m.reject_hint \in Nat
    BY MessageFields
<1>2. p1 \in ProgressType
    BY <1>1, NodeFields, DecreasesType
<1>3. p2 \in ProgressType
    BY <1>2, ProgressTypes
<1> HIDE DEF p2
<1>4. f \in [Server -> ProgressType]
    BY <1>1, <1>3, NodeFields
<1> HIDE DEF f
<1>5. Quiet(n, n1)
    BY <1>4, PrsQuiet
<1>6. Quiet(n1, send_append(n1, {m.from}))
  <2>1. NodeOK(n1) /\ {m.from} \in SUBSET Server
      BY <1>1, <1>5 DEF Quiet
  <2> HIDE DEF n1
  <2> QED BY <2>1, SendAppendQuiet
<1>7. CASE ~decreases(n.prs[m.from], m.index)
    BY <1>7 DEF app_resp_rejected, Quiet
<1>8. CASE decreases(n.prs[m.from], m.index)
  <2>1. app_resp_rejected(n, m) = send_append(n1, {m.from})
      BY <1>8 DEF app_resp_rejected, f, p2
  <2> QED BY <1>5, <1>6, <2>1, QuietTrans
<1> QED BY <1>7, <1>8

LEMMA AppRespAcceptedQuiet ==
    ASSUME NEW n, NodeOK(n), NEW m \in MessageType
    PROVE  Quiet(n, app_resp_accepted(n, m))
<1> DEFINE p == n.prs[m.from]
           p1 == maybe_update(p, m.index)
           p2 == IF p1.state = "Probe" THEN become_replicate(p1) ELSE free_to(p1, m.index)
           f1 == [n.prs EXCEPT ![m.from] = p1]
           f2 == [n.prs EXCEPT ![m.from] = p2]
           n1 == [n EXCEPT !.prs = f1]
           n2 == [n EXCEPT !.prs = f2]
           n3 == maybe_commit(n2)
           n4 == IF n3.committed # n2.committed THEN bcast_append(n3)
                 ELSE IF is_paused(p) THEN send_append(n3, {m.from}) ELSE n3
           n5 == send_rest(n4, m.from)
           n6 == timeout_now(n5, m.from)
<1>1. m.from \in Server /\ m.index \in Nat
    BY MessageFields
<1>2. p \in ProgressType
    BY <1>1, NodeFields
<1>3. p1 \in ProgressType
    BY <1>1, <1>2, ProgressTypes
<1>4. p2 \in ProgressType
    BY <1>3, ProgressTypes, FreeToType
<1>5. f1 \in [Server -> ProgressType] /\ f2 \in [Server -> ProgressType]
    BY <1>1, <1>3, <1>4, NodeFields
<1>6. app_resp_accepted(n, m) \in {n1, n5, n6}
    BY DEF app_resp_accepted
<1> HIDE DEF p2, p1, f1, f2, n3, n4, n5, n6
<1>7. Quiet(n, n1) /\ Quiet(n, n2)
    BY <1>5, PrsQuiet
<1> HIDE DEF n1, n2
<1>8. Quiet(n, n3)
  <2>1. Quiet(n2, n3)
      BY <1>7, MaybeCommitQuiet DEF n3, Quiet
  <2> QED BY <1>7, <2>1, QuietTrans
<1>9. Quiet(n, n4)
  <2>1. Quiet(n3, n4)
      BY <1>1, <1>8, BcastAppendQuiet, SendAppendQuiet DEF n4, Quiet
  <2> QED BY <1>8, <2>1, QuietTrans
<1>10. Quiet(n, n5)
  <2>1. Quiet(n4, n5)
      BY <1>1, <1>9, SendRestQuiet DEF n5, Quiet
  <2> QED BY <1>9, <2>1, QuietTrans
<1>11. Quiet(n, n6)
  <2>1. Quiet(n5, n6)
      BY <1>1, <1>10, TimeoutNowQuiet DEF n6, Quiet
  <2> QED BY <1>10, <2>1, QuietTrans
<1> QED BY <1>6, <1>7, <1>10, <1>11

LEMMA AppRespQuiet ==
    ASSUME NEW n, NodeOK(n), NEW m \in MessageType
    PROVE  Quiet(n, handle_app_resp(n, m))
<1> DEFINE f == [n.prs EXCEPT ![m.from] = [@ EXCEPT !.recent_active = TRUE]]
           n1 == [n EXCEPT !.prs = f]
<1>1. [n.prs[m.from] EXCEPT !.recent_active = TRUE] \in ProgressType
  <2>1. n.prs[m.from] \in ProgressType
      BY MessageFields, NodeFields
  <2> QED BY <2>1, Zenon DEF ProgressType
<1>2. f \in [Server -> ProgressType]
    BY <1>1, NodeFields
<1>3. handle_app_resp(n, m) \in {app_resp_rejected(n1, m), app_resp_accepted(n1, m)}
    BY DEF handle_app_resp
<1> HIDE DEF f
<1>4. Quiet(n, n1)
    BY <1>2, PrsQuiet
<1>5. NodeOK(n1)
    BY <1>4 DEF Quiet
<1> HIDE DEF n1
<1>6. Quiet(n1, app_resp_rejected(n1, m)) /\ Quiet(n1, app_resp_accepted(n1, m))
    BY <1>5, AppRespRejectedQuiet, AppRespAcceptedQuiet
<1> QED BY <1>3, <1>4, <1>6, QuietTrans

LEMMA HeartbeatRespQuiet ==
    ASSUME NEW n, NodeOK(n), NEW m \in MessageType
    PROVE  Quiet(n, handle_heartbeat_resp(n, m))
<1> DEFINE p == [n.prs[m.from] EXCEPT !.recent_active = TRUE, !.paused = FALSE]
           p1 == IF p.state = "Replicate" /\ is_full(p) THEN free_first_one(p) ELSE p
           f == [n.prs EXCEPT ![m.from] = p1]
           n1 == [n EXCEPT !.prs = f]
<1>1. p \in ProgressType
  <2>1. n.prs[m.from] \in ProgressType
      BY MessageFields, NodeFields
  <2> QED BY <2>1, Zenon DEF ProgressType
<1>2. p1 \in ProgressType
    BY <1>1, FreeToType DEF free_first_one
<1>3. handle_heartbeat_resp(n, m) \in {n1, send_append(n1, {m.from})}
    BY DEF handle_heartbeat_resp
<1> HIDE DEF p1
<1>4. f \in [Server -> ProgressType]
    BY <1>2, NodeFields
<1> HIDE DEF f
<1>5. Quiet(n, n1)
    BY <1>4, PrsQuiet
<1>6. NodeOK(n1) /\ {m.from} \in SUBSET Server
    BY <1>5, MessageFields DEF Quiet
<1> HIDE DEF n1
<1>7. Quiet(n1, send_append(n1, {m.from}))
    BY <1>6, SendAppendQuiet
<1> QED BY <1>3, <1>5, <1>7, QuietTrans

(* Changes of the leader known, the timer and the transferee alone.        *)
LEMMA MarksQuiet ==
    ASSUME NEW n, NodeOK(n), NEW x \in Id, NEW b \in BOOLEAN
    PROVE  /\ Quiet(n, [n EXCEPT !.transferee = x])
           /\ Quiet(n, [n EXCEPT !.transferee = x, !.lapsed = b])
           /\ Quiet(n, [n EXCEPT !.lapsed = b, !.lead = x])
           /\ Quiet(n, [n EXCEPT !.lapsed = b])
<1> DEFINE R == {[n EXCEPT !.transferee = x], [n EXCEPT !.transferee = x, !.lapsed = b],
                 [n EXCEPT !.lapsed = b, !.lead = x], [n EXCEPT !.lapsed = b]}
<1>1. R \subseteq NodeType
  <2>1. [n EXCEPT !.transferee = x] \in NodeType
      BY Zenon DEF NodeOK, NodeType
  <2>2. [n EXCEPT !.transferee = x, !.lapsed = b] \in NodeType
      BY Zenon DEF NodeOK, NodeType
  <2>3. [n EXCEPT !.lapsed = b, !.lead = x] \in NodeType
      BY Zenon DEF NodeOK, NodeType
  <2>4. [n EXCEPT !.lapsed = b] \in NodeType
      BY Zenon DEF NodeOK, NodeType
  <2> QED BY <2>1, <2>2, <2>3, <2>4, Zenon
<1>2. \A r \in R : /\ r.msgs = n.msgs /\ r.id = n.id /\ r.term = n.term
                   /\ r.vote = n.vote /\ r.state = n.state /\ r.votes = n.votes
                   /\ r.log = n.log /\ r.committed = n.committed
    BY DEF NodeOK, NodeType
<1> HIDE DEF R
<1>3. \A r \in R : Quiet(n, r)
    BY <1>1, <1>2, Zenon DEF Quiet, NodeOK
<1> QED BY <1>3, Zenon DEF R

LEMMA TransferLeaderQuiet ==
    ASSUME NEW n, NodeOK(n), NEW to \in Server
    PROVE  Quiet(n, handle_transfer_leader(n, to))
<1> DEFINE n1 == [n EXCEPT !.transferee = to, !.lapsed = FALSE]
           n2 == [n EXCEPT !.transferee = Nil]
<1>1. handle_transfer_leader(n, to) \in {n, n2, timeout_now(n1, to), send_append(n1, {to})}
    BY Zenon DEF handle_transfer_leader
<1>2. Quiet(n, n) /\ Quiet(n, n1) /\ Quiet(n, n2)
  <2>1. to \in Id /\ Nil \in Id /\ FALSE \in BOOLEAN
      BY DEF Id
  <2>2. Quiet(n, n1) /\ Quiet(n, n2)
      BY <2>1, MarksQuiet, Zenon
  <2> QED BY <2>2, Zenon DEF Quiet
<1> HIDE DEF n1, n2
<1>3. Quiet(n1, timeout_now(n1, to)) /\ Quiet(n1, send_append(n1, {to}))
    BY <1>2, TimeoutNowQuiet, SendAppendQuiet DEF Quiet
<1> QED BY <1>1, <1>2, <1>3, QuietTrans

LEMMA ProposeQuiet ==
    ASSUME NEW n, NodeOK(n), NEW v \in Payload
    PROVE  Quiet(n, propose(n, v))
<1>1. Quiet(n, append_entry(n, v))
    BY AppendEntryQuiet
<1>2. Quiet(append_entry(n, v), propose(n, v))
    BY <1>1, BcastAppendQuiet DEF propose, Quiet
<1> QED BY <1>1, <1>2, QuietTrans

(* m is a MsgProp of one entry or a MsgTransferLeader, from the network or *)
(* from the API.                                                           *)
Passable(m) ==
    /\ \A j \in Server : [m EXCEPT !.to = j] \in Draft
    /\ \A j \in Server : [m EXCEPT !.to = j].type = m.type
                         /\ [m EXCEPT !.to = j].entries = m.entries
    /\ m.type = "MsgProp" => Len(m.entries) = 1

LEMMA PassOnQuiet ==
    ASSUME NEW n, NodeOK(n), NEW m, Passable(m), n.lead # Nil, m.type \notin Answers
    PROVE  Quiet(n, send(n, {[m EXCEPT !.to = n.lead]}))
<1>1. n.lead \in Server
    BY NodeFields DEF Id
<1> DEFINE d == [m EXCEPT !.to = n.lead]
<1>2. d \in Draft /\ d.type = m.type /\ d.entries = m.entries
    BY <1>1 DEF Passable
<1> HIDE DEF d
<1>3. {d} \in SUBSET Draft /\ \A x \in {d} : x.type \notin Answers
    BY <1>2
<1>4. \A x \in {d} : x.type = "MsgProp" => Len(x.entries) = 1
    BY <1>2 DEF Passable
<1>5. Quiet(n, send(n, {d}))
    BY <1>3, <1>4, SendQuiet
<1> QED BY <1>5 DEF d

LEMMA StepPropQuiet ==
    ASSUME NEW n, NodeOK(n), NEW m, Passable(m), m.type = "MsgProp",
           m.entries[1].value \in Payload
    PROVE  Quiet(n, step_prop(n, m))
<1>1. CASE n.state = "Leader"
    BY <1>1, ProposeQuiet DEF step_prop, Quiet
<1>2. CASE n.state # "Leader" /\ n.state = "Follower" /\ n.lead # Nil
  <2>1. step_prop(n, m) = send(n, {[m EXCEPT !.to = n.lead]})
      BY <1>2 DEF step_prop
  <2> QED BY <1>2, <2>1, PassOnQuiet DEF Answers
<1>3. CASE n.state # "Leader" /\ ~(n.state = "Follower" /\ n.lead # Nil)
    BY <1>3 DEF step_prop, Quiet
<1> QED BY <1>1, <1>2, <1>3

LEMMA StepTransferQuiet ==
    ASSUME NEW n, NodeOK(n), NEW m, Passable(m), m.type = "MsgTransferLeader",
           m.from \in Server
    PROVE  Quiet(n, step_transfer(n, m))
<1>1. CASE n.state = "Leader"
    BY <1>1, TransferLeaderQuiet DEF step_transfer
<1>2. CASE n.state # "Leader" /\ n.state = "Follower" /\ n.lead # Nil
  <2>1. step_transfer(n, m) = send(n, {[m EXCEPT !.to = n.lead]})
      BY <1>2 DEF step_transfer
  <2> QED BY <1>2, <2>1, PassOnQuiet DEF Answers
<1>3. CASE n.state # "Leader" /\ ~(n.state = "Follower" /\ n.lead # Nil)
    BY <1>3 DEF step_transfer, Quiet
<1> QED BY <1>1, <1>2, <1>3

-----------------------------------------------------------------------------
(* Changes of term, vote and role.                                         *)

LEMMA ResetNode ==
    ASSUME NEW n, NodeOK(n), NEW t \in Nat
    PROVE  LET r == reset(n, t)
           IN  /\ NodeOK(r) /\ r.id = n.id /\ r.msgs = n.msgs /\ r.state = n.state
               /\ r.term = t /\ r.vote = (IF t = n.term THEN n.vote ELSE Nil)
               /\ r.votes = [j \in Server |-> "none"] /\ r.log = n.log
               /\ r.fatal = n.fatal
<1> DEFINE v == IF t = n.term THEN n.vote ELSE Nil
           f == [j \in Server |-> NewProgress(IF j = n.id THEN last_index(n) ELSE 0,
                                              last_index(n) + 1)]
           w == [j \in Server |-> "none"]
           r == reset(n, t)
<1>1. v \in Id /\ Nil \in Id
    BY NodeFields DEF Id
<1>2. f \in [Server -> ProgressType]
  <2>1. last_index(n) \in Nat /\ last_index(n) + 1 \in Nat \ {0} /\ 0 \in Nat
      BY NodeFields
  <2>2. <<>> \in Seq(Nat)
      OBVIOUS
  <2>3. ASSUME NEW a \in Nat
        PROVE  NewProgress(a, last_index(n) + 1) \in ProgressType
      BY <2>1, <2>2, Zenon DEF NewProgress, ProgressType
  <2> QED BY <2>1, <2>3
<1>3. w \in [Server -> {"none", "granted", "rejected"}]
    OBVIOUS
<1>4. r = [n EXCEPT !.term = t, !.vote = v, !.lead = Nil, !.lapsed = FALSE,
                    !.transferee = Nil, !.votes = w, !.prs = f, !.uncommitted = 0]
    BY DEF reset
<1>5. 0 \in Nat
    OBVIOUS
<1> HIDE DEF v, f, w, r
<1>6. r \in NodeType
    BY <1>1, <1>2, <1>3, <1>4, <1>5, Zenon DEF NodeOK, NodeType
<1>7. /\ r.id = n.id /\ r.msgs = n.msgs /\ r.state = n.state
      /\ r.term = t /\ r.vote = v /\ r.votes = w /\ r.log = n.log
      /\ r.committed = n.committed
    BY <1>4 DEF NodeOK, NodeType
<1>8. r.fatal = n.fatal
    BY <1>4, Zenon DEF NodeOK, NodeType
<1>9. NodeOK(r)
    BY <1>6, <1>7, Zenon DEF NodeOK
<1> QED BY <1>7, <1>8, <1>9 DEF v, w, r

(* Another role, with another leader known or another vote.                *)
WithLead(n, l, st) == [n EXCEPT !.lead = l, !.state = st]

WithVote(n, v, st) == [n EXCEPT !.vote = v, !.state = st]

LEMMA RoleNode ==
    ASSUME NEW n, NodeOK(n), NEW l \in Id,
           NEW st \in {"Follower", "PreCandidate", "Candidate", "Leader"}
    PROVE  LET r == WithLead(n, l, st)
           IN  /\ NodeOK(r) /\ r.id = n.id /\ r.msgs = n.msgs /\ r.state = st
               /\ r.term = n.term /\ r.vote = n.vote /\ r.votes = n.votes
<1> DEFINE r == [n EXCEPT !.lead = l, !.state = st]
<1>1. r \in NodeType
    BY Zenon DEF NodeOK, NodeType
<1>2. /\ r.id = n.id /\ r.msgs = n.msgs /\ r.state = st /\ r.log = n.log
      /\ r.term = n.term /\ r.vote = n.vote /\ r.votes = n.votes
      /\ r.committed = n.committed
    BY DEF NodeOK, NodeType
<1> HIDE DEF r
<1>3. NodeOK(r)
    BY <1>1, <1>2, Zenon DEF NodeOK
<1> QED BY <1>2, <1>3 DEF r, WithLead

LEMMA VoterNode ==
    ASSUME NEW n, NodeOK(n), NEW v \in Id,
           NEW st \in {"Follower", "PreCandidate", "Candidate", "Leader"}
    PROVE  LET r == WithVote(n, v, st)
           IN  /\ NodeOK(r) /\ r.id = n.id /\ r.msgs = n.msgs /\ r.state = st
               /\ r.term = n.term /\ r.vote = v /\ r.votes = n.votes
<1> DEFINE r == [n EXCEPT !.vote = v, !.state = st]
<1>1. r \in NodeType
    BY Zenon DEF NodeOK, NodeType
<1>2. /\ r.id = n.id /\ r.msgs = n.msgs /\ r.state = st /\ r.log = n.log
      /\ r.term = n.term /\ r.vote = v /\ r.votes = n.votes
      /\ r.committed = n.committed
    BY DEF NodeOK, NodeType
<1> HIDE DEF r
<1>3. NodeOK(r)
    BY <1>1, <1>2, Zenon DEF NodeOK
<1> QED BY <1>2, <1>3 DEF r, WithVote

LEMMA BecomeFollower ==
    ASSUME NEW n, NodeOK(n), NEW t \in Nat, NEW lead \in Id
    PROVE  LET r == become_follower(n, t, lead)
           IN  /\ NodeOK(r) /\ r.id = n.id /\ r.msgs = n.msgs /\ r.state = "Follower"
               /\ r.term = t /\ r.vote = (IF t = n.term THEN n.vote ELSE Nil)
<1> DEFINE q == reset(n, t)
<1>1. /\ NodeOK(q) /\ q.id = n.id /\ q.msgs = n.msgs
      /\ q.term = t /\ q.vote = (IF t = n.term THEN n.vote ELSE Nil)
    BY ResetNode
<1> HIDE DEF q
<1>2. become_follower(n, t, lead) = WithLead(q, lead, "Follower")
    BY DEF become_follower, WithLead, q
<1> DEFINE r == become_follower(n, t, lead)
<1>3. /\ NodeOK(r) /\ r.id = q.id /\ r.msgs = q.msgs /\ r.state = "Follower"
      /\ r.term = q.term /\ r.vote = q.vote
  <2>1. NodeOK(q)
      BY <1>1
  <2> DEFINE x == WithLead(q, lead, "Follower")
  <2>2. /\ NodeOK(x) /\ x.id = q.id /\ x.msgs = q.msgs /\ x.state = "Follower"
        /\ x.term = q.term /\ x.vote = q.vote
      BY <2>1, RoleNode
  <2> HIDE DEF x
  <2>3. r = x
      BY <1>2 DEF x
  <2> QED BY <2>2, <2>3
<1> HIDE DEF r
<1>4. /\ NodeOK(r) /\ r.id = n.id /\ r.msgs = n.msgs /\ r.state = "Follower"
      /\ r.term = t /\ r.vote = (IF t = n.term THEN n.vote ELSE Nil)
    BY <1>1, <1>3
<1> QED BY <1>4, Zenon DEF r

(* r comes from n by steps that lower no term and change no vote cast.     *)
Moves(n, r) ==
    /\ NodeOK(r) /\ r.id = n.id
    /\ r.term >= n.term
    /\ r.term = n.term /\ n.vote # Nil => r.vote = n.vote

LEMMA QuietMoves ==
    ASSUME NEW n, NodeOK(n), NEW r, Quiet(n, r)
    PROVE  Moves(n, r)
BY NodeFields DEF Quiet, Moves

LEMMA MovesTrans ==
    ASSUME NEW n, NodeOK(n), NEW r, NEW q, Moves(n, r), Moves(r, q)
    PROVE  Moves(n, q)
<1>1. n.term \in Nat /\ r.term \in Nat /\ q.term \in Nat
    BY NodeFields DEF Moves
<1> QED BY <1>1 DEF Moves

LEMMA PollNode ==
    ASSUME NEW n, NodeOK(n), NEW j \in Server, NEW granted \in BOOLEAN
    PROVE  LET c == poll(n, j, granted)
           IN  /\ NodeOK(c) /\ c.id = n.id /\ c.msgs = n.msgs /\ c.state = n.state
               /\ c.term = n.term /\ c.vote = n.vote
               /\ \A k \in Server : c.votes[k] = "granted" =>
                     n.votes[k] = "granted" \/ (k = j /\ granted)
<1> DEFINE x == IF n.votes[j] # "none" THEN n.votes[j]
                ELSE IF granted THEN "granted" ELSE "rejected"
           w == [n.votes EXCEPT ![j] = x]
           c == [n EXCEPT !.votes = w]
<1>1. n.votes \in [Server -> {"none", "granted", "rejected"}]
    BY DEF NodeOK, NodeType
<1>2. x \in {"none", "granted", "rejected"}
    BY <1>1
<1>3. w \in [Server -> {"none", "granted", "rejected"}]
    BY <1>1, <1>2
<1>4. \A k \in Server : w[k] = "granted" => n.votes[k] = "granted" \/ (k = j /\ granted)
    BY <1>1
<1>5. poll(n, j, granted) = c
    BY DEF poll
<1> HIDE DEF w, x
<1>6. c \in NodeType
    BY <1>3, Zenon DEF NodeOK, NodeType
<1>7. /\ c.id = n.id /\ c.msgs = n.msgs /\ c.state = n.state /\ c.log = n.log
      /\ c.term = n.term /\ c.vote = n.vote /\ c.votes = w /\ c.committed = n.committed
    BY DEF NodeOK, NodeType
<1> HIDE DEF c
<1>8. NodeOK(c)
    BY <1>6, <1>7, Zenon DEF NodeOK
<1> QED BY <1>4, <1>5, <1>7, <1>8

LEMMA OwnVote ==
    ASSUME NEW n, NodeOK(n), NEW j \in Server
    PROVE  LET c == poll(n, j, TRUE)
           IN  /\ NodeOK(c) /\ c.id = n.id /\ c.msgs = n.msgs /\ c.state = n.state
               /\ c.term = n.term /\ c.vote = n.vote
               /\ \A k \in Server : c.votes[k] = "granted" =>
                     n.votes[k] = "granted" \/ k = j
BY PollNode, Zenon

LEMMA BecomeLeader ==
    ASSUME NEW n, NodeOK(n)
    PROVE  LET r == become_leader(n)
           IN  /\ NodeOK(r) /\ r.id = n.id /\ r.term = n.term /\ r.vote = n.vote
               /\ r.state = (IF n.state = "Follower" THEN "Follower" ELSE "Leader")
               /\ \A m \in r.msgs : m.type \in Answers => m \in n.msgs
<1> DEFINE q == reset(n, n.term)
           f == [q.prs EXCEPT ![n.id] = become_replicate(@)]
           l == WithLead(q, n.id, "Leader")
           p == [l EXCEPT !.prs = f]
<1>1. CASE n.state = "Follower"
    BY <1>1, FatalQuiet DEF become_leader, Quiet
<1>2. CASE n.state # "Follower"
  <2>1. n.id \in Server /\ n.term \in Nat
      BY NodeFields
  <2>2. /\ NodeOK(q) /\ q.id = n.id /\ q.term = n.term /\ q.vote = n.vote
        /\ q.msgs = n.msgs
      BY <2>1, ResetNode
  <2> HIDE DEF q
  <2>3. f \in [Server -> ProgressType]
      BY <2>1, <2>2, NodeFields, ProgressTypes
  <2>4. /\ NodeOK(l) /\ l.id = n.id /\ l.term = n.term /\ l.vote = n.vote
        /\ l.state = "Leader" /\ l.msgs = n.msgs
    <3>1. n.id \in Id
        BY <2>1 DEF Id
    <3> QED BY <2>2, <3>1, RoleNode
  <2>5. become_leader(n) = append_entry(p, "noop")
    <3>1. p = [q EXCEPT !.lead = n.id, !.state = "Leader", !.prs[n.id] = become_replicate(@)]
        BY <2>2 DEF NodeOK, NodeType, WithLead
    <3> HIDE DEF p
    <3> QED BY <1>2, <3>1 DEF become_leader, q
  <2> HIDE DEF f, l
  <2>6. Quiet(l, p)
      BY <2>3, <2>4, PrsQuiet
  <2>7. Quiet(p, append_entry(p, "noop"))
    <3>1. NodeOK(p) /\ "noop" \in Payload
        BY <2>6 DEF Quiet, Payload
    <3> HIDE DEF p
    <3> QED BY <3>1, AppendEntryQuiet
  <2>8. Quiet(l, append_entry(p, "noop"))
      BY <2>6, <2>7, QuietTrans
  <2> HIDE DEF p
  <2> QED BY <1>2, <2>4, <2>5, <2>8 DEF Quiet
<1> QED BY <1>1, <1>2

LEMMA BecomeCandidate ==
    ASSUME NEW n, NodeOK(n), n.state # "Leader"
    PROVE  LET r == become_candidate(n)
           IN  /\ NodeOK(r) /\ r.id = n.id /\ r.msgs = n.msgs /\ r.state = "Candidate"
               /\ r.term = n.term + 1 /\ r.vote = n.id
               /\ r.votes = [j \in Server |-> "none"]
<1> DEFINE q == reset(n, n.term + 1)
           r == WithVote(q, n.id, "Candidate")
<1>1. n.term + 1 \in Nat /\ n.id \in Id
    BY NodeFields DEF Id
<1>2. /\ NodeOK(q) /\ q.id = n.id /\ q.msgs = n.msgs /\ q.term = n.term + 1
      /\ q.votes = [j \in Server |-> "none"]
    BY <1>1, ResetNode
<1>3. become_candidate(n) = r
    BY DEF become_candidate, WithVote
<1> HIDE DEF q
<1>4. /\ NodeOK(r) /\ r.id = q.id /\ r.msgs = q.msgs /\ r.state = "Candidate"
      /\ r.term = q.term /\ r.vote = n.id /\ r.votes = q.votes
  <2>1. NodeOK(q)
      BY <1>2
  <2> QED BY <1>1, <2>1, VoterNode
<1> HIDE DEF r
<1> QED BY <1>2, <1>3, <1>4

(* Requests for votes, of both kinds.                                      *)
LEMMA VoteRequestDrafts ==
    ASSUME NEW n, NodeOK(n), NEW type \in {"MsgVote", "MsgPreVote"}, NEW t \in Nat
    PROVE  /\ VoteRequests(n, type, t) \in SUBSET Draft
           /\ \A m \in VoteRequests(n, type, t) : m.type = type
<1> DEFINE req(j) == [Message(type, j) EXCEPT !.term = t, !.index = last_index(n),
                                              !.log_term = last_term(n)]
<1>1. last_index(n) \in Nat /\ last_term(n) \in Nat
    BY NodeFields DEF last_term
<1>2. type \in MsgTypes
    BY DEF MsgTypes, VoteTypes
<1>3. ASSUME NEW j \in Server
      PROVE  req(j) \in Draft /\ req(j).type = type
  <2>1. Message(type, j) \in Draft /\ Message(type, j).type = type
      BY <1>2, MessageDraft
  <2>2. req(j) \in Draft
      BY <1>1, <2>1, Zenon DEF Draft
  <2>3. req(j).type = Message(type, j).type
      BY <2>1 DEF Draft
  <2> QED BY <2>1, <2>2, <2>3
<1> HIDE DEF req
<1>4. VoteRequests(n, type, t) = {req(j) : j \in Peers(n)}
    BY DEF VoteRequests, req
<1> QED BY <1>3, <1>4 DEF Peers

(* A campaign opens the next term with the vote of the server itself; it   *)
(* wins at once only when that vote is a quorum.                           *)
LEMMA CampaignElection ==
    ASSUME NEW n, NodeOK(n), n.state # "Leader"
    PROVE  LET r == campaign_election(n)
           IN  /\ NodeOK(r) /\ r.id = n.id /\ r.term = n.term + 1 /\ r.vote = n.id
               /\ r.state \in {"Candidate", "Leader"}
               /\ \A m \in r.msgs : m.type \in Answers => m \in n.msgs
               /\ r.state = "Candidate" =>
                     \A j \in Server : r.votes[j] = "granted" => j = n.id
               /\ r.state = "Leader" => \E Q \in SUBSET {n.id} : Cardinality(Q) >= quorum
<1> DEFINE b == become_candidate(n)
           c == poll(b, n.id, TRUE)
           r == campaign_election(n)
<1>1. /\ NodeOK(b) /\ b.id = n.id /\ b.msgs = n.msgs /\ b.state = "Candidate"
      /\ b.term = n.term + 1 /\ b.vote = n.id
      /\ b.votes = [j \in Server |-> "none"]
    BY BecomeCandidate
<1> HIDE DEF b
<1>2. n.id \in Server /\ n.term \in Nat
    BY NodeFields
<1>3. /\ NodeOK(c) /\ c.id = n.id /\ c.msgs = n.msgs /\ c.state = "Candidate"
      /\ c.term = n.term + 1 /\ c.vote = n.id
      /\ \A k \in Server : c.votes[k] = "granted" => b.votes[k] = "granted" \/ k = n.id
    BY <1>1, <1>2, OwnVote
<1>4. \A k \in Server : c.votes[k] = "granted" => k = n.id
    BY <1>1, <1>3
<1>5. r = IF Count(c, "granted") = quorum THEN become_leader(c)
          ELSE send(c, VoteRequests(c, "MsgVote", c.term))
    BY DEF campaign_election, b
<1> HIDE DEF c, r
<1>6. CASE Count(c, "granted") = quorum
  <2>1. r = become_leader(c)
      BY <1>5, <1>6
  <2>2. /\ NodeOK(r) /\ r.id = c.id /\ r.term = c.term /\ r.vote = c.vote
        /\ r.state = (IF c.state = "Follower" THEN "Follower" ELSE "Leader")
        /\ \A m \in r.msgs : m.type \in Answers => m \in c.msgs
      BY <1>3, <2>1, BecomeLeader
  <2>3. {j \in Server : c.votes[j] = "granted"} \in SUBSET {n.id}
      BY <1>4
  <2>4. Cardinality({j \in Server : c.votes[j] = "granted"}) >= quorum
      BY <1>6, QuorumType DEF Count
  <2>5. r.state = "Leader"
      BY <1>3, <2>2
  <2> QED BY <1>3, <2>2, <2>3, <2>4, <2>5 DEF r
<1>7. CASE Count(c, "granted") # quorum
  <2>1. r = send(c, VoteRequests(c, "MsgVote", c.term))
      BY <1>5, <1>7
  <2>2. /\ VoteRequests(c, "MsgVote", c.term) \in SUBSET Draft
        /\ \A m \in VoteRequests(c, "MsgVote", c.term) : m.type = "MsgVote"
      BY <1>3, NodeFields, VoteRequestDrafts
  <2>3. Quiet(c, r)
      BY <1>3, <2>1, <2>2, SendQuiet DEF Answers
  <2> QED BY <1>3, <1>4, <2>3 DEF r, Quiet
<1> QED BY <1>6, <1>7

LEMMA CampaignPreElection ==
    ASSUME NEW n, NodeOK(n), n.state # "Leader"
    PROVE  Moves(n, campaign_pre_election(n))
<1> DEFINE w == [j \in Server |-> "none"]
           l == WithLead(n, Nil, "PreCandidate")
           b == [l EXCEPT !.votes = w]
           c == poll(become_pre_candidate(n), n.id, TRUE)
<1>1. n.id \in Server /\ n.term \in Nat /\ Nil \in Id
    BY NodeFields DEF Id
<1>2. /\ NodeOK(l) /\ l.id = n.id /\ l.state = "PreCandidate"
      /\ l.term = n.term /\ l.vote = n.vote
    BY <1>1, RoleNode
<1>3. become_pre_candidate(n) = b
    BY DEF become_pre_candidate, WithLead, NodeOK, NodeType
<1>4. w \in [Server -> {"none", "granted", "rejected"}]
    OBVIOUS
<1> HIDE DEF l, w
<1>5. /\ b \in NodeType /\ b.committed = l.committed /\ b.log = l.log
      /\ b.msgs = l.msgs /\ b.id = l.id /\ b.term = l.term /\ b.vote = l.vote
      /\ b.state = l.state
  <2>1. b \in NodeType
      BY <1>2, <1>4, Zenon DEF NodeOK, NodeType
  <2> QED BY <1>2, <2>1 DEF NodeOK, NodeType
<1> HIDE DEF b
<1>6. NodeOK(b)
    BY <1>2, <1>5, Zenon DEF NodeOK
<1>7. /\ NodeOK(c) /\ c.id = n.id /\ c.state = "PreCandidate"
      /\ c.term = n.term /\ c.vote = n.vote
    BY <1>1, <1>2, <1>3, <1>5, <1>6, OwnVote
<1>8. campaign_pre_election(n) \in
        {campaign_election(c), send(c, VoteRequests(c, "MsgPreVote", c.term + 1))}
    BY DEF campaign_pre_election
<1> HIDE DEF c
<1>9. Moves(n, campaign_election(c))
  <2>1. /\ NodeOK(campaign_election(c)) /\ campaign_election(c).id = c.id
        /\ campaign_election(c).term = c.term + 1
      BY <1>7, CampaignElection
  <2> QED BY <1>1, <1>7, <2>1 DEF Moves
<1>10. Moves(n, send(c, VoteRequests(c, "MsgPreVote", c.term + 1)))
  <2> DEFINE ms == VoteRequests(c, "MsgPreVote", c.term + 1)
  <2>1. ms \in SUBSET Draft /\ \A m \in ms : m.type = "MsgPreVote"
      BY <1>1, <1>7, VoteRequestDrafts
  <2> HIDE DEF ms
  <2>2. /\ NodeOK(send(c, ms)) /\ send(c, ms).id = c.id /\ send(c, ms).term = c.term
        /\ send(c, ms).vote = c.vote
      BY <1>7, <2>1, SendAny
  <2> QED BY <1>1, <1>7, <2>2 DEF Moves, ms
<1> QED BY <1>8, <1>9, <1>10

LEMMA HandleVote ==
    ASSUME NEW n, NodeOK(n), NEW m \in MessageType, m.type \in {"MsgVote", "MsgPreVote"}
    PROVE  LET r == handle_vote(n, m)
           IN  /\ NodeOK(r) /\ r.id = n.id /\ r.term = n.term
               /\ r.state = n.state /\ r.votes = n.votes
               /\ n.vote # Nil => r.vote = n.vote
               /\ m.type = "MsgVote" =>
                    \A x \in r.msgs :
                       x.type \in Answers =>
                         \/ x \in n.msgs
                         \/ /\ x.type = "MsgVoteResp"
                            /\ ~x.reject => /\ x.from = n.id /\ x.to = r.vote
                                            /\ x.term = m.term
<1> DEFINE type == vote_resp_msg_type(m.type)
           rep == Reply(m, type)
           a == [rep EXCEPT !.term = m.term]
           b == [rep EXCEPT !.term = n.term, !.reject = TRUE]
           g == send(n, {a})
           v == [g EXCEPT !.lapsed = FALSE, !.vote = m.from]
           r == handle_vote(n, m)
<1>1. m.from \in Server /\ m.term \in Nat /\ n.term \in Nat
    BY MessageFields, NodeFields
<1>2. type \in MsgTypes /\ type # "MsgProp" /\ type \in VoteTypes
    BY DEF vote_resp_msg_type, MsgTypes, VoteTypes
<1>3. m.type = "MsgVote" => type = "MsgVoteResp"
    BY DEF vote_resp_msg_type
<1> HIDE DEF type
<1>4. rep \in Draft /\ rep.type = type /\ rep.to = m.from
    BY <1>1, <1>2, MessageDraft DEF Reply
<1>5. a \in Draft /\ b \in Draft
    BY <1>1, <1>4, Zenon DEF Draft
<1>6. a.type = type /\ a.to = m.from /\ a.term = m.term /\ b.type = type
    BY <1>4 DEF Draft
<1>7. b.reject
    BY <1>4, Zenon DEF Draft
<1>8. r = IF can_vote(n, m) /\ is_up_to_date(n, m.index, m.log_term)
          THEN (IF m.type = "MsgVote" THEN v ELSE g) ELSE send(n, {b})
    BY DEF handle_vote, grant_vote, reject_vote, type
<1> HIDE DEF rep, a, b
<1>9. /\ NodeOK(g)
      /\ g.id = n.id /\ g.term = n.term /\ g.vote = n.vote
      /\ g.state = n.state /\ g.votes = n.votes
      /\ \A x \in g.msgs : x \in n.msgs \/ (/\ x.type = type /\ x.to = m.from
                                            /\ x.from = n.id /\ x.term = m.term)
  <2>1. {a} \in SUBSET Draft /\ \A x \in {a} : x.type # "MsgProp"
      BY <1>2, <1>5, <1>6
  <2> QED BY <1>2, <1>6, <2>1, SendAny
<1>10. LET h == send(n, {b})
       IN  /\ NodeOK(h)
           /\ h.id = n.id /\ h.term = n.term /\ h.vote = n.vote
           /\ h.state = n.state /\ h.votes = n.votes
           /\ \A x \in h.msgs : x \in n.msgs \/ (x.type = type /\ x.reject)
  <2> DEFINE h == send(n, {b})
  <2>1. {b} \in SUBSET Draft /\ \A x \in {b} : x.type # "MsgProp"
      BY <1>2, <1>5, <1>6
  <2>2. /\ NodeOK(h)
        /\ h.id = n.id /\ h.term = n.term /\ h.vote = n.vote
        /\ h.state = n.state /\ h.votes = n.votes
      BY <2>1, SendAny
  <2>3. \A x \in h.msgs : x \in n.msgs \/ \E y \in {b} : x.type = y.type /\ (y.reject => x.reject)
    <3>1. \A y \in {b} : y.type = "MsgProp" => Len(y.entries) = 1
        BY <2>1, Zenon
    <3>2. {b} \in SUBSET Draft
        BY <2>1
    <3> QED BY <3>1, <3>2, SendAny
  <2> HIDE DEF h
  <2>4. \A x \in h.msgs : x \in n.msgs \/ (x.type = type /\ x.reject)
      BY <1>6, <1>7, <2>3
  <2> QED BY <2>2, <2>4, Zenon DEF h
<1> HIDE DEF g
<1>11. /\ NodeOK(v) /\ v.id = n.id /\ v.term = n.term /\ v.vote = m.from
       /\ v.state = n.state /\ v.votes = n.votes /\ v.msgs = g.msgs
  <2>1. v \in NodeType
      BY <1>1, <1>9, Zenon DEF NodeOK, NodeType, Id
  <2>2. /\ v.id = n.id /\ v.term = n.term /\ v.vote = m.from
        /\ v.state = n.state /\ v.votes = n.votes /\ v.msgs = g.msgs
        /\ v.log = g.log /\ v.committed = g.committed
      BY <1>9 DEF NodeOK, NodeType
  <2> QED BY <1>9, <2>1, <2>2, Zenon DEF NodeOK
<1> HIDE DEF v
<1>12. CASE can_vote(n, m) /\ is_up_to_date(n, m.index, m.log_term)
  <2>1. CASE m.type = "MsgVote"
    <3>1. r = v
        BY <1>8, <1>12, <2>1
    <3>2. n.vote # Nil => v.vote = n.vote
        BY <1>11, <1>12, <2>1 DEF can_vote
    <3>3. \A x \in v.msgs : x.type \in Answers =>
                         \/ x \in n.msgs
                         \/ /\ x.type = "MsgVoteResp" /\ x.from = n.id /\ x.to = v.vote
                            /\ x.term = m.term
        BY <1>3, <1>9, <1>11, <2>1
    <3> HIDE DEF r
    <3> QED BY <1>11, <3>1, <3>2, <3>3, Zenon DEF r
  <2>2. CASE m.type # "MsgVote"
    <3>1. r = g
        BY <1>8, <1>12, <2>2
    <3> HIDE DEF r
    <3> QED BY <1>9, <2>2, <3>1, Zenon DEF r
  <2> QED BY <2>1, <2>2
<1>13. CASE ~(can_vote(n, m) /\ is_up_to_date(n, m.index, m.log_term))
  <2> DEFINE h == send(n, {b})
  <2>1. r = h
      BY <1>8, <1>13
  <2>2. m.type = "MsgVote" => \A x \in h.msgs : x.type \in Answers =>
             x \in n.msgs \/ (x.type = "MsgVoteResp" /\ x.reject)
      BY <1>3, <1>10, Zenon
  <2>3. /\ NodeOK(h)
        /\ h.id = n.id /\ h.term = n.term /\ h.vote = n.vote
        /\ h.state = n.state /\ h.votes = n.votes
      BY <1>10
  <2> HIDE DEF r, h
  <2> QED BY <2>1, <2>2, <2>3, Zenon DEF r
<1> QED BY <1>12, <1>13

-----------------------------------------------------------------------------
(* The inductive invariant about votes.                                    *)

(* The transport has carried the vote of j for i in term t.                *)
Granted(j, i, t) ==
    \E m \in net : /\ m.type = "MsgVoteResp" /\ ~m.reject
                   /\ m.from = j /\ m.to = i /\ m.term = t

(* A quorum, apart from i itself, has voted for i in term t.               *)
Elected(i, t) ==
    \E Q \in SUBSET Server : /\ Cardinality(Q) >= quorum
                             /\ \A j \in Q \ {i} : Granted(j, i, t)

(* The role of n is backed by its own vote and by votes received.          *)
RoleSound(n) ==
    /\ n.state # "PreCandidate"
    /\ n.state \in {"Candidate", "Leader"} => n.vote = n.id
    /\ n.state = "Candidate" =>
          \A j \in Server \ {n.id} : n.votes[j] = "granted" => Granted(j, n.id, n.term)
    /\ n.state = "Leader" => Elected(n.id, n.term)

(* What n is about to answer to vote requests is what it voted.            *)
AnswersSound(n) ==
    \A m \in n.msgs :
        m.type \in Answers =>
            /\ m.type = "MsgVoteResp"
            /\ ~m.reject => m.from = n.id /\ m.to = n.vote /\ m.term = n.term

LEMMA QuietSound ==
    ASSUME NEW n, NEW r, Quiet(n, r)
    PROVE  /\ RoleSound(n) => RoleSound(r)
           /\ AnswersSound(n) => AnswersSound(r)
<1>1. RoleSound(n) => RoleSound(r)
    BY Zenon DEF Quiet, RoleSound
<1>2. AnswersSound(n) => AnswersSound(r)
    BY Zenon DEF Quiet, AnswersSound
<1> QED BY <1>1, <1>2

LEMMA FollowerSound ==
    ASSUME NEW n, n.state = "Follower"
    PROVE  RoleSound(n)
BY DEF RoleSound

LEMMA HandleVoteResp ==
    ASSUME NEW n, NodeOK(n), NEW m \in MessageType,
           n.state \in {"PreCandidate", "Candidate"}
    PROVE  /\ Moves(n, handle_vote_resp(n, m))
           /\ /\ RoleSound(n)
              /\ AnswersSound(n)
              /\ ~m.reject => Granted(m.from, n.id, n.term)
              => /\ RoleSound(handle_vote_resp(n, m))
                 /\ n.msgs = {} => AnswersSound(handle_vote_resp(n, m))
<1> DEFINE g == ~m.reject
           c == poll(n, m.from, g)
           l == become_leader(c)
           b == bcast_append(l)
           f == become_follower(c, c.term, Nil)
           r == handle_vote_resp(n, m)
<1>1. m.from \in Server /\ n.id \in Server /\ n.term \in Nat /\ Nil \in Id
    BY MessageFields, NodeFields DEF Id
<1>2. g \in BOOLEAN
    OBVIOUS
<1>3. r = IF Count(c, "granted") = quorum
          THEN IF c.state = "PreCandidate" THEN campaign_election(c) ELSE b
          ELSE IF Count(c, "rejected") = quorum THEN f ELSE c
    BY DEF handle_vote_resp
<1>4. (RoleSound(n) /\ (~m.reject => Granted(m.from, n.id, n.term)))
        => (g => Granted(m.from, n.id, n.term))
    OBVIOUS
<1> HIDE DEF g
<1>5. /\ NodeOK(c) /\ c.id = n.id /\ c.msgs = n.msgs /\ c.state = n.state
      /\ c.term = n.term /\ c.vote = n.vote
      /\ \A k \in Server : c.votes[k] = "granted" =>
            n.votes[k] = "granted" \/ (k = m.from /\ g)
    BY <1>1, <1>2, PollNode, Zenon
<1> HIDE DEF c
<1>6. Moves(n, c)
    BY <1>1, <1>5 DEF Moves
<1>7. Moves(n, campaign_election(c))
  <2>1. /\ NodeOK(campaign_election(c)) /\ campaign_election(c).id = c.id
        /\ campaign_election(c).term = c.term + 1
      BY <1>5, CampaignElection
  <2> QED BY <1>1, <1>5, <2>1 DEF Moves
<1>8. /\ NodeOK(l) /\ l.id = n.id /\ l.term = n.term /\ l.vote = n.vote
      /\ l.state = "Leader"
      /\ \A x \in l.msgs : x.type \in Answers => x \in n.msgs
    BY <1>5, BecomeLeader
<1> HIDE DEF l
<1>9. Quiet(l, b)
    BY <1>8, BcastAppendQuiet
<1>10. Moves(n, b)
  <2>1. Moves(n, l)
      BY <1>1, <1>8 DEF Moves
  <2>2. Moves(l, b)
      BY <1>8, <1>9, QuietMoves
  <2> QED BY <2>1, <2>2, MovesTrans
<1>11. /\ NodeOK(f) /\ f.id = n.id /\ f.msgs = n.msgs /\ f.state = "Follower"
       /\ f.term = n.term /\ f.vote = n.vote
  <2>1. c.term \in Nat
      BY <1>1, <1>5
  <2> QED BY <1>1, <1>5, <2>1, BecomeFollower
<1> HIDE DEF f, b
<1>12. Moves(n, f)
    BY <1>1, <1>11 DEF Moves
<1>13. Moves(n, r)
    BY <1>3, <1>6, <1>7, <1>10, <1>12
<1>14. ASSUME RoleSound(n), AnswersSound(n), ~m.reject => Granted(m.from, n.id, n.term)
       PROVE  RoleSound(r) /\ (n.msgs = {} => AnswersSound(r))
  <2>1. n.state = "Candidate" /\ n.vote = n.id
      BY <1>14 DEF RoleSound
  <2>2. \A k \in Server \ {n.id} : c.votes[k] = "granted" => Granted(k, n.id, n.term)
    <3>1. \A k \in Server \ {n.id} : n.votes[k] = "granted" => Granted(k, n.id, n.term)
        BY <1>14, <2>1 DEF RoleSound
    <3>2. g => Granted(m.from, n.id, n.term)
        BY <1>4, <1>14
    <3> QED BY <1>5, <3>1, <3>2, Zenon
  <2>3. RoleSound(c)
      BY <1>5, <2>1, <2>2 DEF RoleSound
  <2>4. RoleSound(f)
      BY <1>11, FollowerSound
  <2>5. Count(c, "granted") = quorum => RoleSound(b)
    <3>1. SUFFICES ASSUME Count(c, "granted") = quorum
                   PROVE  RoleSound(l)
        BY <1>9, QuietSound
    <3> DEFINE Q == {j \in Server : c.votes[j] = "granted"}
    <3>2. Q \in SUBSET Server /\ Cardinality(Q) >= quorum
        BY <3>1, QuorumType DEF Count
    <3>3. \A j \in Q \ {n.id} : Granted(j, n.id, n.term)
        BY <2>2
    <3>4. Elected(n.id, n.term)
        BY <3>2, <3>3 DEF Elected
    <3> QED BY <1>8, <2>1, <3>4 DEF RoleSound
  <2>6. RoleSound(r)
      BY <1>3, <1>5, <2>1, <2>3, <2>4, <2>5
  <2>7. n.msgs = {} => AnswersSound(r)
    <3>1. SUFFICES ASSUME n.msgs = {}
                   PROVE  AnswersSound(r)
        OBVIOUS
    <3>2. AnswersSound(c) /\ AnswersSound(f) /\ AnswersSound(l)
        BY <1>5, <1>8, <1>11, <3>1 DEF AnswersSound
    <3>3. AnswersSound(b)
        BY <1>9, <3>2, QuietSound
    <3> QED BY <1>3, <1>5, <2>1, <3>2, <3>3
  <2> QED BY <2>6, <2>7
<1> QED BY <1>13, <1>14

-----------------------------------------------------------------------------
(* Events.  TypeInv is the inductive invariant behind TypeOK: a commit     *)
(* index stays within its log, in memory and on disk, and a forwarded      *)
(* proposal carries one entry.                                             *)
TypeInv ==
    /\ TypeOK
    /\ \A i \in Server : /\ node[i].committed <= Len(node[i].log)
                         /\ disk[i].committed <= Len(disk[i].log)
    /\ \A m \in net : m.type = "MsgProp" => Len(m.entries) = 1

(* Without Pre-Vote every role is backed by votes.                         *)
VotesSound ==
    /\ ~PreVote
    /\ \A i \in Server : RoleSound(node[i])
    /\ \A m \in net : m.type \notin {"MsgPreVote", "MsgPreVoteResp"}

(* n is what the Raft object of i may be when an event of i ends.          *)
Event(i, n) ==
    /\ Moves(node[i], n)
    /\ VotesSound => RoleSound(n) /\ AnswersSound(n)

LEMMA NoEvent ==
    ASSUME TypeInv, NEW i \in Server
    PROVE  /\ NodeOK(node[i]) /\ node[i].id = i /\ node[i].msgs = {}
           /\ Event(i, node[i])
<1>1. node[i] \in NodeType /\ node[i].id = i /\ node[i].msgs = {}
    BY DEF TypeInv, TypeOK
<1>2. NodeOK(node[i])
    BY <1>1 DEF TypeInv, NodeOK
<1>3. Moves(node[i], node[i])
    BY <1>2, NodeFields DEF Moves
<1> QED BY <1>1, <1>2, <1>3 DEF Event, VotesSound, AnswersSound

LEMMA QuietEvent ==
    ASSUME TypeInv, NEW i \in Server, NEW q, NEW r, Event(i, q), Quiet(q, r)
    PROVE  Event(i, r)
<1>1. Moves(node[i], r)
  <2>1. NodeOK(node[i]) /\ NodeOK(q) /\ Moves(node[i], q)
      BY NoEvent DEF Event, Moves
  <2>2. Moves(q, r)
      BY <2>1, QuietMoves
  <2> QED BY <2>1, <2>2, MovesTrans
<1>2. VotesSound => RoleSound(r) /\ AnswersSound(r)
    BY QuietSound DEF Event
<1> QED BY <1>1, <1>2 DEF Event

(* Following: an event that ends as a follower of a term not lower.        *)
LEMMA FollowEvent ==
    ASSUME TypeInv, NEW i \in Server, NEW q, Event(i, q), q.msgs = {},
           NEW t \in Nat, t >= q.term, NEW lead \in Id
    PROVE  LET r == become_follower(q, t, lead)
           IN  Event(i, r) /\ r.msgs = {} /\ r.term = t
<1> DEFINE r == become_follower(q, t, lead)
<1>1. NodeOK(node[i]) /\ NodeOK(q) /\ Moves(node[i], q)
    BY NoEvent DEF Event, Moves
<1>2. /\ NodeOK(r) /\ r.id = q.id /\ r.msgs = q.msgs /\ r.state = "Follower"
      /\ r.term = t /\ r.vote = (IF t = q.term THEN q.vote ELSE Nil)
    BY <1>1, BecomeFollower
<1> HIDE DEF r
<1>3. Moves(q, r)
    BY <1>2 DEF Moves
<1>4. Moves(node[i], r)
    BY <1>1, <1>3, MovesTrans
<1>5. RoleSound(r) /\ AnswersSound(r)
    BY <1>2, FollowerSound DEF AnswersSound
<1>6. Event(i, r) /\ r.msgs = {} /\ r.term = t
    BY <1>2, <1>4, <1>5 DEF Event
<1> QED BY <1>6 DEF r

LEMMA CatchUpEvent ==
    ASSUME TypeInv, NEW i \in Server, NEW m \in net, NEW n, Takes(i, m, n)
    PROVE  /\ m \in MessageType /\ m.to = i
           /\ Event(i, n) /\ NodeOK(n) /\ n.id = i /\ n.msgs = {}
           /\ m.type \notin {"MsgPreVote", "MsgPreVoteResp"} => n.term = m.term
<1>1. m \in MessageType
    BY DEF TypeInv, TypeOK
<1>2. /\ NodeOK(node[i]) /\ node[i].id = i /\ node[i].msgs = {}
      /\ Event(i, node[i])
    BY NoEvent
<1> DEFINE lead == IF m.type \in {"MsgApp", "MsgHeartbeat"} THEN m.from ELSE Nil
           r == become_follower(node[i], m.term, lead)
<1>3. m.term \in Nat /\ m.term >= node[i].term /\ lead \in Id /\ m.to = i
    BY <1>1, MessageFields DEF Takes, Admitted, Id
<1> HIDE DEF lead
<1>4. Event(i, r) /\ r.msgs = {} /\ r.term = m.term
    BY <1>2, <1>3, FollowEvent
<1>5. n = node[i] \/ n = r
    BY DEF Takes, catch_up, lead
<1>6. m.type \notin {"MsgPreVote", "MsgPreVoteResp"} => n = r \/ m.term = node[i].term
    BY DEF Takes, catch_up, lead
<1> HIDE DEF r
<1>7. Event(i, n) /\ n.msgs = {}
    BY <1>2, <1>4, <1>5
<1>8. NodeOK(n) /\ n.id = i
    BY <1>2, <1>7 DEF Event, Moves
<1> QED BY <1>1, <1>3, <1>4, <1>5, <1>6, <1>7, <1>8

LEMMA HeardLeaderEvent ==
    ASSUME TypeInv, NEW i \in Server, NEW m \in net, NEW n, Takes(i, m, n),
           m.type \notin {"MsgPreVote", "MsgPreVoteResp"}
    PROVE  Event(i, heard_leader(n, m)) /\ NodeOK(heard_leader(n, m))
<1>1. /\ m \in MessageType
      /\ Event(i, n) /\ NodeOK(n) /\ n.id = i /\ n.msgs = {} /\ n.term = m.term
    BY CatchUpEvent
<1>2. m.from \in Id /\ m.term \in Nat /\ m.term >= n.term
    BY <1>1, MessageFields DEF Id
<1> DEFINE a == [n EXCEPT !.lapsed = FALSE, !.lead = m.from]
           b == become_follower(n, m.term, m.from)
<1>3. Event(i, a)
  <2>1. Quiet(n, a)
      BY <1>1, <1>2, MarksQuiet
  <2> QED BY <1>1, <2>1, QuietEvent
<1>4. Event(i, b)
    BY <1>1, <1>2, FollowEvent
<1>5. heard_leader(n, m) \in {a, b}
    BY DEF heard_leader
<1> HIDE DEF a, b
<1>6. Event(i, heard_leader(n, m))
    BY <1>3, <1>4, <1>5
<1> QED BY <1>6 DEF Event, Moves

-----------------------------------------------------------------------------
(* Every action but Restart ends in the Ready of an event.                 *)

(* A campaign for the next term.                                           *)
LEMMA CampaignEvent ==
    ASSUME TypeInv, NEW i \in Server, NEW n, Event(i, n), n.state # "Leader",
           \A m \in n.msgs : m.type \notin Answers
    PROVE  Event(i, campaign_election(n))
<1> DEFINE r == campaign_election(n)
<1>1. NodeOK(node[i]) /\ NodeOK(n) /\ Moves(node[i], n)
    BY NoEvent DEF Event, Moves
<1>2. /\ NodeOK(r) /\ r.id = n.id /\ r.term = n.term + 1 /\ r.vote = n.id
      /\ r.state \in {"Candidate", "Leader"}
      /\ \A m \in r.msgs : m.type \in Answers => m \in n.msgs
      /\ r.state = "Candidate" =>
            \A j \in Server : r.votes[j] = "granted" => j = n.id
      /\ r.state = "Leader" => \E Q \in SUBSET {n.id} : Cardinality(Q) >= quorum
    BY <1>1, CampaignElection
<1> HIDE DEF r
<1>3. n.id \in Server /\ n.term \in Nat
    BY <1>1, NodeFields
<1>4. Moves(n, r)
    BY <1>2, <1>3 DEF Moves
<1>5. Moves(node[i], r)
    BY <1>1, <1>4, MovesTrans
<1>6. RoleSound(r)
  <2>1. r.state = "Leader" => Elected(r.id, r.term)
    <3>1. SUFFICES ASSUME r.state = "Leader"
                   PROVE  Elected(r.id, r.term)
        OBVIOUS
    <3>2. PICK Q \in SUBSET {n.id} : Cardinality(Q) >= quorum
        BY <1>2, <3>1
    <3>3. Q \in SUBSET Server /\ Q \ {r.id} = {}
        BY <1>2, <1>3
    <3> QED BY <3>2, <3>3 DEF Elected
  <2> QED BY <1>2, <2>1 DEF RoleSound
<1>7. AnswersSound(r)
    BY <1>2 DEF AnswersSound
<1>8. Event(i, r)
    BY <1>5, <1>6, <1>7 DEF Event
<1> QED BY <1>8 DEF r

LEMMA HupEvent ==
    ASSUME TypeInv, NEW i \in Server, Hup(i)
    PROVE  \E n : Event(i, n) /\ pull_ready_events(i, n)
<1> DEFINE n == [node[i] EXCEPT !.lapsed = FALSE]
           a == campaign_pre_election(n)
           b == campaign_election(n)
<1>1. /\ NodeOK(node[i]) /\ node[i].id = i /\ node[i].msgs = {}
      /\ Event(i, node[i])
    BY NoEvent
<1>2. Quiet(node[i], n)
  <2>1. Nil \in Id
      BY DEF Id
  <2> QED BY <1>1, <2>1, MarksQuiet
<1>3. node[i].state # "Leader"
    BY DEF Hup
<1>4. pull_ready_events(i, IF PreVote THEN a ELSE b)
    BY DEF Hup
<1> HIDE DEF n
<1>5. /\ NodeOK(n) /\ n.id = i /\ n.state # "Leader" /\ Event(i, n)
      /\ \A m \in n.msgs : m.type \notin Answers
    BY <1>1, <1>2, <1>3, QuietEvent DEF Quiet
<1>6. CASE PreVote
  <2>1. Moves(node[i], a)
    <3>1. Moves(n, a)
        BY <1>5, CampaignPreElection
    <3> QED BY <1>1, <1>5, <3>1, MovesTrans DEF Event
  <2>2. Event(i, a)
      BY <1>6, <2>1 DEF Event, VotesSound
  <2> QED BY <1>4, <1>6, <2>2
<1>7. CASE ~PreVote
  <2>1. Event(i, b)
      BY <1>5, CampaignEvent
  <2> QED BY <1>4, <1>7, <2>1
<1> QED BY <1>6, <1>7

LEMMA LapseEvent ==
    ASSUME TypeInv, NEW i \in Server, Lapse(i)
    PROVE  \E n : Event(i, n) /\ pull_ready_events(i, n)
<1> DEFINE n == [node[i] EXCEPT !.lapsed = TRUE]
<1>1. Quiet(node[i], n)
  <2>1. Nil \in Id
      BY DEF Id
  <2> QED BY <2>1, NoEvent, MarksQuiet
<1>2. pull_ready_events(i, n)
    BY DEF Lapse
<1> HIDE DEF n
<1>3. Event(i, n)
    BY <1>1, NoEvent, QuietEvent
<1> QED BY <1>2, <1>3

LEMMA BeatEvent ==
    ASSUME TypeInv, NEW i \in Server, NEW due \in BOOLEAN, Beat(i, due)
    PROVE  \E n : Event(i, n) /\ pull_ready_events(i, n)
<1> DEFINE f == become_follower(node[i], node[i].term, Nil)
           t == [node[i] EXCEPT !.transferee = Nil]
           n == IF ~due THEN node[i]
                ELSE IF CheckQuorum /\ ~check_quorum_active(node[i]) THEN f ELSE t
           b == bcast_heartbeat(n)
<1>1. /\ NodeOK(node[i]) /\ node[i].id = i /\ node[i].msgs = {}
      /\ Event(i, node[i])
    BY NoEvent
<1>2. Nil \in Id /\ node[i].term \in Nat
    BY <1>1, NodeFields DEF Id
<1>3. Event(i, f)
    BY <1>1, <1>2, FollowEvent
<1>4. Event(i, t)
  <2>1. Quiet(node[i], t)
      BY <1>1, <1>2, MarksQuiet
  <2> QED BY <1>1, <2>1, QuietEvent
<1>5. pull_ready_events(i, IF n.state = "Leader" THEN b ELSE n)
    BY DEF Beat
<1> HIDE DEF f, t
<1>6. Event(i, n)
    BY <1>1, <1>3, <1>4
<1> HIDE DEF n
<1>7. Event(i, b)
  <2>1. Quiet(n, b)
      BY <1>6, BcastHeartbeatQuiet DEF Event, Moves
  <2> QED BY <1>6, <2>1, QuietEvent
<1> HIDE DEF b
<1> QED BY <1>5, <1>6, <1>7

(* Messages that an application hands to its own server: no target yet.    *)
Local == [type : MsgTypes, from : Id, to : Id, term : Nat, log_term : Nat,
          index : Nat, entries : Seq(EntryType), commit : Nat,
          reject : BOOLEAN, reject_hint : Nat]

LEMMA LocalMessage ==
    ASSUME NEW type \in MsgTypes
    PROVE  /\ Message(type, Nil) \in Local
           /\ Message(type, Nil).type = type
<1>1. 0 \in Nat /\ <<>> \in Seq(EntryType) /\ Nil \in Id
    BY DEF Id
<1>2. Message(type, Nil) \in Local
    BY <1>1, Zenon DEF Message, Local
<1> QED BY <1>2 DEF Message

LEMMA LocalPassable ==
    ASSUME NEW m \in Local, m.type = "MsgProp" => Len(m.entries) = 1
    PROVE  Passable(m)
<1>1. ASSUME NEW j \in Server
      PROVE  /\ [m EXCEPT !.to = j] \in Draft
             /\ [m EXCEPT !.to = j].type = m.type
             /\ [m EXCEPT !.to = j].entries = m.entries
  <2>1. [m EXCEPT !.to = j] \in Draft
      BY Zenon DEF Draft, Local
  <2> QED BY <2>1 DEF Local
<1> QED BY <1>1 DEF Passable

LEMMA ProposeEvent ==
    ASSUME TypeInv, NEW i \in Server, NEW v \in Value, Propose(i, v)
    PROVE  \E n : Event(i, n) /\ pull_ready_events(i, n)
<1> DEFINE e == <<Entry(0, v)>>
           m == [Message("MsgProp", Nil) EXCEPT !.entries = e]
           r == step_prop(node[i], m)
<1>1. e \in Seq(EntryType) /\ e[1].value \in Payload /\ Len(e) = 1
    BY DEF Entry, EntryType, Payload
<1>2. Passable(m) /\ m.type = "MsgProp" /\ m.entries = e
  <2> DEFINE x == Message("MsgProp", Nil)
  <2>1. x \in Local /\ x.type = "MsgProp"
      BY LocalMessage DEF MsgTypes
  <2> HIDE DEF x, e
  <2>2. m \in Local
      BY <1>1, <2>1, Zenon DEF Local, x
  <2>3. m.type = "MsgProp" /\ m.entries = e
      BY <2>1 DEF Local, x
  <2> HIDE DEF m
  <2> QED BY <1>1, <2>2, <2>3, LocalPassable
<1>3. pull_ready_events(i, r)
    BY DEF Propose
<1> HIDE DEF e, m
<1>4. Quiet(node[i], r)
    BY <1>1, <1>2, NoEvent, StepPropQuiet
<1> HIDE DEF r
<1>5. Event(i, r)
    BY <1>4, NoEvent, QuietEvent
<1> QED BY <1>3, <1>5

LEMMA TransferLeaderEvent ==
    ASSUME TypeInv, NEW i \in Server, NEW to \in Server, TransferLeader(i, to)
    PROVE  \E n : Event(i, n) /\ pull_ready_events(i, n)
<1> DEFINE m == [Message("MsgTransferLeader", Nil) EXCEPT !.from = to]
           r == step_transfer(node[i], m)
<1>1. Passable(m) /\ m.type = "MsgTransferLeader" /\ m.from = to
  <2> DEFINE x == Message("MsgTransferLeader", Nil)
  <2>1. x \in Local /\ x.type = "MsgTransferLeader"
      BY LocalMessage DEF MsgTypes
  <2> HIDE DEF x
  <2>2. m \in Local
      BY <2>1, Zenon DEF Local, Id, x
  <2>3. m.type = "MsgTransferLeader" /\ m.from = to
      BY <2>1 DEF Local, x
  <2> HIDE DEF m
  <2> QED BY <2>2, <2>3, LocalPassable
<1>2. pull_ready_events(i, r)
    BY DEF TransferLeader
<1> HIDE DEF m
<1>3. Quiet(node[i], r)
    BY <1>1, NoEvent, StepTransferQuiet
<1> HIDE DEF r
<1>4. Event(i, r)
    BY <1>3, NoEvent, QuietEvent
<1> QED BY <1>2, <1>4

LEMMA UnreachableEvent ==
    ASSUME TypeInv, NEW i \in Server, NEW j \in Server, Unreachable(i, j)
    PROVE  \E n : Event(i, n) /\ pull_ready_events(i, n)
<1> DEFINE f == [node[i].prs EXCEPT ![j] = become_probe(@)]
           n == [node[i] EXCEPT !.prs = f]
<1>1. NodeOK(node[i])
    BY NoEvent
<1>2. f \in [Server -> ProgressType]
    BY <1>1, NodeFields, ProgressTypes
<1>3. pull_ready_events(i, n)
  <2>1. n = [node[i] EXCEPT !.prs[j] = become_probe(@)]
      BY <1>1 DEF NodeOK, NodeType
  <2> HIDE DEF n
  <2> QED BY <2>1 DEF Unreachable
<1> HIDE DEF f
<1>4. Quiet(node[i], n)
    BY <1>1, <1>2, PrsQuiet
<1> HIDE DEF n
<1>5. Event(i, n)
    BY <1>4, NoEvent, QuietEvent
<1> QED BY <1>3, <1>5

(* Handlers that neither vote nor count votes.                             *)
LEMMA RecvQuietEvent ==
    ASSUME TypeInv, NEW i \in Server, NEW m \in net,
           \/ RecvProp(i, m) \/ RecvApp(i, m) \/ RecvHeartbeat(i, m)
           \/ RecvAppResp(i, m) \/ RecvHeartbeatResp(i, m) \/ RecvTransferLeader(i, m)
           \/ RecvUnhandled(i, m)
    PROVE  \E n : Event(i, n) /\ pull_ready_events(i, n)
<1> DEFINE n == catch_up(node[i], m)
<1>1. Takes(i, m, n)
    BY DEF RecvProp, RecvApp, RecvHeartbeat, RecvAppResp, RecvHeartbeatResp,
           RecvTransferLeader, RecvUnhandled
<1>2. m \in MessageType /\ Event(i, n) /\ NodeOK(n)
    BY <1>1, CatchUpEvent
<1>3. Passable(m) \/ m.type \notin {"MsgProp", "MsgTransferLeader"}
  <2>1. m \in Local
      BY <1>2, Zenon DEF MessageType, Local, Id
  <2> QED BY <2>1, LocalPassable DEF TypeInv
<1> HIDE DEF n
<1>4. CASE RecvProp(i, m)
  <2> DEFINE r == step_prop(n, m)
  <2>1. m.type = "MsgProp" /\ pull_ready_events(i, r)
      BY <1>4 DEF RecvProp, n
  <2>2. m.entries[1].value \in Payload
    <3>1. m.entries \in Seq(EntryType) /\ Len(m.entries) = 1
        BY <1>2, <2>1, MessageFields DEF TypeInv
    <3>2. m.entries[1] \in EntryType
        BY <3>1
    <3> QED BY <3>2 DEF EntryType
  <2>3. Quiet(n, r)
      BY <1>2, <1>3, <2>1, <2>2, StepPropQuiet
  <2> HIDE DEF r
  <2> QED BY <1>2, <2>1, <2>3, QuietEvent
<1>5. CASE RecvApp(i, m)
  <2> DEFINE h == heard_leader(n, m)
             r == handle_append_entries(h, m)
  <2>1. m.type = "MsgApp" /\ pull_ready_events(i, r)
      BY <1>5 DEF RecvApp, n
  <2>2. Event(i, h) /\ NodeOK(h)
      BY <1>1, <2>1, HeardLeaderEvent
  <2> HIDE DEF h
  <2>3. Quiet(h, r)
      BY <1>2, <2>2, AppendEntriesQuiet
  <2> HIDE DEF r
  <2> QED BY <2>1, <2>2, <2>3, QuietEvent
<1>6. CASE RecvHeartbeat(i, m)
  <2> DEFINE h == heard_leader(n, m)
             r == handle_heartbeat(h, m)
  <2>1. m.type = "MsgHeartbeat" /\ pull_ready_events(i, r)
      BY <1>6 DEF RecvHeartbeat, n
  <2>2. Event(i, h) /\ NodeOK(h)
      BY <1>1, <2>1, HeardLeaderEvent
  <2> HIDE DEF h
  <2>3. Quiet(h, r)
      BY <1>2, <2>2, HeartbeatQuiet
  <2> HIDE DEF r
  <2> QED BY <2>1, <2>2, <2>3, QuietEvent
<1>7. CASE RecvAppResp(i, m)
  <2> DEFINE r == handle_app_resp(n, m)
  <2>1. pull_ready_events(i, r)
      BY <1>7 DEF RecvAppResp, n
  <2>2. Quiet(n, r)
      BY <1>2, AppRespQuiet
  <2> HIDE DEF r
  <2> QED BY <1>2, <2>1, <2>2, QuietEvent
<1>8. CASE RecvHeartbeatResp(i, m)
  <2> DEFINE r == handle_heartbeat_resp(n, m)
  <2>1. pull_ready_events(i, r)
      BY <1>8 DEF RecvHeartbeatResp, n
  <2>2. Quiet(n, r)
      BY <1>2, HeartbeatRespQuiet
  <2> HIDE DEF r
  <2> QED BY <1>2, <2>1, <2>2, QuietEvent
<1>9. CASE RecvTransferLeader(i, m)
  <2> DEFINE r == step_transfer(n, m)
  <2>1. m.type = "MsgTransferLeader" /\ pull_ready_events(i, r)
      BY <1>9 DEF RecvTransferLeader, n
  <2>2. m.from \in Server
      BY <1>2, MessageFields
  <2>3. Quiet(n, r)
      BY <1>2, <1>3, <2>1, <2>2, StepTransferQuiet
  <2> HIDE DEF r
  <2> QED BY <1>2, <2>1, <2>3, QuietEvent
<1>10. CASE RecvUnhandled(i, m)
  <2>1. pull_ready_events(i, n)
      BY <1>10 DEF RecvUnhandled, n
  <2> QED BY <1>2, <2>1
<1> QED BY <1>4, <1>5, <1>6, <1>7, <1>8, <1>9, <1>10

LEMMA RecvVoteEvent ==
    ASSUME TypeInv, NEW i \in Server, NEW m \in net, RecvVote(i, m)
    PROVE  \E n : Event(i, n) /\ pull_ready_events(i, n)
<1> DEFINE n == catch_up(node[i], m)
           r == handle_vote(n, m)
<1>1. /\ m.type \in {"MsgVote", "MsgPreVote"}
      /\ Takes(i, m, n) /\ pull_ready_events(i, r)
    BY DEF RecvVote
<1> HIDE DEF n
<1>2. /\ m \in MessageType /\ Event(i, n) /\ NodeOK(n) /\ n.id = i /\ n.msgs = {}
      /\ m.type = "MsgVote" => n.term = m.term
    BY <1>1, CatchUpEvent
<1>3. /\ NodeOK(r) /\ r.id = n.id /\ r.term = n.term
      /\ r.state = n.state /\ r.votes = n.votes
      /\ n.vote # Nil => r.vote = n.vote
      /\ m.type = "MsgVote" =>
           \A x \in r.msgs :
              x.type \in Answers =>
                \/ x \in n.msgs
                \/ /\ x.type = "MsgVoteResp"
                   /\ ~x.reject => /\ x.from = n.id /\ x.to = r.vote
                                   /\ x.term = m.term
    BY <1>1, <1>2, HandleVote, Zenon
<1> HIDE DEF r
<1>4. Moves(node[i], r)
  <2>1. NodeOK(node[i]) /\ Moves(node[i], n) /\ n.term \in Nat
      BY <1>2, NoEvent, NodeFields DEF Event
  <2>2. Moves(n, r)
      BY <1>3, <2>1 DEF Moves
  <2> QED BY <2>1, <2>2, MovesTrans
<1>5. VotesSound => RoleSound(r) /\ AnswersSound(r)
  <2>1. SUFFICES ASSUME VotesSound
                 PROVE  RoleSound(r) /\ AnswersSound(r)
      OBVIOUS
  <2>2. m.type = "MsgVote"
      BY <1>1, <2>1 DEF VotesSound
  <2>3. RoleSound(n)
      BY <1>2, <2>1 DEF Event
  <2>4. RoleSound(r)
    <3>1. n.state \in {"Candidate", "Leader"} => n.vote = n.id /\ n.id # Nil
        BY <1>2, <2>3, ServerAssumption DEF RoleSound
    <3>2. n.state \in {"Candidate", "Leader"} => r.vote = r.id
        BY <1>3, <3>1
    <3> QED BY <1>3, <2>3, <3>2 DEF RoleSound
  <2>5. AnswersSound(r)
      BY <1>2, <1>3, <2>2, Zenon DEF AnswersSound
  <2> QED BY <2>4, <2>5
<1>6. Event(i, r)
    BY <1>4, <1>5 DEF Event
<1> QED BY <1>1, <1>6

LEMMA RecvVoteRespEvent ==
    ASSUME TypeInv, NEW i \in Server, NEW m \in net, RecvVoteResp(i, m)
    PROVE  \E n : Event(i, n) /\ pull_ready_events(i, n)
<1> DEFINE n == catch_up(node[i], m)
           r == handle_vote_resp(n, m)
<1>1. /\ m.type \in {"MsgVoteResp", "MsgPreVoteResp"}
      /\ Takes(i, m, n) /\ pull_ready_events(i, r)
      /\ n.state \in {"PreCandidate", "Candidate"}
    BY DEF RecvVoteResp
<1> HIDE DEF n
<1>2. /\ m \in MessageType /\ Event(i, n) /\ NodeOK(n) /\ n.id = i /\ n.msgs = {}
      /\ m.to = i
      /\ m.type = "MsgVoteResp" => n.term = m.term
    BY <1>1, CatchUpEvent
<1>3. /\ Moves(n, r)
      /\ /\ RoleSound(n)
         /\ AnswersSound(n)
         /\ ~m.reject => Granted(m.from, n.id, n.term)
         => /\ RoleSound(r)
            /\ n.msgs = {} => AnswersSound(r)
    BY <1>1, <1>2, HandleVoteResp, Zenon
<1> HIDE DEF r
<1>4. Moves(node[i], r)
    BY <1>2, <1>3, NoEvent, MovesTrans DEF Event
<1>5. VotesSound => RoleSound(r) /\ AnswersSound(r)
  <2>1. SUFFICES ASSUME VotesSound
                 PROVE  RoleSound(r) /\ AnswersSound(r)
      OBVIOUS
  <2>2. m.type = "MsgVoteResp"
      BY <1>1, <2>1 DEF VotesSound
  <2>3. ~m.reject => Granted(m.from, n.id, n.term)
      BY <1>2, <2>2, Zenon DEF Granted
  <2>4. RoleSound(n) /\ AnswersSound(n)
      BY <1>2, <2>1 DEF Event
  <2> QED BY <1>2, <1>3, <2>3, <2>4, Zenon
<1>6. Event(i, r)
    BY <1>4, <1>5 DEF Event
<1> QED BY <1>1, <1>6

LEMMA RecvTimeoutNowEvent ==
    ASSUME TypeInv, NEW i \in Server, NEW m \in net, RecvTimeoutNow(i, m)
    PROVE  \E n : Event(i, n) /\ pull_ready_events(i, n)
<1> DEFINE n == catch_up(node[i], m)
           r == campaign_election(n)
<1>1. Takes(i, m, n) /\ pull_ready_events(i, r) /\ n.state = "Follower"
    BY DEF RecvTimeoutNow
<1> HIDE DEF n
<1>2. Event(i, n) /\ n.msgs = {}
    BY <1>1, CatchUpEvent
<1>3. Event(i, r)
    BY <1>1, <1>2, CampaignEvent
<1> HIDE DEF r
<1> QED BY <1>1, <1>3

LEMMA RecvStaleEvent ==
    ASSUME TypeInv, NEW i \in Server, NEW m \in net, RecvStale(i, m)
    PROVE  \E n : Event(i, n) /\ pull_ready_events(i, n)
<1>1. /\ NodeOK(node[i]) /\ Event(i, node[i])
      /\ m \in MessageType /\ m.from \in Server /\ node[i].term \in Nat
    BY NoEvent, NodeFields, MessageFields DEF TypeInv, TypeOK
<1>2. CASE pull_ready_events(i, send(node[i], {Reply(m, "MsgAppResp")}))
  <2> DEFINE a == Reply(m, "MsgAppResp")
             r == send(node[i], {a})
  <2>1. a \in Draft /\ a.type \notin Answers /\ a.type # "MsgProp"
    <3>1. "MsgAppResp" \in MsgTypes \ Answers
        BY DEF MsgTypes, Answers
    <3> QED BY <1>1, <3>1, ReplyDraft DEF Reply
  <2> HIDE DEF a
  <2>2. Quiet(node[i], r)
      BY <1>1, <2>1, SendOneQuiet
  <2>3. pull_ready_events(i, r)
      BY <1>2 DEF a
  <2> HIDE DEF r
  <2> QED BY <1>1, <2>2, <2>3, QuietEvent
<1>3. CASE m.type = "MsgPreVote" /\ pull_ready_events(i, reject_vote(node[i], m))
  <2> DEFINE x == Reply(m, "MsgPreVoteResp")
             a == [x EXCEPT !.term = node[i].term, !.reject = TRUE]
             r == send(node[i], {a})
  <2>1. x \in Draft /\ x.type = "MsgPreVoteResp"
      BY <1>1, MessageDraft DEF Reply, MsgTypes, VoteTypes
  <2>2. reject_vote(node[i], m) = r
      BY <1>3 DEF reject_vote, vote_resp_msg_type
  <2> HIDE DEF x
  <2>3. a \in Draft
      BY <1>1, <2>1, Zenon DEF Draft
  <2>4. a.type = "MsgPreVoteResp"
      BY <2>1 DEF Draft
  <2> HIDE DEF a
  <2>5. /\ NodeOK(r) /\ r.id = node[i].id /\ r.term = node[i].term
        /\ r.vote = node[i].vote
      BY <1>1, <2>3, <2>4, SendAny
  <2> HIDE DEF r
  <2>6. Event(i, r)
      BY <1>1, <1>3, <2>5 DEF Event, Moves, VotesSound
  <2> QED BY <1>3, <2>2, <2>6
<1> QED BY <1>2, <1>3 DEF RecvStale

LEMMA NextEvent ==
    ASSUME TypeInv, Next
    PROVE  \E i \in Server :
              \/ \E n : Event(i, n) /\ pull_ready_events(i, n)
              \/ Restart(i)
<1>1. PICK i \in Server :
        \/ Hup(i)
        \/ Lapse(i)
        \/ \E due \in BOOLEAN : Beat(i, due)
        \/ \E v \in Value : Propose(i, v)
        \/ \E j \in Server : TransferLeader(i, j) \/ Unreachable(i, j)
        \/ Restart(i)
        \/ \E m \in net : Receive(i, m)
    BY DEF Next
<1>2. ASSUME NEW m \in net, Receive(i, m)
      PROVE  \E n : Event(i, n) /\ pull_ready_events(i, n)
    BY <1>2, RecvQuietEvent, RecvVoteEvent, RecvVoteRespEvent, RecvTimeoutNowEvent,
       RecvStaleEvent DEF Receive
<1>3. CASE Hup(i) \/ Lapse(i) \/ Restart(i)
    BY <1>3, HupEvent, LapseEvent
<1>4. CASE \/ \E due \in BOOLEAN : Beat(i, due)
           \/ \E v \in Value : Propose(i, v)
           \/ \E j \in Server : TransferLeader(i, j) \/ Unreachable(i, j)
    BY <1>4, BeatEvent, ProposeEvent, TransferLeaderEvent, UnreachableEvent
<1> QED BY <1>1, <1>2, <1>3, <1>4

-----------------------------------------------------------------------------
(* The Ready that ends an event.                                           *)

LEMMA ReadyNode ==
    ASSUME NEW n, NodeOK(n), NEW applied \in Nat
    PROVE  LET r == [reduce_uncommitted_size(n, applied) EXCEPT !.msgs = {}]
           IN  /\ r \in NodeType
               /\ r.id = n.id /\ r.term = n.term /\ r.vote = n.vote /\ r.state = n.state
               /\ r.votes = n.votes /\ r.log = n.log /\ r.committed = n.committed
               /\ r.msgs = {}
<1> DEFINE size == payload_size(SubSeq(n.log, applied + 1, n.committed))
           u == IF size > n.uncommitted THEN 0 ELSE n.uncommitted - size
           q == [n EXCEPT !.uncommitted = u]
           r == [q EXCEPT !.msgs = {}]
<1>1. /\ n.log \in Seq(EntryType) /\ n.committed \in Nat /\ n.committed <= Len(n.log)
      /\ n.uncommitted \in Nat
    BY NodeFields DEF NodeOK
<1>2. SubSeq(n.log, applied + 1, n.committed) \in Seq(EntryType)
    BY <1>1, SubSeqType
<1>3. size \in Nat
    BY <1>2, PayloadSizeType
<1> HIDE DEF size
<1>4. u \in Nat
    BY <1>1, <1>3
<1>5. reduce_uncommitted_size(n, applied) = q
    BY DEF reduce_uncommitted_size, size
<1> HIDE DEF u
<1>6. q \in NodeType
    BY <1>4, Zenon DEF NodeOK, NodeType
<1>7. /\ q.id = n.id /\ q.term = n.term /\ q.vote = n.vote /\ q.state = n.state
      /\ q.votes = n.votes /\ q.log = n.log /\ q.committed = n.committed
    BY DEF NodeOK, NodeType
<1> HIDE DEF q
<1>8. r \in NodeType
    BY <1>6, Zenon DEF NodeType
<1>9. /\ r.id = q.id /\ r.term = q.term /\ r.vote = q.vote /\ r.state = q.state
      /\ r.votes = q.votes /\ r.log = q.log /\ r.committed = q.committed
      /\ r.msgs = {}
    BY <1>6 DEF NodeType
<1> HIDE DEF r
<1> QED BY <1>5, <1>7, <1>8, <1>9 DEF r

(* What is on the disk of i once the event that made n is over.            *)
LEMMA SavedDisk ==
    ASSUME NEW n, NodeOK(n)
    PROVE  /\ Saved(n) \in DiskType
           /\ Saved(n).term = n.term /\ Saved(n).vote = n.vote
           /\ Saved(n).committed <= Len(Saved(n).log)
<1>1. /\ n.term \in Nat /\ n.vote \in Id /\ n.committed \in Nat
      /\ n.log \in Seq(EntryType) /\ n.committed <= Len(n.log)
    BY NodeFields DEF NodeOK
<1>2. Saved(n) \in DiskType
    BY <1>1, Zenon DEF Saved, DiskType
<1> QED BY <1>1, <1>2 DEF Saved

(* The state of server i after an event or a restart; others stay.         *)
LEMMA ReadyState ==
    ASSUME TypeInv, NEW i \in Server, NEW n, Event(i, n), pull_ready_events(i, n)
    PROVE  /\ node' = [node EXCEPT ![i] = node'[i]] /\ disk' = [disk EXCEPT ![i] = disk'[i]]
           /\ node'[i] \in NodeType /\ node'[i].id = i /\ node'[i].msgs = {}
           /\ node'[i].committed <= Len(node'[i].log)
           /\ disk'[i] \in DiskType /\ disk'[i].committed <= Len(disk'[i].log)
           /\ \A m \in net : m.type = "MsgVoteResp" => m \in net'
           /\ \/ /\ net' = net /\ disk' = disk
                 /\ node'[i].term = node[i].term /\ node'[i].vote = node[i].vote
                 /\ node'[i].state = node[i].state /\ node'[i].votes = node[i].votes
              \/ /\ net' \subseteq net \cup n.msgs
                 /\ node'[i].term = n.term /\ node'[i].vote = n.vote
                 /\ node'[i].state = n.state /\ node'[i].votes = n.votes
                 /\ \/ disk'[i].term = n.term /\ disk'[i].vote = n.vote
                    \/ ~WalDurable
<1>1. /\ node \in [Server -> NodeType] /\ disk \in [Server -> DiskType]
      /\ NodeOK(node[i]) /\ node[i].id = i /\ node[i].msgs = {}
      /\ disk[i].committed <= Len(disk[i].log) /\ node[i].committed \in Nat
    BY NoEvent, NodeFields DEF TypeInv, TypeOK
<1>2. NodeOK(n) /\ n.id = i
    BY <1>1 DEF Event, Moves
<1>3. CASE n.fatal
  <2> DEFINE f == Fatal(node[i])
  <2>1. node' = [node EXCEPT ![i] = f] /\ net' = net /\ disk' = disk
      BY <1>3 DEF pull_ready_events
  <2>2. Quiet(node[i], f)
      BY <1>1, FatalQuiet
  <2>3. f.msgs = {}
      BY <1>1 DEF Fatal, NodeOK, NodeType
  <2> HIDE DEF f
  <2>4. node'[i] = f /\ disk'[i] = disk[i]
      BY <1>1, <2>1
  <2>5. f \in NodeType /\ f.committed <= Len(f.log)
      BY <2>2 DEF Quiet, NodeOK
  <2> QED BY <1>1, <2>1, <2>2, <2>3, <2>4, <2>5 DEF Quiet
<1>4. CASE ~n.fatal
  <2> DEFINE r == [reduce_uncommitted_size(n, node[i].committed) EXCEPT !.msgs = {}]
             d == IF must_sync(n, disk[i]) THEN Saved(n) ELSE disk[i]
  <2>1. /\ node' = [node EXCEPT ![i] = r]
        /\ net' = {m \in n.msgs : <<m.from, m.to>> \in Links} \cup {m \in net : ~Lost(m, n.msgs)}
        /\ \/ disk' = [disk EXCEPT ![i] = d]
           \/ ~WalDurable /\ disk' = disk
      BY <1>4, <1>1 DEF pull_ready_events
  <2>2. /\ r \in NodeType
        /\ r.id = n.id /\ r.term = n.term /\ r.vote = n.vote /\ r.state = n.state
        /\ r.votes = n.votes /\ r.log = n.log /\ r.committed = n.committed
        /\ r.msgs = {}
      BY <1>1, <1>2, ReadyNode
  <2> HIDE DEF r
  <2>3. /\ d \in DiskType /\ d.term = n.term /\ d.vote = n.vote
        /\ d.committed <= Len(d.log)
    <3>1. CASE must_sync(n, disk[i])
        BY <1>2, <3>1, SavedDisk
    <3>2. CASE ~must_sync(n, disk[i])
        BY <1>1, <3>2 DEF must_sync
    <3> QED BY <3>1, <3>2
  <2> HIDE DEF d
  <2>4. node'[i] = r
      BY <1>1, <2>1
  <2>5. \/ disk'[i] = d /\ disk' = [disk EXCEPT ![i] = disk'[i]]
        \/ ~WalDurable /\ disk' = disk /\ disk'[i] = disk[i]
      BY <1>1, <2>1
  <2>6. disk' = [disk EXCEPT ![i] = disk'[i]]
      BY <1>1, <2>5
  <2>7. /\ disk'[i] \in DiskType /\ disk'[i].committed <= Len(disk'[i].log)
        /\ (disk'[i].term = n.term /\ disk'[i].vote = n.vote) \/ ~WalDurable
      BY <1>1, <2>3, <2>5
  <2>8. net' \subseteq net \cup n.msgs /\ \A m \in net : m.type = "MsgVoteResp" => m \in net'
      BY <2>1, BoundAssumption DEF Lost
  <2>9. r.committed <= Len(r.log)
      BY <1>2, <2>2 DEF NodeOK
  <2> QED BY <1>2, <2>1, <2>2, <2>4, <2>6, <2>7, <2>8, <2>9
<1> QED BY <1>3, <1>4

LEMMA NewRaftNode ==
    ASSUME NEW i \in Server, NEW d \in DiskType, d.committed <= Len(d.log)
    PROVE  LET r == NewRaft(i, d)
           IN  /\ NodeOK(r) /\ r.id = i /\ r.msgs = {} /\ r.state = "Follower"
               /\ r.term = d.term /\ r.vote = d.vote
<1> DEFINE votes == [j \in Server |-> "none"]
           prs == [j \in Server |-> NewProgress(0, 1)]
           n == [id |-> i, term |-> d.term, vote |-> d.vote, state |-> "Follower",
                 lead |-> Nil, lapsed |-> FALSE, transferee |-> Nil,
                 votes |-> votes, log |-> d.log, committed |-> d.committed,
                 prs |-> prs, uncommitted |-> 0, msgs |-> {}, fatal |-> FALSE]
           r == become_follower(n, d.term, Nil)
<1>1. /\ d.term \in Nat /\ d.vote \in Id /\ d.committed \in Nat
      /\ d.log \in Seq(EntryType) /\ Nil \in Id /\ 0 \in Nat
    BY DEF DiskType, Id
<1>2. votes \in [Server -> {"none", "granted", "rejected"}]
    OBVIOUS
<1>3. prs \in [Server -> ProgressType]
  <2>1. NewProgress(0, 1) \in ProgressType
      BY DEF NewProgress, ProgressType
  <2> QED BY <2>1
<1>4. NewRaft(i, d) = r
    BY <1>1 DEF NewRaft
<1>5. /\ n.id = i /\ n.term = d.term /\ n.vote = d.vote /\ n.log = d.log
      /\ n.committed = d.committed /\ n.msgs = {}
    OBVIOUS
<1> HIDE DEF votes, prs
<1>6. n \in NodeType
    BY <1>1, <1>2, <1>3, Zenon DEF NodeType
<1> HIDE DEF n
<1>7. NodeOK(n)
    BY <1>5, <1>6 DEF NodeOK
<1>8. /\ NodeOK(r) /\ r.id = n.id /\ r.msgs = n.msgs /\ r.state = "Follower"
      /\ r.term = d.term /\ r.vote = (IF d.term = n.term THEN n.vote ELSE Nil)
    BY <1>1, <1>7, BecomeFollower
<1> HIDE DEF r
<1> QED BY <1>4, <1>5, <1>8

-----------------------------------------------------------------------------
(* Type correctness.                                                       *)

LEMMA BootstrapDisk ==
    Bootstrap \in DiskType /\ Bootstrap.committed <= Len(Bootstrap.log)
<1> DEFINE N == Cardinality(Server)
           log == [k \in 1..N |-> Entry(1, "conf")]
<1>1. N \in Nat
    BY ServerAssumption, FS_CardinalityType
<1> HIDE DEF N
<1>2. Entry(1, "conf") \in EntryType
    BY DEF Entry, EntryType, Payload
<1>3. log \in Seq(EntryType) /\ Len(log) = N
    BY <1>1, <1>2
<1> HIDE DEF log
<1>4. Bootstrap = [term |-> 1, vote |-> Nil, committed |-> N, log |-> log]
    BY DEF Bootstrap, N, log
<1>5. 1 \in Nat /\ Nil \in Id
    BY DEF Id
<1>6. Bootstrap \in DiskType
    BY <1>1, <1>3, <1>4, <1>5, Zenon DEF DiskType
<1> QED BY <1>1, <1>3, <1>4, <1>6

LEMMA TypeInvInit == Init => TypeInv
<1>1. SUFFICES ASSUME Init
               PROVE  TypeInv
    OBVIOUS
<1>2. ASSUME NEW i \in Server
      PROVE  /\ node[i] = NewRaft(i, Bootstrap) /\ disk[i] = Bootstrap
             /\ NodeOK(node[i]) /\ node[i].id = i /\ node[i].msgs = {}
  <2>1. node[i] = NewRaft(i, Bootstrap) /\ disk[i] = Bootstrap
      BY <1>1 DEF Init
  <2> QED BY <2>1, BootstrapDisk, NewRaftNode
<1>3. node \in [Server -> NodeType]
  <2>1. \A i \in Server : NewRaft(i, Bootstrap) \in NodeType
      BY <1>2 DEF NodeOK
  <2> QED BY <1>1, <2>1 DEF Init
<1>4. disk \in [Server -> DiskType]
    BY <1>1, BootstrapDisk DEF Init
<1>5. net = {}
    BY <1>1 DEF Init
<1> QED BY <1>2, <1>3, <1>4, <1>5, BootstrapDisk DEF TypeInv, TypeOK, NodeOK

(* What a restart of i leaves: a follower with the saved term and vote.    *)
LEMMA RestartState ==
    ASSUME TypeInv, NEW i \in Server, Restart(i)
    PROVE  /\ node' = [node EXCEPT ![i] = node'[i]]
           /\ NodeOK(node'[i]) /\ node'[i].id = i /\ node'[i].msgs = {}
           /\ node'[i].state = "Follower"
           /\ node'[i].term = disk[i].term /\ node'[i].vote = disk[i].vote
           /\ net' = net /\ disk' = disk
<1> DEFINE r == NewRaft(i, disk[i])
<1>1. /\ NodeOK(r) /\ r.id = i /\ r.msgs = {} /\ r.state = "Follower"
      /\ r.term = disk[i].term /\ r.vote = disk[i].vote
  <2>1. disk[i] \in DiskType /\ disk[i].committed <= Len(disk[i].log)
      BY DEF TypeInv, TypeOK
  <2> QED BY <2>1, NewRaftNode
<1>2. node' = [node EXCEPT ![i] = r] /\ net' = net /\ disk' = disk
    BY DEF Restart
<1> HIDE DEF r
<1>3. node'[i] = r
    BY <1>2 DEF TypeInv, TypeOK
<1> QED BY <1>1, <1>2, <1>3

LEMMA TypeInvStep == TypeInv /\ [Next]_vars => TypeInv'
<1>1. SUFFICES ASSUME TypeInv, [Next]_vars
               PROVE  TypeInv'
    OBVIOUS
<1>2. /\ node \in [Server -> NodeType] /\ disk \in [Server -> DiskType]
      /\ net \subseteq MessageType
      /\ \A m \in net : m.type = "MsgProp" => Len(m.entries) = 1
      /\ \A j \in Server : /\ node[j].id = j /\ node[j].msgs = {}
                           /\ node[j].committed <= Len(node[j].log)
                           /\ disk[j].committed <= Len(disk[j].log)
    BY <1>1 DEF TypeInv, TypeOK
<1>3. CASE UNCHANGED vars
    BY <1>1, <1>3 DEF vars, TypeInv, TypeOK
<1>4. ASSUME NEW i \in Server, NEW n, Event(i, n), pull_ready_events(i, n)
      PROVE  TypeInv'
  <2>1. /\ node' = [node EXCEPT ![i] = node'[i]] /\ disk' = [disk EXCEPT ![i] = disk'[i]]
        /\ node'[i] \in NodeType /\ node'[i].id = i /\ node'[i].msgs = {}
        /\ node'[i].committed <= Len(node'[i].log)
        /\ disk'[i] \in DiskType /\ disk'[i].committed <= Len(disk'[i].log)
        /\ net' \subseteq net \cup n.msgs
      BY <1>1, <1>4, ReadyState
  <2>2. /\ n.msgs \subseteq MessageType
        /\ \A m \in n.msgs : m.type = "MsgProp" => Len(m.entries) = 1
    <3>1. NodeOK(n)
        BY <1>4 DEF Event, Moves
    <3> QED BY <3>1, NodeFields DEF NodeOK
  <2>3. /\ net' \subseteq MessageType
        /\ \A m \in net' : m.type = "MsgProp" => Len(m.entries) = 1
      BY <1>2, <2>1, <2>2
  <2>4. node' \in [Server -> NodeType] /\ disk' \in [Server -> DiskType]
      BY <1>2, <2>1
  <2>5. ASSUME NEW j \in Server
        PROVE  /\ node'[j].id = j /\ node'[j].msgs = {}
               /\ node'[j].committed <= Len(node'[j].log)
               /\ disk'[j].committed <= Len(disk'[j].log)
    <3>1. CASE j = i
        BY <2>1, <3>1
    <3>2. CASE j # i
      <4>1. node'[j] = node[j] /\ disk'[j] = disk[j]
          BY <1>2, <2>1, <3>2
      <4> QED BY <1>2, <4>1
    <3> QED BY <3>1, <3>2
  <2> QED BY <2>3, <2>4, <2>5 DEF TypeInv, TypeOK
<1>5. ASSUME NEW i \in Server, Restart(i)
      PROVE  TypeInv'
  <2>1. /\ node' = [node EXCEPT ![i] = node'[i]]
        /\ node'[i] \in NodeType /\ node'[i].id = i /\ node'[i].msgs = {}
        /\ node'[i].committed <= Len(node'[i].log)
        /\ net' = net /\ disk' = disk
      BY <1>1, <1>5, RestartState DEF NodeOK
  <2>2. node' \in [Server -> NodeType]
      BY <1>2, <2>1
  <2>3. ASSUME NEW j \in Server
        PROVE  /\ node'[j].id = j /\ node'[j].msgs = {}
               /\ node'[j].committed <= Len(node'[j].log)
    <3>1. CASE j = i
        BY <2>1, <3>1
    <3>2. CASE j # i
      <4>1. node'[j] = node[j]
          BY <1>2, <2>1, <3>2
      <4> QED BY <1>2, <4>1
    <3> QED BY <3>1, <3>2
  <2> QED BY <1>2, <2>1, <2>2, <2>3 DEF TypeInv, TypeOK
<1> QED BY <1>1, <1>3, <1>4, <1>5, NextEvent

(* Whatever the configuration, the membership and the order of events,     *)
(* every variable keeps its type: every handler builds a legal Raft object, *)
(* sends only well-formed messages between members, hands everything it    *)
(* sent to the transport, and saves a hard state that can be loaded.       *)
THEOREM TypeCorrect == Spec => []TypeOK
<1>1. TypeInv => TypeOK
    BY DEF TypeInv
<1> QED BY <1>1, TypeInvInit, TypeInvStep, PTL DEF Spec

-----------------------------------------------------------------------------
(* Votes survive restarts.  The invariant: the hard state on disk is the   *)
(* one in memory after every event, because a change of term or vote       *)
(* forces a sync (must_sync) before the answer leaves.                     *)
DiskAgrees ==
    \A i \in Server : disk[i].term = node[i].term /\ disk[i].vote = node[i].vote

(* The step that VoteIsFinal allows.                                       *)
VoteStep ==
    \A i \in Server :
        /\ node'[i].term >= node[i].term
        /\ node'[i].term = node[i].term /\ node[i].vote # Nil
             => node'[i].vote = node[i].vote

(* One server moves, by an event or a restart, and keeps its vote.         *)
LEMMA OneMoves ==
    ASSUME TypeInv, WalDurable, DiskAgrees, NEW i \in Server,
           \/ \E n : Event(i, n) /\ pull_ready_events(i, n)
           \/ Restart(i)
    PROVE  /\ node' = [node EXCEPT ![i] = node'[i]]
           /\ node'[i].id = i
           /\ node'[i].term >= node[i].term
           /\ node'[i].term = node[i].term /\ node[i].vote # Nil
                => node'[i].vote = node[i].vote
           /\ DiskAgrees'
<1>1. NodeOK(node[i]) /\ node[i].term \in Nat
    BY NoEvent, NodeFields
<1>2. node \in [Server -> NodeType] /\ disk \in [Server -> DiskType]
    BY DEF TypeInv, TypeOK
<1>3. disk[i].term = node[i].term /\ disk[i].vote = node[i].vote
    BY DEF DiskAgrees
<1>4. CASE \E n : Event(i, n) /\ pull_ready_events(i, n)
  <2>1. PICK n : Event(i, n) /\ pull_ready_events(i, n)
      BY <1>4
  <2>2. /\ node' = [node EXCEPT ![i] = node'[i]] /\ disk' = [disk EXCEPT ![i] = disk'[i]]
        /\ node'[i].id = i
        /\ \/ /\ disk' = disk
              /\ node'[i].term = node[i].term /\ node'[i].vote = node[i].vote
           \/ /\ node'[i].term = n.term /\ node'[i].vote = n.vote
              /\ disk'[i].term = n.term /\ disk'[i].vote = n.vote
      BY <2>1, ReadyState
  <2>3. /\ n.term >= node[i].term
        /\ n.term = node[i].term /\ node[i].vote # Nil => n.vote = node[i].vote
      BY <2>1 DEF Event, Moves
  <2>4. disk'[i].term = node'[i].term /\ disk'[i].vote = node'[i].vote
      BY <1>3, <2>2
  <2>5. ASSUME NEW j \in Server
        PROVE  disk'[j].term = node'[j].term /\ disk'[j].vote = node'[j].vote
    <3>1. CASE j = i
        BY <2>4, <3>1
    <3>2. CASE j # i
      <4>1. node'[j] = node[j] /\ disk'[j] = disk[j]
          BY <1>2, <2>2, <3>2
      <4> QED BY <4>1 DEF DiskAgrees
    <3> QED BY <3>1, <3>2
  <2>6. DiskAgrees'
      BY <2>5 DEF DiskAgrees
  <2> QED BY <1>1, <2>2, <2>3, <2>6
<1>5. CASE Restart(i)
  <2>1. /\ node' = [node EXCEPT ![i] = node'[i]] /\ node'[i].id = i
        /\ node'[i].term = disk[i].term /\ node'[i].vote = disk[i].vote
        /\ disk' = disk
      BY <1>5, RestartState
  <2>2. ASSUME NEW j \in Server
        PROVE  disk'[j].term = node'[j].term /\ disk'[j].vote = node'[j].vote
    <3>1. CASE j = i
        BY <2>1, <3>1
    <3>2. CASE j # i
      <4>1. node'[j] = node[j]
          BY <1>2, <2>1, <3>2
      <4> QED BY <2>1, <4>1 DEF DiskAgrees
    <3> QED BY <3>1, <3>2
  <2>3. DiskAgrees'
      BY <2>2 DEF DiskAgrees
  <2> QED BY <1>1, <1>3, <2>1, <2>3
<1> QED BY <1>4, <1>5

LEMMA VoteStepHolds ==
    ASSUME WalDurable
    PROVE  TypeInv /\ DiskAgrees /\ [Next]_vars => DiskAgrees' /\ VoteStep
<1>1. SUFFICES ASSUME TypeInv, DiskAgrees, [Next]_vars
               PROVE  DiskAgrees' /\ VoteStep
    OBVIOUS
<1>2. \A j \in Server : node[j].term \in Nat
  <2>1. ASSUME NEW j \in Server
        PROVE  node[j].term \in Nat
    <3>1. NodeOK(node[j])
        BY <1>1, NoEvent
    <3> QED BY <3>1, NodeFields
  <2> QED BY <2>1
<1>3. CASE UNCHANGED vars
    BY <1>1, <1>2, <1>3 DEF vars, DiskAgrees, VoteStep
<1>4. CASE Next
  <2>1. PICK i \in Server : \/ \E n : Event(i, n) /\ pull_ready_events(i, n)
                            \/ Restart(i)
      BY <1>1, <1>4, NextEvent
  <2>2. /\ node' = [node EXCEPT ![i] = node'[i]]
        /\ node'[i].term >= node[i].term
        /\ node'[i].term = node[i].term /\ node[i].vote # Nil
             => node'[i].vote = node[i].vote
        /\ DiskAgrees'
      BY <1>1, <2>1, OneMoves
  <2>3. ASSUME NEW j \in Server
        PROVE  /\ node'[j].term >= node[j].term
               /\ node'[j].term = node[j].term /\ node[j].vote # Nil
                    => node'[j].vote = node[j].vote
    <3>1. CASE j = i
        BY <2>2, <3>1
    <3>2. CASE j # i
      <4>1. node'[j] = node[j]
          BY <1>1, <2>2, <3>2 DEF TypeInv, TypeOK
      <4> QED BY <1>2, <4>1
    <3> QED BY <3>1, <3>2
  <2> QED BY <2>2, <2>3 DEF VoteStep
<1> QED BY <1>1, <1>3, <1>4

LEMMA DiskAgreesInit == Init => DiskAgrees
<1>1. SUFFICES ASSUME Init, NEW i \in Server
               PROVE  disk[i].term = node[i].term /\ disk[i].vote = node[i].vote
    BY DEF DiskAgrees
<1>2. node[i] = NewRaft(i, Bootstrap) /\ disk[i] = Bootstrap
    BY <1>1 DEF Init
<1>3. /\ NewRaft(i, Bootstrap).term = Bootstrap.term
      /\ NewRaft(i, Bootstrap).vote = Bootstrap.vote
    BY BootstrapDisk, NewRaftNode
<1> QED BY <1>2, <1>3

(* If a synced WAL record survives a crash, no interleaving of messages,   *)
(* timeouts and restarts makes a server go back to an older term or change *)
(* a vote it has cast.                                                     *)
THEOREM VotesAreFinal ==
    ASSUME WalDurable
    PROVE  Spec => VoteIsFinal
<1>1. TypeInv /\ DiskAgrees /\ [Next]_vars => DiskAgrees' /\ VoteStep
    BY VoteStepHolds
<1>2. TypeInv /\ DiskAgrees /\ [Next]_vars => DiskAgrees'
    BY <1>1
<1>3. TypeInv /\ DiskAgrees /\ [Next]_vars =>
        [\A i \in Server :
          /\ node'[i].term >= node[i].term
          /\ node'[i].term = node[i].term /\ node[i].vote # Nil
               => node'[i].vote = node[i].vote]_vars
    BY <1>1 DEF VoteStep
<1> QED BY <1>2, <1>3, TypeInvInit, TypeInvStep, DiskAgreesInit, PTL DEF Spec, VoteIsFinal

-----------------------------------------------------------------------------
(* Election safety without Pre-Vote.                                       *)

(* A vote on the network is the vote of a server still in that term, or of *)
(* one that has left the term.                                             *)
VotesCast ==
    \A j, i \in Server : \A t \in Nat :
        Granted(j, i, t) => \/ node[j].term > t
                            \/ node[j].term = t /\ node[j].vote = i

(* No server has voted for two servers in one term.                        *)
OneVote ==
    \A j, a, b \in Server : \A t \in Nat : Granted(j, a, t) /\ Granted(j, b, t) => a = b

VoteInv == TypeInv /\ DiskAgrees /\ VotesSound /\ VotesCast /\ OneVote

(* Granted votes stay on the network, so roles stay backed by them.        *)
LEMMA RoleStays ==
    ASSUME NEW n, NEW r, RoleSound(n),
           r.id = n.id, r.term = n.term, r.vote = n.vote,
           r.state = n.state, r.votes = n.votes,
           \A m \in net : m.type = "MsgVoteResp" => m \in net'
    PROVE  /\ r.state # "PreCandidate"
           /\ r.state \in {"Candidate", "Leader"} => r.vote = r.id
           /\ r.state = "Candidate" =>
                 \A j \in Server \ {r.id} : r.votes[j] = "granted" => Granted(j, r.id, r.term)'
           /\ r.state = "Leader" => Elected(r.id, r.term)'
<1>1. ASSUME NEW j, NEW i, NEW t, Granted(j, i, t)
      PROVE  Granted(j, i, t)'
    BY <1>1, Zenon DEF Granted
<1>2. ASSUME NEW i, NEW t, Elected(i, t)
      PROVE  Elected(i, t)'
  <2>1. PICK Q \in SUBSET Server : /\ Cardinality(Q) >= quorum
                                   /\ \A j \in Q \ {i} : Granted(j, i, t)
      BY <1>2 DEF Elected
  <2>2. \A j \in Q \ {i} : Granted(j, i, t)'
      BY <1>1, <2>1
  <2> QED BY <2>1, <2>2 DEF Elected
<1> QED BY <1>1, <1>2 DEF RoleSound

(* The network after a step of server i: its new votes are its own vote.   *)
LEMMA NewVotes ==
    ASSUME TypeInv, WalDurable, VotesSound, NEW i \in Server,
           \/ \E n : Event(i, n) /\ pull_ready_events(i, n)
           \/ Restart(i)
    PROVE  /\ \A m \in net : m.type = "MsgVoteResp" => m \in net'
           /\ \A m \in net' \ net :
                 /\ m.type \notin {"MsgPreVote", "MsgPreVoteResp"}
                 /\ m.type = "MsgVoteResp" /\ ~m.reject =>
                       m.from = i /\ m.to = node'[i].vote /\ m.term = node'[i].term
           /\ RoleSound(node[i])'
<1>1. CASE \E n : Event(i, n) /\ pull_ready_events(i, n)
  <2>1. PICK n : Event(i, n) /\ pull_ready_events(i, n)
      BY <1>1
  <2>2. /\ node'[i].id = i
        /\ \A m \in net : m.type = "MsgVoteResp" => m \in net'
        /\ \/ /\ net' = net /\ disk' = disk
              /\ node'[i].term = node[i].term /\ node'[i].vote = node[i].vote
              /\ node'[i].state = node[i].state /\ node'[i].votes = node[i].votes
           \/ /\ net' \subseteq net \cup n.msgs
              /\ node'[i].term = n.term /\ node'[i].vote = n.vote
              /\ node'[i].state = n.state /\ node'[i].votes = n.votes
      BY <2>1, ReadyState
  <2>3. RoleSound(n) /\ AnswersSound(n) /\ n.id = i /\ node[i].id = i /\ RoleSound(node[i])
      BY <2>1, NoEvent DEF Event, VotesSound, Moves
  <2>4. \A m \in net' \ net :
           /\ m.type \notin {"MsgPreVote", "MsgPreVoteResp"}
           /\ m.type = "MsgVoteResp" /\ ~m.reject =>
                 m.from = i /\ m.to = node'[i].vote /\ m.term = node'[i].term
    <3>1. CASE net' = net
        BY <3>1
    <3>2. CASE /\ net' \subseteq net \cup n.msgs
               /\ node'[i].term = n.term /\ node'[i].vote = n.vote
      <4>1. ASSUME NEW m \in n.msgs
            PROVE  /\ m.type \notin {"MsgPreVote", "MsgPreVoteResp"}
                   /\ m.type = "MsgVoteResp" /\ ~m.reject =>
                         m.from = i /\ m.to = n.vote /\ m.term = n.term
          BY <2>3, Zenon DEF AnswersSound, Answers
      <4> QED BY <3>2, <4>1, Zenon
    <3> QED BY <2>2, <3>1, <3>2
  <2>5. RoleSound(node[i])'
    <3> DEFINE r == node'[i]
    <3>1. CASE r.term = n.term /\ r.vote = n.vote /\ r.state = n.state /\ r.votes = n.votes
        BY <2>2, <2>3, <3>1, RoleStays DEF RoleSound
    <3>2. CASE /\ r.term = node[i].term /\ r.vote = node[i].vote
               /\ r.state = node[i].state /\ r.votes = node[i].votes
        BY <2>2, <2>3, <3>2, RoleStays DEF RoleSound
    <3> QED BY <2>2, <3>1, <3>2
  <2> QED BY <2>2, <2>4, <2>5
<1>2. CASE Restart(i)
  <2>1. node'[i].state = "Follower" /\ net' = net
      BY <1>2, RestartState
  <2> QED BY <2>1 DEF RoleSound
<1> QED BY <1>1, <1>2

LEMMA VoteInvStep ==
    ASSUME WalDurable
    PROVE  VoteInv /\ [Next]_vars => VoteInv'
<1>1. SUFFICES ASSUME VoteInv, [Next]_vars
               PROVE  VoteInv'
    OBVIOUS
<1>2. TypeInv'
    BY <1>1, TypeInvStep DEF VoteInv
<1>3. CASE UNCHANGED vars
    BY <1>1, <1>2, <1>3 DEF VoteInv, vars, DiskAgrees, VotesSound, VotesCast, OneVote,
                             RoleSound, Elected, Granted
<1>4. CASE Next
  <2>1. PICK i \in Server : \/ \E n : Event(i, n) /\ pull_ready_events(i, n)
                            \/ Restart(i)
      BY <1>1, <1>4, NextEvent DEF VoteInv
  <2>2. /\ node' = [node EXCEPT ![i] = node'[i]]
        /\ node'[i].id = i
        /\ node'[i].term >= node[i].term
        /\ node'[i].term = node[i].term /\ node[i].vote # Nil
             => node'[i].vote = node[i].vote
        /\ DiskAgrees'
      BY <1>1, <2>1, OneMoves DEF VoteInv
  <2>3. /\ \A m \in net : m.type = "MsgVoteResp" => m \in net'
        /\ \A m \in net' \ net :
              /\ m.type \notin {"MsgPreVote", "MsgPreVoteResp"}
              /\ m.type = "MsgVoteResp" /\ ~m.reject =>
                    m.from = i /\ m.to = node'[i].vote /\ m.term = node'[i].term
        /\ RoleSound(node[i])'
      BY <1>1, <2>1, NewVotes, Zenon DEF VoteInv
  <2>4. \A j \in Server : /\ node[j].term \in Nat /\ node[j].id = j
                          /\ j # i => node'[j] = node[j]
    <3>1. ASSUME NEW j \in Server
          PROVE  node[j].term \in Nat /\ node[j].id = j
        BY <1>1, NoEvent, NodeFields DEF VoteInv
    <3> QED BY <1>1, <2>2, <3>1 DEF VoteInv, TypeInv, TypeOK
  <2>5. node'[i].term \in Nat
      BY <1>2 DEF TypeInv, TypeOK, NodeType
  <2>6. VotesSound'
    <3>1. ASSUME NEW j \in Server
          PROVE  RoleSound(node[j])'
      <4>1. CASE j = i
          BY <2>3, <4>1
      <4>2. CASE j # i
        <5>1. RoleSound(node[j]) /\ node'[j] = node[j]
            BY <1>1, <2>4, <4>2 DEF VoteInv, VotesSound
        <5> QED BY <2>3, <5>1, RoleStays DEF RoleSound
      <4> QED BY <4>1, <4>2
    <3>2. \A m \in net' : m.type \notin {"MsgPreVote", "MsgPreVoteResp"}
        BY <1>1, <2>3 DEF VoteInv, VotesSound
    <3>3. ~PreVote
        BY <1>1 DEF VoteInv, VotesSound
    <3> QED BY <3>1, <3>2, <3>3 DEF VotesSound
  <2>7. ASSUME NEW j, NEW a, NEW t, Granted(j, a, t)'
        PROVE  Granted(j, a, t) \/ (j = i /\ a = node'[i].vote /\ t = node'[i].term)
      BY <2>3, <2>7, Zenon DEF Granted
  <2>8. VotesCast'
    <3>1. SUFFICES ASSUME NEW j \in Server, NEW a \in Server, NEW t \in Nat,
                          Granted(j, a, t)'
                   PROVE  \/ node'[j].term > t
                          \/ node'[j].term = t /\ node'[j].vote = a
        BY DEF VotesCast
    <3>2. CASE Granted(j, a, t)
      <4>1. \/ node[j].term > t
            \/ node[j].term = t /\ node[j].vote = a
          BY <1>1, <3>2 DEF VoteInv, VotesCast
      <4>2. a # Nil
          BY ServerAssumption
      <4> QED BY <2>2, <2>4, <2>5, <4>1, <4>2
    <3>3. CASE j = i /\ a = node'[i].vote /\ t = node'[i].term
        BY <3>3
    <3> QED BY <2>7, <3>1, <3>2, <3>3
  <2>9. OneVote'
    <3>1. SUFFICES ASSUME NEW j \in Server, NEW a \in Server, NEW b \in Server, NEW t \in Nat,
                          Granted(j, a, t)', Granted(j, b, t)'
                   PROVE  a = b
        BY DEF OneVote
    <3>2. CASE Granted(j, a, t) /\ Granted(j, b, t)
        BY <1>1, <3>2 DEF VoteInv, OneVote
    <3>3. CASE j = i /\ t = node'[i].term
      <4>1. \A x \in {a, b} : node'[i].vote = x
          BY <2>5, <2>8, <3>1, <3>3 DEF VotesCast
      <4> QED BY <4>1
    <3> QED BY <2>7, <3>1, <3>2, <3>3
  <2> QED BY <1>2, <2>2, <2>6, <2>8, <2>9 DEF VoteInv
<1> QED BY <1>1, <1>3, <1>4

LEMMA VoteInvInit ==
    ASSUME ~PreVote
    PROVE  Init => VoteInv
<1>1. SUFFICES ASSUME Init
               PROVE  VoteInv
    OBVIOUS
<1>2. net = {}
    BY <1>1 DEF Init
<1>3. ASSUME NEW i \in Server
      PROVE  RoleSound(node[i])
  <2>1. node[i] = NewRaft(i, Bootstrap)
      BY <1>1 DEF Init
  <2>2. NewRaft(i, Bootstrap).state = "Follower"
      BY BootstrapDisk, NewRaftNode
  <2> QED BY <2>1, <2>2, FollowerSound
<1>4. VotesCast /\ OneVote
    BY <1>2 DEF VotesCast, OneVote, Granted
<1>5. TypeInv /\ DiskAgrees
    BY <1>1, TypeInvInit, DiskAgreesInit
<1> QED BY <1>2, <1>3, <1>4, <1>5 DEF VoteInv, VotesSound

LEMMA VoteInvSafe == VoteInv => ElectionSafety
<1>1. SUFFICES ASSUME VoteInv, NEW i \in Server, NEW j \in Server,
                      IsLeader(i), IsLeader(j), i # j, node[i].term = node[j].term
               PROVE  FALSE
    BY DEF ElectionSafety
<1> DEFINE t == node[i].term
<1>2. t \in Nat /\ node[i].id = i /\ node[j].id = j
    BY <1>1, NoEvent, NodeFields DEF VoteInv
<1>3. /\ node[i].vote = i /\ node[j].vote = j
      /\ Elected(i, t) /\ Elected(j, t)
    BY <1>1, <1>2 DEF VoteInv, VotesSound, RoleSound, IsLeader
<1>4. PICK P \in SUBSET Server : /\ Cardinality(P) >= quorum
                                 /\ \A k \in P \ {i} : Granted(k, i, t)
    BY <1>3 DEF Elected
<1>5. PICK Q \in SUBSET Server : /\ Cardinality(Q) >= quorum
                                 /\ \A k \in Q \ {j} : Granted(k, j, t)
    BY <1>3 DEF Elected
<1>6. PICK k \in Server : k \in P /\ k \in Q
  <2>1. IsFiniteSet(Server) /\ Cardinality(Server) \in Nat
      BY ServerAssumption, FS_CardinalityType
  <2>2. IsFiniteSet(P) /\ IsFiniteSet(Q)
      BY <2>1, FS_Subset
  <2>3. Cardinality(P) \in Nat /\ Cardinality(Q) \in Nat
      BY <2>2, FS_CardinalityType
  <2>4. Cardinality(P) + Cardinality(Q) > Cardinality(Server)
      BY <1>4, <1>5, <2>1, <2>3, QuorumType
  <2>5. P \cap Q # {}
      BY <2>1, <2>4, FS_MajoritiesIntersect
  <2> QED BY <2>5
<1> HIDE DEF t
<1>7. CASE k = i
  <2>1. Granted(i, j, t)
      BY <1>1, <1>5, <1>6, <1>7
  <2>2. node[i].term > t \/ node[i].vote = j
      BY <1>1, <1>2, <2>1 DEF VoteInv, VotesCast
  <2> QED BY <1>1, <1>2, <1>3, <2>2 DEF t
<1>8. CASE k = j
  <2>1. Granted(j, i, t)
      BY <1>1, <1>4, <1>6, <1>8
  <2>2. node[j].term > t \/ node[j].vote = i
      BY <1>1, <1>2, <2>1 DEF VoteInv, VotesCast
  <2> QED BY <1>1, <1>2, <1>3, <2>2 DEF t
<1>9. CASE k # i /\ k # j
  <2>1. Granted(k, i, t) /\ Granted(k, j, t)
      BY <1>4, <1>5, <1>6, <1>9
  <2> QED BY <1>1, <1>2, <2>1 DEF VoteInv, OneVote
<1> QED BY <1>7, <1>8, <1>9

(* Without Pre-Vote and with a WAL that keeps what it synced, no two       *)
(* servers ever lead the same term, for any number of servers and any      *)
(* order, loss, repetition and delay of messages and restarts.             *)
THEOREM ElectionsAreSafe ==
    ASSUME WalDurable, ~PreVote
    PROVE  Spec => []ElectionSafety
<1>1. Init => VoteInv
    BY VoteInvInit
<1>2. VoteInv /\ [Next]_vars => VoteInv'
    BY VoteInvStep
<1> QED BY <1>1, <1>2, VoteInvSafe, PTL DEF Spec


-----------------------------------------------------------------------------
(* A server that no message reaches.  With Pre-Vote it asks for votes over *)
(* and over in the term of the bootstrap, and never hears of a leader.     *)
Deaf(i) == \A j \in Server \ {i} : <<j, i>> \notin Links

DeafOK(i) ==
    /\ node[i].term = 1 /\ node[i].lead = Nil
    /\ node[i].state \in {"Follower", "PreCandidate"}
    /\ disk[i].term = 1
    /\ \A m \in net : m.to # i /\ (m.from = i => m.type = "MsgPreVote")

DeafInv == \A i \in Server : Deaf(i) => DeafOK(i)

(* A Raft object of a deaf server at the end of an event.                  *)
DeafNode(i, n) ==
    /\ NodeOK(n) /\ n.id = i /\ n.term = 1 /\ n.lead = Nil
    /\ n.state \in {"Follower", "PreCandidate"}
    /\ \A m \in n.msgs : m.to # i /\ m.type = "MsgPreVote"

(* The leader a server knows does not change while it sends.               *)
LEMMA SendLead ==
    ASSUME NEW n, NodeOK(n), NEW ms
    PROVE  send(n, ms).lead = n.lead
BY DEF send, Fatal, NodeOK, NodeType

(* A quorum of several servers is more than the server itself, so a        *)
(* pre-campaign that nobody answers ends with its requests.                *)
LEMMA DeafCampaign ==
    ASSUME Cardinality(Server) > 1, NEW i \in Server, NEW n, DeafNode(i, n)
    PROVE  DeafNode(i, campaign_pre_election(n))
<1> DEFINE w == [j \in Server |-> "none"]
           b == [n EXCEPT !.votes = w, !.lead = Nil, !.state = "PreCandidate"]
           c == poll(b, i, TRUE)
           ms == VoteRequests(c, "MsgPreVote", c.term + 1)
           r == send(c, ms)
           G == {j \in Server : c.votes[j] = "granted"}
<1>1. NodeOK(n) /\ n \in NodeType /\ n.id = i /\ n.state # "Leader" /\ Nil \in Id
    BY DEF DeafNode, NodeOK, Id
<1>2. become_pre_candidate(n) = b
    BY <1>1 DEF become_pre_candidate
<1>3. w \in [Server -> {"none", "granted", "rejected"}] /\ \A k \in Server : w[k] = "none"
    OBVIOUS
<1> HIDE DEF w
<1>4. b \in NodeType
    BY <1>1, <1>3, Zenon DEF NodeType
<1>5. /\ b.id = i /\ b.term = 1 /\ b.lead = Nil /\ b.state = "PreCandidate" /\ b.votes = w
      /\ b.msgs = n.msgs /\ b.committed = n.committed /\ b.log = n.log
    BY <1>1 DEF NodeType, DeafNode
<1> HIDE DEF b
<1>6. NodeOK(b)
    BY <1>1, <1>4, <1>5, Zenon DEF NodeOK
<1>7. /\ NodeOK(c) /\ c.id = i /\ c.msgs = n.msgs /\ c.state = "PreCandidate" /\ c.term = 1
      /\ \A k \in Server : c.votes[k] = "granted" => k = i
  <2>1. /\ NodeOK(c) /\ c.id = b.id /\ c.msgs = b.msgs /\ c.state = b.state
        /\ c.term = b.term
        /\ \A k \in Server : c.votes[k] = "granted" => b.votes[k] = "granted" \/ k = i
      BY <1>6, OwnVote
  <2> QED BY <1>3, <1>5, <2>1
<1>8. c.lead = Nil
    BY <1>4, <1>5 DEF poll, NodeType
<1> HIDE DEF c
<1>9. Count(c, "granted") # quorum
  <2>1. IsFiniteSet({i}) /\ Cardinality({i}) = 1
      BY FS_Singleton
  <2>2. G \in SUBSET {i}
      BY <1>7
  <2>3. Cardinality(G) <= 1
    <3> HIDE DEF G
    <3> QED BY <2>1, <2>2, FS_Subset
  <2>4. Cardinality(Server) \in Nat
      BY ServerAssumption, FS_CardinalityType
  <2>5. quorum > 1
      BY <2>4 DEF quorum
  <2>6. Cardinality(G) \in Nat
    <3> HIDE DEF G
    <3> QED BY <2>1, <2>2, FS_Subset, FS_CardinalityType
  <2> QED BY <2>3, <2>5, <2>6, QuorumType DEF Count, G
<1>10. campaign_pre_election(n) = r
    BY <1>1, <1>2, <1>9 DEF campaign_pre_election, c
<1>11. ms \in SUBSET Draft /\ \A m \in ms : m.type = "MsgPreVote" /\ m.to # i
  <2>1. ms \in SUBSET Draft /\ \A m \in ms : m.type = "MsgPreVote"
      BY <1>7, VoteRequestDrafts
  <2>2. \A m \in ms : m.to \in Peers(c)
      BY DEF VoteRequests, Message
  <2> QED BY <1>7, <2>1, <2>2 DEF Peers
<1> HIDE DEF ms
<1>12. /\ NodeOK(r) /\ r.id = i /\ r.term = 1 /\ r.state = "PreCandidate"
       /\ \A x \in r.msgs : x \in n.msgs \/ \E m \in ms : x.type = m.type /\ x.to = m.to
    BY <1>7, <1>11, SendAny
<1>13. r.lead = Nil
    BY <1>7, <1>8, SendLead
<1> HIDE DEF r
<1> QED BY <1>10, <1>11, <1>12, <1>13 DEF DeafNode

(* The Ready of a deaf server.                                             *)
LEMMA DeafReady ==
    ASSUME TypeInv, NEW i \in Server, DeafOK(i), NEW n, DeafNode(i, n),
           pull_ready_events(i, n)
    PROVE  DeafOK(i)'
<1>1. /\ node \in [Server -> NodeType] /\ disk \in [Server -> DiskType]
      /\ NodeOK(node[i]) /\ node[i] \in NodeType /\ node[i].committed \in Nat
    BY NoEvent, NodeFields DEF TypeInv, TypeOK
<1>2. CASE n.fatal
  <2>1. node'[i] = Fatal(node[i]) /\ net' = net /\ disk' = disk
      BY <1>1, <1>2 DEF pull_ready_events
  <2>2. /\ Fatal(node[i]).term = node[i].term /\ Fatal(node[i]).lead = node[i].lead
        /\ Fatal(node[i]).state = node[i].state
      BY <1>1 DEF Fatal, NodeType
  <2> QED BY <2>1, <2>2 DEF DeafOK
<1>3. CASE ~n.fatal
  <2> DEFINE q == reduce_uncommitted_size(n, node[i].committed)
             r == [q EXCEPT !.msgs = {}]
  <2>1. /\ node'[i] = r
        /\ net' \subseteq net \cup n.msgs
        /\ disk'[i] \in {Saved(n), disk[i]}
      BY <1>1, <1>3 DEF pull_ready_events
  <2>2. r.term = n.term /\ r.state = n.state
      BY <1>1, ReadyNode DEF DeafNode
  <2>3. r.lead = n.lead
      BY DEF reduce_uncommitted_size, DeafNode, NodeOK, NodeType
  <2> HIDE DEF r
  <2>4. disk'[i].term = 1
      BY <2>1, SavedDisk DEF DeafNode, DeafOK
  <2>5. \A m \in n.msgs : m.to # i /\ (m.from = i => m.type = "MsgPreVote")
      BY DEF DeafNode
  <2> QED BY <2>1, <2>2, <2>3, <2>4, <2>5 DEF DeafOK, DeafNode
<1> QED BY <1>2, <1>3

(* What a deaf server does itself: only a timeout makes it send.           *)
LEMMA DeafActs ==
    ASSUME TypeInv, PreVote, Cardinality(Server) > 1, NEW i \in Server, DeafOK(i),
           \/ Hup(i) \/ Lapse(i) \/ Restart(i)
           \/ \E due \in BOOLEAN : Beat(i, due)
           \/ \E v \in Value : Propose(i, v)
           \/ \E j \in Server : TransferLeader(i, j) \/ Unreachable(i, j)
           \/ \E m \in net : Receive(i, m)
    PROVE  DeafOK(i)'
<1>1. /\ NodeOK(node[i]) /\ node[i] \in NodeType /\ node[i].id = i /\ node[i].msgs = {}
      /\ node[i].term = 1 /\ node[i].lead = Nil
      /\ node[i].state \in {"Follower", "PreCandidate"}
    BY NoEvent DEF DeafOK, NodeOK
<1>2. DeafNode(i, node[i])
    BY <1>1 DEF DeafNode
<1>3. ~Lapse(i) /\ ~(\E due \in BOOLEAN : Beat(i, due)) /\ ~(\E j \in Server : Unreachable(i, j))
    BY <1>1 DEF Lapse, Beat, Unreachable
<1>4. ASSUME NEW m \in net, Receive(i, m)
      PROVE  FALSE
  <2>1. m.to = i
      BY <1>4 DEF Receive, RecvProp, RecvVote, RecvVoteResp, RecvApp, RecvHeartbeat,
                  RecvAppResp, RecvHeartbeatResp, RecvTransferLeader, RecvTimeoutNow,
                  RecvUnhandled, RecvStale, Takes
  <2> QED BY <2>1 DEF DeafOK
<1>5. CASE Hup(i)
  <2> DEFINE n == [node[i] EXCEPT !.lapsed = FALSE]
  <2>1. pull_ready_events(i, campaign_pre_election(n))
      BY <1>5 DEF Hup
  <2>2. NodeOK(n)
    <3>1. Quiet(node[i], n)
        BY <1>1, MarksQuiet DEF Id
    <3> QED BY <3>1 DEF Quiet
  <2>3. /\ n.id = i /\ n.term = 1 /\ n.lead = Nil /\ n.msgs = {}
        /\ n.state \in {"Follower", "PreCandidate"}
      BY <1>1 DEF NodeType
  <2> HIDE DEF n
  <2>4. DeafNode(i, campaign_pre_election(n))
      BY <2>2, <2>3, DeafCampaign DEF DeafNode
  <2> QED BY <2>1, <2>4, DeafReady
<1>6. CASE \/ \E v \in Value : Propose(i, v)
           \/ \E j \in Server : TransferLeader(i, j)
  <2>1. pull_ready_events(i, node[i])
      BY <1>1, <1>6 DEF Propose, TransferLeader, step_prop, step_transfer
  <2> QED BY <1>2, <2>1, DeafReady
<1>7. CASE Restart(i)
  <2>1. /\ node'[i].state = "Follower" /\ node'[i].term = disk[i].term
        /\ net' = net /\ disk' = disk
      BY <1>7, RestartState
  <2>2. node'[i] = NewRaft(i, disk[i])
      BY <1>7 DEF Restart, TypeInv, TypeOK
  <2>3. NewRaft(i, disk[i]).lead = Nil
      BY DEF NewRaft, become_follower, reset, Fatal
  <2> QED BY <2>1, <2>2, <2>3 DEF DeafOK
<1> QED BY <1>3, <1>4, <1>5, <1>6, <1>7

(* Other servers do not reach it.                                          *)
LEMMA DeafSpared ==
    ASSUME TypeInv, NEW i \in Server, Deaf(i), DeafOK(i), NEW j \in Server \ {i},
           \/ \E n : Event(j, n) /\ pull_ready_events(j, n)
           \/ Restart(j)
    PROVE  DeafOK(i)'
<1>1. /\ node \in [Server -> NodeType] /\ disk \in [Server -> DiskType]
      /\ node[j].id = j
    BY DEF TypeInv, TypeOK
<1>2. ASSUME NEW n, Event(j, n), pull_ready_events(j, n)
      PROVE  DeafOK(i)'
  <2>1. node'[i] = node[i] /\ disk'[i] = disk[i]
      BY <1>1, <1>2 DEF pull_ready_events
  <2>2. \A m \in n.msgs : m.from = j
      BY <1>1, <1>2 DEF Event, Moves, NodeOK
  <2>3. \A m \in net' : m \in net \/ (m \in n.msgs /\ <<m.from, m.to>> \in Links)
      BY <1>2 DEF pull_ready_events
  <2>4. \A m \in net' : m.to # i /\ (m.from = i => m.type = "MsgPreVote")
      BY <2>2, <2>3 DEF Deaf, DeafOK
  <2> QED BY <2>1, <2>4 DEF DeafOK
<1>3. CASE Restart(j)
  <2>1. node'[i] = node[i] /\ disk' = disk /\ net' = net
      BY <1>1, <1>3 DEF Restart
  <2> QED BY <2>1 DEF DeafOK
<1> QED BY <1>2, <1>3

LEMMA DeafInvStep ==
    ASSUME PreVote, Cardinality(Server) > 1, TypeInv, DeafInv, [Next]_vars
    PROVE  DeafInv'
<1> SUFFICES ASSUME NEW i \in Server, Deaf(i)
             PROVE  DeafOK(i)'
    BY DEF DeafInv, Deaf
<1>1. DeafOK(i)
    BY DEF DeafInv
<1>2. CASE UNCHANGED vars
    BY <1>1, <1>2 DEF vars, DeafOK
<1>3. CASE Next
  <2>1. PICK j \in Server :
          \/ Hup(j) \/ Lapse(j) \/ Restart(j)
          \/ \E due \in BOOLEAN : Beat(j, due)
          \/ \E v \in Value : Propose(j, v)
          \/ \E k \in Server : TransferLeader(j, k) \/ Unreachable(j, k)
          \/ \E m \in net : Receive(j, m)
      BY <1>3 DEF Next
  <2>2. CASE j = i
      BY <1>1, <2>1, <2>2, DeafActs
  <2>3. CASE j # i
    <3>1. \/ \E n : Event(j, n) /\ pull_ready_events(j, n)
          \/ Restart(j)
      <4>1. ASSUME NEW m \in net, Receive(j, m)
            PROVE  \E n : Event(j, n) /\ pull_ready_events(j, n)
          BY <4>1, RecvQuietEvent, RecvVoteEvent, RecvVoteRespEvent, RecvTimeoutNowEvent,
             RecvStaleEvent DEF Receive
      <4> QED BY <2>1, <4>1, HupEvent, LapseEvent, BeatEvent, ProposeEvent,
                 TransferLeaderEvent, UnreachableEvent
    <3> QED BY <1>1, <2>3, <3>1, DeafSpared
  <2> QED BY <2>2, <2>3
<1> QED BY <1>2, <1>3

LEMMA DeafInvInit == Init => DeafInv
<1> SUFFICES ASSUME Init, NEW i \in Server
             PROVE  DeafOK(i)
    BY DEF DeafInv
<1>1. node[i] = NewRaft(i, Bootstrap) /\ disk[i] = Bootstrap /\ net = {}
    BY DEF Init
<1>2. NewRaft(i, Bootstrap).term = Bootstrap.term /\ NewRaft(i, Bootstrap).state = "Follower"
    BY BootstrapDisk, NewRaftNode
<1>3. NewRaft(i, Bootstrap).lead = Nil
    BY DEF NewRaft, become_follower, reset, Fatal
<1>4. Bootstrap.term = 1
    BY DEF Bootstrap
<1> QED BY <1>1, <1>2, <1>3, <1>4 DEF DeafOK

(* With Pre-Vote, in a cluster of more than one, a server that no message  *)
(* reaches stays in the first term however often its timer fires and it    *)
(* restarts, and sends nothing of a later term but MsgPreVote: it cannot   *)
(* depose the leader of the others.  Nothing is asked of the WAL.          *)
THEOREM DeafIsQuiet ==
    ASSUME PreVote, Cardinality(Server) > 1
    PROVE  Spec => []DeafStaysQuiet
<1>1. Bootstrap.term = 1
    BY DEF Bootstrap
<1>2. DeafInv => DeafStaysQuiet
    BY <1>1 DEF DeafInv, Deaf, DeafOK, DeafStaysQuiet
<1>3. TypeInv /\ DeafInv /\ [Next]_vars => DeafInv'
    BY DeafInvStep
<1> QED BY <1>2, <1>3, DeafInvInit, TypeInvInit, TypeInvStep, PTL DEF Spec

-----------------------------------------------------------------------------
(* The quota of uncommitted proposals.                                     *)

(* The payload of a log behind index a.                                    *)
Behind(log, a) == payload_size(SubSeq(log, a + 1, Len(log)))

PayloadAt(log, a, b) == {k \in a+1..b : log[k].value \in Value}

(* payload_size of a segment, by its positions in the log.                 *)
LEMMA PayloadOfSegment ==
    ASSUME NEW log \in Seq(EntryType), NEW a \in Nat, NEW b \in Nat, b <= Len(log)
    PROVE  /\ IsFiniteSet(PayloadAt(log, a, b))
           /\ payload_size(SubSeq(log, a + 1, b)) = Cardinality(PayloadAt(log, a, b))
<1> DEFINE s == SubSeq(log, a + 1, b)
           S == {k \in DOMAIN s : s[k].value \in Value}
           T == PayloadAt(log, a, b)
           f == [k \in S |-> k + a]
<1>1. /\ Len(s) = IF a + 1 <= b THEN b - a ELSE 0
      /\ DOMAIN s = 1..Len(s) /\ \A k \in 1..Len(s) : s[k] = log[a + k]
    BY SubSeqProperties
<1> HIDE DEF s
<1>2. f \in Bijection(S, T)
  <2>1. \A k \in S : k + a \in T
      BY <1>1 DEF PayloadAt
  <2>2. \A j \in T : j - a \in S /\ (j - a) + a = j
      BY <1>1 DEF PayloadAt
  <2>3. \A j, k \in S : j + a = k + a => j = k
      BY <1>1
  <2>4. f \in [S -> T]
      BY <2>1
  <2>5. f \in Surjection(S, T)
      BY <2>2, <2>4 DEF Surjection
  <2>6. f \in Injection(S, T)
      BY <2>3, <2>4 DEF Injection, IsInjective
  <2> QED BY <2>5, <2>6 DEF Bijection
<1>3. IsFiniteSet(S)
  <2>1. IsFiniteSet(1..Len(s))
      BY <1>1, FS_Interval
  <2> QED BY <1>1, <2>1, FS_Subset
<1>4. IsFiniteSet(T) /\ Cardinality(S) = Cardinality(T)
    BY <1>2, <1>3, FS_Bijection DEF ExistsBijection
<1> QED BY <1>4 DEF payload_size, s

(* What is left behind c of what was behind a, whichever is larger.        *)
LEMMA PayloadSplit ==
    ASSUME NEW log \in Seq(EntryType), NEW a \in Nat, NEW c \in Nat, c <= Len(log)
    PROVE  /\ Behind(log, a) \in Nat /\ Behind(log, c) \in Nat
           /\ payload_size(SubSeq(log, a + 1, c)) \in Nat
           /\ Behind(log, a) <= payload_size(SubSeq(log, a + 1, c)) + Behind(log, c)
<1> DEFINE A == PayloadAt(log, a, Len(log))
           B == PayloadAt(log, a, c)
           C == PayloadAt(log, c, Len(log))
<1>1. /\ IsFiniteSet(A) /\ Behind(log, a) = Cardinality(A)
      /\ IsFiniteSet(B) /\ payload_size(SubSeq(log, a + 1, c)) = Cardinality(B)
      /\ IsFiniteSet(C) /\ Behind(log, c) = Cardinality(C)
    BY PayloadOfSegment DEF Behind
<1>2. A \subseteq B \cup C
    BY DEF PayloadAt
<1> HIDE DEF A, B, C
<1>3. IsFiniteSet(B \cup C)
    BY <1>1, FS_Union
<1>4. Cardinality(A) <= Cardinality(B \cup C) /\ Cardinality(B \cup C) \in Nat
    BY <1>2, <1>3, FS_Subset, FS_CardinalityType
<1>5. Cardinality(B \cup C) = Cardinality(B) + Cardinality(C) - Cardinality(B \cap C)
    BY <1>1, FS_Union
<1>6. IsFiniteSet(B \cap C)
    BY <1>1, FS_Intersection
<1>7. /\ Cardinality(A) \in Nat /\ Cardinality(B) \in Nat /\ Cardinality(C) \in Nat
      /\ Cardinality(B \cap C) \in Nat
    BY <1>1, <1>6, FS_CardinalityType
<1> QED BY <1>1, <1>4, <1>5, <1>7

LEMMA BehindType ==
    ASSUME NEW log \in Seq(EntryType), NEW a \in Nat
    PROVE  Behind(log, a) \in Nat
<1>1. 0 \in Nat /\ 0 <= Len(log)
    OBVIOUS
<1> QED BY <1>1, PayloadSplit

(* An entry adds its own payload.                                          *)
LEMMA PayloadAppend ==
    ASSUME NEW log \in Seq(EntryType), NEW a \in Nat, a <= Len(log), NEW e \in EntryType
    PROVE  Behind(log \o <<e>>, a) = Behind(log, a) + payload_size(<<e>>)
<1> DEFINE log1 == log \o <<e>>
           n == Len(log)
           A == PayloadAt(log, a, n)
           B == PayloadAt(log1, a, n + 1)
<1>1. /\ log1 \in Seq(EntryType) /\ Len(log1) = n + 1 /\ n \in Nat /\ log1[n + 1] = e
      /\ \A k \in 1..n : log1[k] = log[k]
    OBVIOUS
<1> HIDE DEF log1
<1>2. /\ IsFiniteSet(A) /\ Behind(log, a) = Cardinality(A)
      /\ IsFiniteSet(B) /\ Behind(log1, a) = Cardinality(B)
    BY <1>1, PayloadOfSegment DEF Behind
<1>3. payload_size(<<e>>) = IF e.value \in Value THEN 1 ELSE 0
  <2>1. DOMAIN <<e>> = {1} /\ <<e>>[1] = e
      OBVIOUS
  <2>2. CASE e.value \in Value
    <3>1. {k \in DOMAIN <<e>> : <<e>>[k].value \in Value} = {1}
        BY <2>1, <2>2
    <3> QED BY <2>2, <3>1, FS_Singleton DEF payload_size
  <2>3. CASE e.value \notin Value
    <3>1. {k \in DOMAIN <<e>> : <<e>>[k].value \in Value} = {}
        BY <2>1, <2>3
    <3> QED BY <2>3, <3>1, FS_EmptySet DEF payload_size
  <2> QED BY <2>2, <2>3
<1>4. B = IF e.value \in Value THEN A \cup {n + 1} ELSE A
    BY <1>1 DEF PayloadAt
<1>5. n + 1 \notin A
    BY <1>1 DEF PayloadAt
<1>6. Cardinality(A) \in Nat
    BY <1>2, FS_CardinalityType
<1> HIDE DEF A, B
<1>7. Cardinality(A \cup {n + 1}) = Cardinality(A) + 1
    BY <1>2, <1>5, FS_AddElement
<1> QED BY <1>2, <1>3, <1>4, <1>6, <1>7 DEF log1

(* The fields of a Raft object that the quota is about.                    *)
Named(n) == {"log", "state", "uncommitted", "committed"} \subseteq DOMAIN n

(* r comes from n by steps that leave them alone, up to the commit index.  *)
Kept(n, r) ==
    /\ DOMAIN r = DOMAIN n
    /\ r.log = n.log /\ r.state = n.state /\ r.uncommitted = n.uncommitted

LEMMA NodeNamed == ASSUME NEW n, NodeOK(n) PROVE Named(n)
BY DEF NodeOK, NodeType, Named

LEMMA KeptTrans ==
    ASSUME NEW n, NEW r, NEW q, Kept(n, r), Kept(r, q)
    PROVE  Kept(n, q)
BY Zenon DEF Kept

LEMMA KeptNamed ==
    ASSUME NEW n, NEW r, Named(n), Kept(n, r)
    PROVE  Named(r)
BY Zenon DEF Kept, Named

(* Fields that do not matter here.                                         *)
LEMMA KeptExcept ==
    ASSUME NEW n, Named(n), NEW x, NEW y
    PROVE  /\ Kept(n, n)
           /\ Kept(n, [n EXCEPT !.prs = x]) /\ Kept(n, [n EXCEPT !.msgs = x])
           /\ Kept(n, [n EXCEPT !.votes = x]) /\ Kept(n, [n EXCEPT !.fatal = x])
           /\ Kept(n, [n EXCEPT !.committed = x])
           /\ Kept(n, [n EXCEPT !.lapsed = x]) /\ Kept(n, [n EXCEPT !.transferee = x])
           /\ Kept(n, [n EXCEPT !.lapsed = x, !.vote = y])
           /\ Kept(n, [n EXCEPT !.lapsed = x, !.lead = y])
           /\ Kept(n, [n EXCEPT !.transferee = x, !.lapsed = y])
<1>1. Kept(n, n) /\ Kept(n, [n EXCEPT !.prs = x]) /\ Kept(n, [n EXCEPT !.msgs = x])
    BY DEF Named, Kept
<1>2. Kept(n, [n EXCEPT !.votes = x]) /\ Kept(n, [n EXCEPT !.fatal = x])
    BY DEF Named, Kept
<1>3. Kept(n, [n EXCEPT !.committed = x]) /\ Kept(n, [n EXCEPT !.lapsed = x])
    BY DEF Named, Kept
<1>4. Kept(n, [n EXCEPT !.transferee = x]) /\ Kept(n, [n EXCEPT !.lapsed = x, !.vote = y])
    BY DEF Named, Kept
<1>5. Kept(n, [n EXCEPT !.lapsed = x, !.lead = y])
    BY DEF Named, Kept
<1>6. Kept(n, [n EXCEPT !.transferee = x, !.lapsed = y])
    BY DEF Named, Kept
<1> QED BY <1>1, <1>2, <1>3, <1>4, <1>5, <1>6

LEMMA KeptProgress ==
    ASSUME NEW n, Named(n), NEW j, NEW x
    PROVE  /\ Kept(n, [n EXCEPT !.prs[j] = x])
           /\ Kept(n, [n EXCEPT !.prs[j].recent_active = x])
           /\ Kept(n, [n EXCEPT !.votes[j] = x])
<1>1. Kept(n, [n EXCEPT !.prs[j] = x])
    BY DEF Named, Kept
<1>2. Kept(n, [n EXCEPT !.prs[j].recent_active = x])
    BY DEF Named, Kept
<1>3. Kept(n, [n EXCEPT !.votes[j] = x])
    BY DEF Named, Kept
<1> QED BY <1>1, <1>2, <1>3

LEMMA FatalKept == ASSUME NEW n, Named(n) PROVE Kept(n, Fatal(n))
BY KeptExcept, Zenon DEF Fatal

LEMMA CommitToKept == ASSUME NEW n, Named(n), NEW idx PROVE Kept(n, commit_to(n, idx))
BY KeptExcept, FatalKept, Zenon DEF commit_to

LEMMA MaybeCommitKept == ASSUME NEW n, Named(n) PROVE Kept(n, maybe_commit(n))
BY KeptExcept, CommitToKept, Zenon DEF maybe_commit

LEMMA SendKept == ASSUME NEW n, Named(n), NEW ms PROVE Kept(n, send(n, ms))
BY KeptExcept, FatalKept, Zenon DEF send

LEMMA SendAppendKept ==
    ASSUME NEW n, Named(n), NEW tos
    PROVE  Kept(n, send_append(n, tos))
<1> DEFINE ready == {j \in tos : ~is_paused(n.prs[j])}
           s == send(n, {AppMessage(n, j, n.prs[j].next) : j \in ready})
           f == [j \in Server |-> IF j \in ready
                                  THEN Sent(n.prs[j], ChunkEnd(n, n.prs[j].next, 1))
                                  ELSE s.prs[j]]
<1>1. send_append(n, tos) = [s EXCEPT !.prs = f]
    BY Zenon DEF send_append
<1>2. Kept(n, s)
    BY SendKept
<1> HIDE DEF s, f
<1>3. Kept(s, [s EXCEPT !.prs = f])
    BY <1>2, KeptNamed, KeptExcept
<1> QED BY <1>1, <1>2, <1>3, KeptTrans

LEMMA BcastAppendKept == ASSUME NEW n, Named(n) PROVE Kept(n, bcast_append(n))
BY SendAppendKept DEF bcast_append

LEMMA BcastHeartbeatKept == ASSUME NEW n, Named(n) PROVE Kept(n, bcast_heartbeat(n))
BY SendKept, Zenon DEF bcast_heartbeat

LEMMA SendRestKept ==
    ASSUME NEW n, Named(n), NEW to
    PROVE  Kept(n, send_rest(n, to))
<1> DEFINE p == n.prs[to]
           todo == (last_index(n) - p.next + MaxMsgEntries) \div MaxMsgEntries
           room == MaxInflight - Len(p.ins)
           count == IF todo < room THEN todo ELSE room
           ends == [k \in 1..count |-> ChunkEnd(n, p.next, k)]
           s == send(n, {AppMessage(n, to, p.next + k * MaxMsgEntries) : k \in 0..(count - 1)})
           q == [p EXCEPT !.next = ends[count] + 1, !.ins = p.ins \o ends]
<1>1. send_rest(n, to) = IF count <= 0 THEN n ELSE [s EXCEPT !.prs[to] = q]
    BY Zenon DEF send_rest
<1>2. Kept(n, s)
    BY SendKept
<1> HIDE DEF s, q, count
<1>3. Kept(s, [s EXCEPT !.prs[to] = q])
    BY <1>2, KeptNamed, KeptProgress
<1> QED BY <1>1, <1>2, <1>3, KeptTrans, KeptExcept, Zenon

LEMMA AppRespKept ==
    ASSUME NEW n, Named(n), NEW m
    PROVE  Kept(n, handle_app_resp(n, m))
<1> DEFINE n1 == [n EXCEPT !.prs[m.from].recent_active = TRUE]
<1>1. Kept(n, n1)
    BY KeptProgress
<1> HIDE DEF n1
<1>2. Named(n1)
    BY <1>1, KeptNamed
<1>3. Kept(n1, app_resp_rejected(n1, m))
  <2> DEFINE p1 == maybe_decreases_to(n1.prs[m.from], m.index, m.reject_hint)
             q == IF p1.state = "Replicate" THEN become_probe(p1) ELSE p1
             n2 == [n1 EXCEPT !.prs[m.from] = q]
  <2>1. app_resp_rejected(n1, m) \in {n1, send_append(n2, {m.from})}
      BY Zenon DEF app_resp_rejected
  <2> HIDE DEF q
  <2>2. Kept(n1, n2)
      BY <1>2, KeptProgress
  <2> HIDE DEF n2
  <2>3. Kept(n2, send_append(n2, {m.from}))
      BY <1>2, <2>2, KeptNamed, SendAppendKept
  <2> QED BY <1>2, <2>1, <2>2, <2>3, KeptTrans, KeptExcept
<1>4. Kept(n1, app_resp_accepted(n1, m))
  <2> DEFINE p  == n1.prs[m.from]
             p1 == maybe_update(p, m.index)
             p2 == IF p1.state = "Probe" THEN become_replicate(p1) ELSE free_to(p1, m.index)
             n2 == [n1 EXCEPT !.prs[m.from] = p2]
             n3 == maybe_commit(n2)
             n4 == IF n3.committed # n2.committed THEN bcast_append(n3)
                   ELSE IF is_paused(p) THEN send_append(n3, {m.from}) ELSE n3
             n5 == send_rest(n4, m.from)
  <2>1. app_resp_accepted(n1, m) \in
          {[n1 EXCEPT !.prs[m.from] = p1], timeout_now(n5, m.from), n5}
      BY Zenon DEF app_resp_accepted
  <2> HIDE DEF p, p1, p2
  <2>2. Kept(n1, [n1 EXCEPT !.prs[m.from] = p1]) /\ Kept(n1, n2)
      BY <1>2, KeptProgress
  <2> HIDE DEF n2
  <2>3. Named(n2) /\ Kept(n2, n3)
      BY <1>2, <2>2, KeptNamed, MaybeCommitKept
  <2> HIDE DEF n3
  <2>4. Named(n3)
      BY <2>3, KeptNamed
  <2>5. Kept(n3, n4)
      BY <2>4, KeptExcept, BcastAppendKept, SendAppendKept, Zenon
  <2> HIDE DEF n4
  <2>6. Named(n4) /\ Kept(n4, n5)
      BY <2>4, <2>5, KeptNamed, SendRestKept
  <2> HIDE DEF n5
  <2>7. Kept(n5, timeout_now(n5, m.from))
      BY <2>6, KeptNamed, SendKept DEF timeout_now
  <2>8. Kept(n1, n5)
      BY <2>2, <2>3, <2>5, <2>6, KeptTrans
  <2>9. Kept(n1, timeout_now(n5, m.from))
      BY <2>7, <2>8, KeptTrans
  <2> QED BY <2>1, <2>2, <2>8, <2>9
<1>5. handle_app_resp(n, m) \in {app_resp_rejected(n1, m), app_resp_accepted(n1, m)}
    BY Zenon DEF handle_app_resp, n1
<1> QED BY <1>1, <1>3, <1>4, <1>5, KeptTrans

LEMMA HeartbeatRespKept ==
    ASSUME NEW n, Named(n), NEW m
    PROVE  Kept(n, handle_heartbeat_resp(n, m))
<1> DEFINE p == [n.prs[m.from] EXCEPT !.recent_active = TRUE, !.paused = FALSE]
           q == IF p.state = "Replicate" /\ is_full(p) THEN free_first_one(p) ELSE p
           n1 == [n EXCEPT !.prs[m.from] = q]
<1>1. handle_heartbeat_resp(n, m) \in {n1, send_append(n1, {m.from})}
    BY Zenon DEF handle_heartbeat_resp
<1> HIDE DEF q
<1>2. Kept(n, n1)
    BY KeptProgress
<1> HIDE DEF n1
<1>3. Kept(n1, send_append(n1, {m.from}))
    BY <1>2, KeptNamed, SendAppendKept
<1> QED BY <1>1, <1>2, <1>3, KeptTrans

LEMMA StepTransferKept ==
    ASSUME NEW n, Named(n), NEW m
    PROVE  Kept(n, step_transfer(n, m))
<1> DEFINE to == m.from
           n1 == [n EXCEPT !.transferee = to, !.lapsed = FALSE]
           n0 == [n EXCEPT !.transferee = Nil]
<1>1. Kept(n, n1) /\ Kept(n, n0) /\ Kept(n, n)
    BY KeptExcept
<1>2. handle_transfer_leader(n, to) \in {n, n0, timeout_now(n1, to), send_append(n1, {to})}
    BY Zenon DEF handle_transfer_leader
<1> HIDE DEF n1, n0
<1>3. Kept(n1, timeout_now(n1, to)) /\ Kept(n1, send_append(n1, {to}))
    BY <1>1, KeptNamed, SendKept, SendAppendKept DEF timeout_now
<1>4. Kept(n, handle_transfer_leader(n, to))
    BY <1>1, <1>2, <1>3, KeptTrans
<1>5. Kept(n, send(n, {[m EXCEPT !.to = n.lead]}))
    BY SendKept
<1>6. step_transfer(n, m) \in {handle_transfer_leader(n, to), send(n, {[m EXCEPT !.to = n.lead]}), n}
    BY Zenon DEF step_transfer
<1> QED BY <1>1, <1>4, <1>5, <1>6

LEMMA HandleVoteKept ==
    ASSUME NEW n, Named(n), NEW m
    PROVE  Kept(n, handle_vote(n, m)) /\ Kept(n, reject_vote(n, m))
<1> DEFINE n1 == send(n, {[Reply(m, vote_resp_msg_type(m.type)) EXCEPT !.term = m.term]})
           n2 == [n1 EXCEPT !.lapsed = FALSE, !.vote = m.from]
<1>1. Kept(n, n1) /\ Kept(n, reject_vote(n, m))
    BY SendKept, Zenon DEF reject_vote
<1>2. handle_vote(n, m) \in {n1, n2, reject_vote(n, m)}
    BY Zenon DEF handle_vote, grant_vote
<1> HIDE DEF n1
<1>3. Kept(n1, n2)
    BY <1>1, KeptNamed, KeptExcept
<1> HIDE DEF n2
<1> QED BY <1>1, <1>2, <1>3, KeptTrans

LEMMA PollKept ==
    ASSUME NEW n, Named(n), NEW j, NEW granted
    PROVE  Kept(n, poll(n, j, granted))
<1> DEFINE x == IF n.votes[j] # "none" THEN n.votes[j]
                ELSE IF granted THEN "granted" ELSE "rejected"
<1>1. poll(n, j, granted) = [n EXCEPT !.votes[j] = x]
    BY Zenon DEF poll
<1> HIDE DEF x
<1>2. Kept(n, [n EXCEPT !.votes[j] = x])
    BY KeptProgress
<1> QED BY <1>1, <1>2, Zenon

LEMMA HandleHeartbeatKept ==
    ASSUME NEW n, Named(n), NEW m
    PROVE  Kept(n, handle_heartbeat(n, m))
<1>1. Kept(n, commit_to(n, m.commit))
    BY CommitToKept
<1>2. Named(commit_to(n, m.commit))
    BY <1>1, KeptNamed
<1> QED BY <1>1, <1>2, SendKept, KeptTrans DEF handle_heartbeat

-----------------------------------------------------------------------------
(* Only a leader has a quota in use, and no more than the payload behind   *)
(* index a, the commit index when the event began.                         *)
InQuota(n, a) ==
    /\ Named(n) /\ n.uncommitted \in Nat
    /\ n.state # "Leader" => n.uncommitted = 0
    /\ n.log \in Seq(EntryType) => n.uncommitted <= Behind(n.log, a)

LEMMA InQuotaKept ==
    ASSUME NEW n, NEW r, NEW a, InQuota(n, a), Kept(n, r)
    PROVE  InQuota(r, a)
<1>1. Named(r)
    BY KeptNamed DEF InQuota
<1> QED BY <1>1, Zenon DEF InQuota, Kept

LEMMA EmptyQuota ==
    ASSUME NEW n, Named(n), n.uncommitted = 0, NEW a \in Nat
    PROVE  InQuota(n, a)
<1>1. n.log \in Seq(EntryType) => Behind(n.log, a) \in Nat
    BY BehindType
<1> QED BY <1>1 DEF InQuota

LEMMA ResetQuota ==
    ASSUME NEW n, Named(n), NEW t
    PROVE  LET r == reset(n, t)
           IN  DOMAIN r = DOMAIN n /\ r.log = n.log /\ r.uncommitted = 0 /\ r.state = n.state
<1> DEFINE v == IF t = n.term THEN n.vote ELSE Nil
           f == [j \in Server |-> NewProgress(IF j = n.id THEN last_index(n) ELSE 0,
                                              last_index(n) + 1)]
           w == [j \in Server |-> "none"]
           r == [n EXCEPT !.term = t, !.vote = v, !.lead = Nil, !.lapsed = FALSE,
                          !.transferee = Nil, !.votes = w, !.prs = f, !.uncommitted = 0]
<1>1. reset(n, t) = r
    BY Zenon DEF reset
<1> HIDE DEF v, f, w
<1>2. DOMAIN r = DOMAIN n /\ r.log = n.log /\ r.uncommitted = 0 /\ r.state = n.state
    BY DEF Named
<1> HIDE DEF r
<1> QED BY <1>1, <1>2

LEMMA FollowerQuota ==
    ASSUME NEW n, Named(n), NEW t, NEW lead
    PROVE  LET r == become_follower(n, t, lead)
           IN  Named(r) /\ r.log = n.log /\ r.state = "Follower" /\ r.uncommitted = 0
<1> DEFINE q == reset(n, t)
           r == [q EXCEPT !.lead = lead, !.state = "Follower"]
<1>1. DOMAIN q = DOMAIN n /\ q.log = n.log /\ q.uncommitted = 0
    BY ResetQuota
<1> HIDE DEF q
<1>2. Named(r) /\ r.log = n.log /\ r.state = "Follower" /\ r.uncommitted = 0
    BY <1>1 DEF Named
<1> QED BY <1>2 DEF become_follower, q

LEMMA CandidateQuota ==
    ASSUME NEW n, Named(n), n.state # "Leader"
    PROVE  LET r == become_candidate(n)
           IN  Named(r) /\ r.log = n.log /\ r.state = "Candidate" /\ r.uncommitted = 0
<1> DEFINE q == reset(n, n.term + 1)
           r == [q EXCEPT !.vote = n.id, !.state = "Candidate"]
<1>1. DOMAIN q = DOMAIN n /\ q.log = n.log /\ q.uncommitted = 0
    BY ResetQuota
<1> HIDE DEF q
<1>2. Named(r) /\ r.log = n.log /\ r.state = "Candidate" /\ r.uncommitted = 0
    BY <1>1 DEF Named
<1> HIDE DEF r
<1>3. become_candidate(n) = r
    BY DEF become_candidate, q, r
<1> QED BY <1>2, <1>3

(* append_entry counts an entry when it is in the log behind a.            *)
LEMMA AppendEntryQuota ==
    ASSUME NEW n, NodeOK(n), NEW v \in Payload, NEW a \in Nat, a <= Len(n.log),
           n.state = "Leader", InQuota(n, a)
    PROVE  InQuota(append_entry(n, v), a)
<1> DEFINE e == Entry(n.term, v)
           n1 == append(n, last_index(n), <<e>>)
           n2 == [n1 EXCEPT !.uncommitted = @ + payload_size(<<e>>),
                            !.prs[n.id] = maybe_update(@, last_index(n1))]
<1>1. /\ n.log \in Seq(EntryType) /\ n.term \in Nat /\ n.uncommitted \in Nat /\ Named(n)
      /\ last_index(n) = Len(n.log) /\ ~(last_index(n) < n.committed)
      /\ ~(last_index(n) > last_index(n))
    BY NodeFields, NodeNamed DEF last_index
<1>2. e \in EntryType
    BY <1>1, Zenon DEF Entry, EntryType
<1>3. append_entry(n, v) = maybe_commit(n2)
    BY Zenon DEF append_entry
<1> HIDE DEF e
<1>4. n1 = [n EXCEPT !.log = SubSeq(n.log, 1, last_index(n)) \o <<e>>]
    BY <1>1, Zenon DEF append
<1>5. SubSeq(n.log, 1, last_index(n)) = n.log
    BY <1>1, SubSeqFull
<1>6. /\ DOMAIN n1 = DOMAIN n /\ n1.log = n.log \o <<e>>
      /\ n1.uncommitted = n.uncommitted /\ n1.state = n.state
    BY <1>1, <1>4, <1>5 DEF Named
<1> HIDE DEF n1
<1> DEFINE u == n1.uncommitted + payload_size(<<e>>)
           f == [n1.prs EXCEPT ![n.id] = maybe_update(@, last_index(n1))]
           n3 == [n1 EXCEPT !.uncommitted = u, !.prs = f]
<1>7. n2 = n3
    BY <1>1, <1>6 DEF Named
<1> HIDE DEF u, f, n2
<1>8. DOMAIN n3 = DOMAIN n /\ n3.log = n1.log /\ n3.uncommitted = u /\ n3.state = n1.state
    BY <1>1, <1>6 DEF Named
<1> HIDE DEF n3
<1>9. payload_size(<<e>>) \in Nat /\ u = n.uncommitted + payload_size(<<e>>)
  <2>1. <<e>> \in Seq(EntryType)
      BY <1>2
  <2>2. payload_size(<<e>>) \in Nat
      BY <2>1, PayloadSizeType
  <2> QED BY <1>6, <2>2, Zenon DEF u
<1>10. Behind(n1.log, a) = Behind(n.log, a) + payload_size(<<e>>) /\ Behind(n.log, a) \in Nat
  <2>1. Behind(n.log \o <<e>>, a) = Behind(n.log, a) + payload_size(<<e>>)
      BY <1>1, <1>2, PayloadAppend
  <2> QED BY <1>1, <1>6, <2>1, BehindType, Zenon
<1>11. n.uncommitted <= Behind(n.log, a)
    BY <1>1 DEF InQuota
<1>12. u \in Nat /\ u <= Behind(n1.log, a)
    BY <1>1, <1>9, <1>10, <1>11
<1>13. Named(n2)
    BY <1>1, <1>7, <1>8 DEF Named
<1>14. InQuota(n2, a)
    BY <1>6, <1>7, <1>8, <1>12, <1>13, Zenon DEF InQuota
<1> QED BY <1>3, <1>13, <1>14, MaybeCommitKept, InQuotaKept

LEMMA LeaderQuota ==
    ASSUME NEW n, NodeOK(n), n.uncommitted = 0, NEW a \in Nat, a <= Len(n.log)
    PROVE  InQuota(become_leader(n), a)
<1> DEFINE q == reset(n, n.term)
           f == [q.prs EXCEPT ![n.id] = become_replicate(@)]
           l == WithLead(q, n.id, "Leader")
           p == [l EXCEPT !.prs = f]
<1>1. Named(n) /\ n.term \in Nat /\ n.id \in Server /\ n.id \in Id
    BY NodeNamed, NodeFields DEF Id
<1>2. CASE n.state = "Follower"
    BY <1>1, <1>2, FatalKept, EmptyQuota, InQuotaKept DEF become_leader
<1>3. CASE n.state # "Follower"
  <2>1. NodeOK(q) /\ q.id = n.id /\ q.log = n.log
      BY <1>1, ResetNode
  <2>2. DOMAIN q = DOMAIN n /\ q.uncommitted = 0
      BY <1>1, ResetQuota
  <2>3. q.prs \in [Server -> ProgressType]
      BY <2>1, NodeFields
  <2>4. become_leader(n) = append_entry(p, "noop")
      BY <1>3, <2>1, <2>3 DEF become_leader, WithLead, NodeOK, NodeType
  <2> HIDE DEF q
  <2>5. NodeOK(l) /\ l.state = "Leader"
      BY <1>1, <2>1, RoleNode
  <2>6. DOMAIN l = DOMAIN q /\ l.log = q.log /\ l.uncommitted = 0
      BY <1>1, <2>2 DEF WithLead, Named
  <2> HIDE DEF l
  <2>7. f \in [Server -> ProgressType]
      BY <1>1, <2>3, ProgressTypes
  <2> HIDE DEF f
  <2>8. NodeOK(p)
      BY <2>5, <2>7, PrsQuiet DEF Quiet
  <2>9. Kept(l, p)
      BY <2>5, NodeNamed, KeptExcept
  <2> HIDE DEF p
  <2>10. Named(p) /\ p.uncommitted = 0 /\ p.state = "Leader" /\ p.log = n.log
      BY <2>1, <2>5, <2>6, <2>8, <2>9, NodeNamed DEF Kept
  <2>11. InQuota(p, a)
      BY <2>10, EmptyQuota
  <2>12. "noop" \in Payload
      BY DEF Payload
  <2> QED BY <2>4, <2>8, <2>10, <2>11, <2>12, AppendEntryQuota
<1> QED BY <1>2, <1>3

LEMMA CampaignQuota ==
    ASSUME NEW n, NodeOK(n), n.state # "Leader", NEW a \in Nat, a <= Len(n.log)
    PROVE  InQuota(campaign_election(n), a)
<1> DEFINE b == become_candidate(n)
           c == poll(b, n.id, TRUE)
<1>1. Named(n) /\ n.id \in Server
    BY NodeNamed, NodeFields
<1>2. campaign_election(n) \in {become_leader(c), send(c, VoteRequests(c, "MsgVote", c.term))}
    BY Zenon DEF campaign_election
<1>3. /\ NodeOK(b) /\ b.id = n.id
      /\ Named(b) /\ b.log = n.log /\ b.uncommitted = 0
    BY <1>1, BecomeCandidate, CandidateQuota
<1> HIDE DEF b
<1>4. NodeOK(c) /\ Kept(b, c)
    BY <1>1, <1>3, PollNode, PollKept
<1> HIDE DEF c
<1>5. Named(c) /\ c.log = n.log /\ c.uncommitted = 0
    BY <1>3, <1>4, KeptNamed DEF Kept
<1>6. InQuota(become_leader(c), a)
    BY <1>4, <1>5, LeaderQuota
<1>7. InQuota(send(c, VoteRequests(c, "MsgVote", c.term)), a)
    BY <1>5, EmptyQuota, SendKept, InQuotaKept
<1> QED BY <1>2, <1>6, <1>7

LEMMA PreCampaignQuota ==
    ASSUME NEW n, NodeOK(n), n.state # "Leader", n.uncommitted = 0,
           NEW a \in Nat, a <= Len(n.log)
    PROVE  InQuota(campaign_pre_election(n), a)
<1> DEFINE w == [j \in Server |-> "none"]
           b == become_pre_candidate(n)
           c == poll(b, n.id, TRUE)
           l == WithLead(n, Nil, "PreCandidate")
<1>1. Named(n) /\ n.id \in Server /\ Nil \in Id
    BY NodeNamed, NodeFields DEF Id
<1>2. campaign_pre_election(n) \in
        {campaign_election(c), send(c, VoteRequests(c, "MsgPreVote", c.term + 1))}
    BY Zenon DEF campaign_pre_election
<1>3. NodeOK(l) /\ l.state = "PreCandidate"
    BY <1>1, RoleNode
<1>4. DOMAIN l = DOMAIN n /\ l.log = n.log /\ l.uncommitted = 0
    BY <1>1 DEF WithLead, Named
<1>5. b = [l EXCEPT !.votes = w]
    BY DEF become_pre_candidate, WithLead, NodeOK, NodeType
<1> HIDE DEF b, l
<1>6. Kept(l, b)
    BY <1>3, <1>5, NodeNamed, KeptExcept
<1>7. NodeOK(b)
  <2>1. w \in [Server -> {"none", "granted", "rejected"}]
      OBVIOUS
  <2> HIDE DEF w
  <2>2. b \in NodeType
      BY <1>3, <1>5, <2>1, Zenon DEF NodeOK, NodeType
  <2>3. b.committed = l.committed /\ b.log = l.log /\ b.msgs = l.msgs /\ b.id = l.id
      BY <1>3, <1>5 DEF NodeOK, NodeType
  <2> QED BY <1>3, <2>2, <2>3, Zenon DEF NodeOK
<1>8. NodeOK(c) /\ Kept(b, c)
    BY <1>1, <1>7, NodeNamed, PollNode, PollKept
<1> HIDE DEF c
<1>9. Named(c) /\ c.log = n.log /\ c.uncommitted = 0 /\ c.state # "Leader"
    BY <1>3, <1>4, <1>6, <1>8, NodeNamed DEF Kept
<1>10. InQuota(campaign_election(c), a)
    BY <1>8, <1>9, CampaignQuota
<1>11. InQuota(send(c, VoteRequests(c, "MsgPreVote", c.term + 1)), a)
    BY <1>9, EmptyQuota, SendKept, InQuotaKept
<1> QED BY <1>2, <1>10, <1>11

LEMMA VoteRespQuota ==
    ASSUME NEW n, NodeOK(n), n.state # "Leader", n.uncommitted = 0, NEW m, m.from \in Server,
           m.reject \in BOOLEAN, NEW a \in Nat, a <= Len(n.log)
    PROVE  InQuota(handle_vote_resp(n, m), a)
<1> DEFINE c == poll(n, m.from, ~m.reject)
           l == become_leader(c)
<1>1. handle_vote_resp(n, m) \in
        {campaign_election(c), bcast_append(l), become_follower(c, c.term, Nil), c}
    BY Zenon DEF handle_vote_resp
<1>2. NodeOK(c) /\ Kept(n, c) /\ Named(n)
    BY NodeNamed, PollNode, PollKept
<1> HIDE DEF c
<1>3. Named(c) /\ c.log = n.log /\ c.uncommitted = 0 /\ c.state # "Leader"
    BY <1>2, NodeNamed DEF Kept
<1>4. InQuota(campaign_election(c), a) /\ InQuota(l, a)
    BY <1>2, <1>3, CampaignQuota, LeaderQuota
<1> HIDE DEF l
<1>5. InQuota(bcast_append(l), a)
    BY <1>4, BcastAppendKept, InQuotaKept DEF InQuota
<1>6. InQuota(c, a)
    BY <1>3, EmptyQuota
<1>7. InQuota(become_follower(c, c.term, Nil), a)
    BY <1>3, FollowerQuota, EmptyQuota
<1> QED BY <1>1, <1>4, <1>5, <1>6, <1>7

LEMMA StepPropQuota ==
    ASSUME NEW n, NodeOK(n), NEW m, m.entries[1].value \in Payload,
           NEW a \in Nat, a <= Len(n.log), InQuota(n, a)
    PROVE  InQuota(step_prop(n, m), a)
<1> DEFINE v == m.entries[1].value
           s == send(n, {[m EXCEPT !.to = n.lead]})
<1>1. Named(n)
    BY DEF InQuota
<1>2. InQuota(s, a)
    BY <1>1, SendKept, InQuotaKept
<1>3. n.state = "Leader" => InQuota(propose(n, v), a)
  <2>1. SUFFICES ASSUME n.state = "Leader"
                 PROVE  InQuota(propose(n, v), a)
      OBVIOUS
  <2>2. InQuota(append_entry(n, v), a)
      BY <2>1, AppendEntryQuota
  <2>3. Named(append_entry(n, v))
      BY <2>2 DEF InQuota
  <2>4. Kept(append_entry(n, v), propose(n, v))
      BY <2>3, BcastAppendKept DEF propose
  <2> QED BY <2>2, <2>4, InQuotaKept
<1>4. \/ n.state = "Leader" /\ step_prop(n, m) \in {n, propose(n, v)}
      \/ step_prop(n, m) \in {n, s}
    BY Zenon DEF step_prop
<1> QED BY <1>2, <1>3, <1>4

(* A follower's log may be cut; it has no quota in use.                    *)
LEMMA AppendEntriesQuota ==
    ASSUME NEW n, Named(n), n.uncommitted = 0, NEW m, NEW a \in Nat
    PROVE  InQuota(handle_append_entries(n, m), a)
<1> DEFINE cs == conflicts(n, m.index, m.entries)
           ci == CHOOSE k \in cs : \A l \in cs : k <= l
           after == m.index + ci - 1
           lastnewi == m.index + Len(m.entries)
           ents == SubSeq(m.entries, ci, Len(m.entries))
           n1 == IF cs = {} THEN n ELSE append(n, after, ents)
           c == IF m.commit < lastnewi THEN m.commit ELSE lastnewi
           n2 == commit_to(n1, c)
<1>1. maybe_append(n, m) = n2
    BY Zenon DEF maybe_append
<1> HIDE DEF after, lastnewi, ents, cs, c
<1>2. Named(n1) /\ n1.uncommitted = 0
  <2> DEFINE log1 == SubSeq(n.log, 1, after) \o ents
             r == [n EXCEPT !.log = log1]
  <2>1. append(n, after, ents) \in {Fatal(n), r}
      BY Zenon DEF append
  <2> HIDE DEF log1
  <2>2. Named(r) /\ r.uncommitted = 0
      BY DEF Named
  <2>3. Named(Fatal(n)) /\ Fatal(n).uncommitted = 0
      BY FatalKept, KeptNamed DEF Kept
  <2> HIDE DEF r
  <2>4. n1 \in {n, Fatal(n), r}
      BY <2>1, Zenon
  <2> HIDE DEF n1
  <2> QED BY <2>2, <2>3, <2>4
<1> HIDE DEF n1
<1>3. Kept(n1, n2)
    BY <1>2, CommitToKept
<1> HIDE DEF n2
<1>4. Named(n2) /\ n2.uncommitted = 0
    BY <1>2, <1>3, KeptNamed DEF Kept
<1>5. ASSUME NEW ms
      PROVE  InQuota(send(n, ms), a) /\ InQuota(send(n2, ms), a)
    BY <1>4, EmptyQuota, SendKept, InQuotaKept
<1>6. \E ms : handle_append_entries(n, m) \in {send(n, ms), send(n2, ms)}
    BY <1>1, Zenon DEF handle_append_entries
<1> QED BY <1>5, <1>6

(* The inductive invariant behind QuotaNotOverestimated.                   *)
QuotaInv ==
    \A i \in Server : /\ node[i].state # "Leader" => node[i].uncommitted = 0
                      /\ node[i].uncommitted <= Behind(node[i].log, node[i].committed)

LEMMA QuotaStart ==
    ASSUME TypeInv, QuotaInv, NEW i \in Server
    PROVE  /\ NodeOK(node[i]) /\ InQuota(node[i], node[i].committed)
           /\ node[i].committed \in Nat /\ node[i].committed <= Len(node[i].log)
<1>1. NodeOK(node[i])
    BY NoEvent
<1>2. Named(node[i]) /\ node[i].uncommitted \in Nat /\ node[i].committed \in Nat
    BY <1>1, NodeNamed, NodeFields
<1> QED BY <1>1, <1>2 DEF QuotaInv, InQuota, NodeOK

LEMMA CatchUpQuota ==
    ASSUME TypeInv, QuotaInv, NEW i \in Server, NEW m \in net, NEW n, Takes(i, m, n)
    PROVE  /\ NodeOK(n) /\ Named(n) /\ InQuota(n, node[i].committed) /\ m \in MessageType
           /\ node[i].committed \in Nat /\ node[i].committed <= Len(n.log)
<1>1. NodeOK(n) /\ m \in MessageType
    BY CatchUpEvent
<1>2. /\ NodeOK(node[i]) /\ InQuota(node[i], node[i].committed)
      /\ node[i].committed \in Nat /\ node[i].committed <= Len(node[i].log)
    BY QuotaStart
<1> DEFINE lead == IF m.type \in {"MsgApp", "MsgHeartbeat"} THEN m.from ELSE Nil
           r == become_follower(node[i], m.term, lead)
<1>3. n \in {node[i], r}
    BY Zenon DEF Takes, catch_up
<1> HIDE DEF lead
<1>4. Named(r) /\ r.log = node[i].log /\ r.uncommitted = 0
    BY <1>2, FollowerQuota DEF InQuota
<1> HIDE DEF r
<1>5. InQuota(r, node[i].committed)
    BY <1>2, <1>4, EmptyQuota
<1> QED BY <1>1, <1>2, <1>3, <1>4, <1>5, NodeNamed

LEMMA ReceiveQuota ==
    ASSUME TypeInv, QuotaInv, NEW i \in Server, NEW m \in net, Receive(i, m)
    PROVE  \E n : InQuota(n, node[i].committed) /\ pull_ready_events(i, n)
<1> DEFINE a == node[i].committed
           n == catch_up(node[i], m)
<1>1. ASSUME Takes(i, m, n)
      PROVE  /\ NodeOK(n) /\ Named(n) /\ InQuota(n, a) /\ m \in MessageType
             /\ a \in Nat /\ a <= Len(n.log)
    BY <1>1, CatchUpQuota
<1>2. ASSUME Takes(i, m, n), NEW r, Kept(n, r)
      PROVE  InQuota(r, a)
    BY <1>1, <1>2, InQuotaKept
<1>3. CASE RecvProp(i, m)
  <2>1. Takes(i, m, n) /\ pull_ready_events(i, step_prop(n, m)) /\ m.type = "MsgProp"
      BY <1>3 DEF RecvProp
  <2>2. m.entries[1].value \in Payload
    <3>1. m.entries \in Seq(EntryType) /\ Len(m.entries) = 1
        BY <1>1, <2>1, MessageFields DEF TypeInv
    <3>2. m.entries[1] \in EntryType
        BY <3>1
    <3> QED BY <3>2 DEF EntryType
  <2> QED BY <1>1, <2>1, <2>2, StepPropQuota
<1>4. CASE RecvVote(i, m)
  <2>1. Takes(i, m, n) /\ pull_ready_events(i, handle_vote(n, m))
      BY <1>4 DEF RecvVote
  <2> QED BY <1>1, <1>2, <2>1, HandleVoteKept
<1>5. CASE RecvVoteResp(i, m)
  <2>1. /\ Takes(i, m, n) /\ pull_ready_events(i, handle_vote_resp(n, m))
        /\ n.state # "Leader"
      BY <1>5 DEF RecvVoteResp
  <2>2. m.from \in Server /\ m.reject \in BOOLEAN
      BY <1>1, <2>1, MessageFields, Zenon DEF MessageType
  <2>3. n.uncommitted = 0
      BY <1>1, <2>1 DEF InQuota
  <2> HIDE DEF n
  <2>4. InQuota(handle_vote_resp(n, m), a)
      BY <1>1, <2>1, <2>2, <2>3, VoteRespQuota
  <2> QED BY <2>1, <2>4
<1>6. CASE RecvApp(i, m) \/ RecvHeartbeat(i, m)
  <2> DEFINE h == heard_leader(n, m)
  <2>1. /\ Takes(i, m, n) /\ n.state # "Leader"
        /\ \/ pull_ready_events(i, handle_append_entries(h, m))
           \/ pull_ready_events(i, handle_heartbeat(h, m))
      BY <1>6 DEF RecvApp, RecvHeartbeat
  <2>2. Named(n) /\ n.uncommitted = 0 /\ a \in Nat
      BY <1>1, <2>1 DEF InQuota
  <2> HIDE DEF n
  <2>3. Named(h) /\ h.uncommitted = 0
    <3> DEFINE r == [n EXCEPT !.lapsed = FALSE, !.lead = m.from]
               f == become_follower(n, m.term, m.from)
    <3>1. h \in {r, f}
        BY Zenon DEF heard_leader
    <3>2. Kept(n, r)
        BY <2>2, KeptExcept
    <3> HIDE DEF r
    <3>3. Named(r) /\ r.uncommitted = 0
        BY <2>2, <3>2, KeptNamed DEF Kept
    <3>4. Named(f) /\ f.uncommitted = 0
        BY <2>2, FollowerQuota
    <3> QED BY <3>1, <3>3, <3>4
  <2> HIDE DEF h
  <2>4. InQuota(handle_append_entries(h, m), a)
      BY <2>2, <2>3, AppendEntriesQuota
  <2>5. InQuota(handle_heartbeat(h, m), a)
      BY <2>2, <2>3, EmptyQuota, HandleHeartbeatKept, InQuotaKept
  <2> QED BY <2>1, <2>4, <2>5
<1>7. CASE RecvAppResp(i, m)
  <2>1. Takes(i, m, n) /\ pull_ready_events(i, handle_app_resp(n, m))
      BY <1>7 DEF RecvAppResp
  <2> QED BY <1>1, <1>2, <2>1, AppRespKept
<1>8. CASE RecvHeartbeatResp(i, m)
  <2>1. Takes(i, m, n) /\ pull_ready_events(i, handle_heartbeat_resp(n, m))
      BY <1>8 DEF RecvHeartbeatResp
  <2> QED BY <1>1, <1>2, <2>1, HeartbeatRespKept
<1>9. CASE RecvTransferLeader(i, m)
  <2>1. Takes(i, m, n) /\ pull_ready_events(i, step_transfer(n, m))
      BY <1>9 DEF RecvTransferLeader
  <2> QED BY <1>1, <1>2, <2>1, StepTransferKept
<1>10. CASE RecvTimeoutNow(i, m)
  <2>1. /\ Takes(i, m, n) /\ pull_ready_events(i, campaign_election(n))
        /\ n.state # "Leader"
      BY <1>10 DEF RecvTimeoutNow
  <2> QED BY <1>1, <2>1, CampaignQuota
<1>11. CASE RecvUnhandled(i, m)
  <2>1. Takes(i, m, n) /\ pull_ready_events(i, n)
      BY <1>11 DEF RecvUnhandled
  <2> QED BY <1>1, <2>1
<1>12. CASE RecvStale(i, m)
  <2> DEFINE s == send(node[i], {Reply(m, "MsgAppResp")})
             r == reject_vote(node[i], m)
  <2>1. pull_ready_events(i, s) \/ pull_ready_events(i, r)
      BY <1>12 DEF RecvStale
  <2>2. Named(node[i]) /\ InQuota(node[i], a)
      BY QuotaStart DEF InQuota
  <2>3. InQuota(s, a) /\ InQuota(r, a)
      BY <2>2, SendKept, HandleVoteKept, InQuotaKept
  <2> QED BY <2>1, <2>3
<1> QED BY <1>3, <1>4, <1>5, <1>6, <1>7, <1>8, <1>9, <1>10, <1>11, <1>12 DEF Receive

LEMMA NextQuota ==
    ASSUME TypeInv, QuotaInv, Next
    PROVE  \E i \in Server :
              \/ \E n : InQuota(n, node[i].committed) /\ pull_ready_events(i, n)
              \/ Restart(i)
<1>1. PICK i \in Server :
        \/ Hup(i)
        \/ Lapse(i)
        \/ \E due \in BOOLEAN : Beat(i, due)
        \/ \E v \in Value : Propose(i, v)
        \/ \E j \in Server : TransferLeader(i, j) \/ Unreachable(i, j)
        \/ Restart(i)
        \/ \E m \in net : Receive(i, m)
    BY DEF Next
<1> DEFINE a == node[i].committed
           o == node[i]
<1>2. NodeOK(o) /\ InQuota(o, a) /\ a \in Nat /\ a <= Len(o.log) /\ Named(o)
    BY QuotaStart DEF InQuota
<1>3. ASSUME NEW r, Kept(o, r)
      PROVE  InQuota(r, a)
    BY <1>2, <1>3, InQuotaKept
<1>4. CASE Hup(i)
  <2> DEFINE n == [o EXCEPT !.lapsed = FALSE]
  <2>1. /\ o.state # "Leader"
        /\ \/ pull_ready_events(i, campaign_pre_election(n))
           \/ pull_ready_events(i, campaign_election(n))
      BY <1>4 DEF Hup
  <2>2. Quiet(o, n) /\ Kept(o, n)
    <3>1. Nil \in Id
        BY DEF Id
    <3> QED BY <1>2, <3>1, MarksQuiet, KeptExcept
  <2> HIDE DEF n
  <2>3. NodeOK(n) /\ n.state # "Leader" /\ n.uncommitted = 0 /\ a <= Len(n.log)
      BY <1>2, <2>1, <2>2 DEF Quiet, Kept, InQuota
  <2> QED BY <1>2, <2>1, <2>3, CampaignQuota, PreCampaignQuota
<1>5. CASE Lapse(i)
  <2>1. pull_ready_events(i, [o EXCEPT !.lapsed = TRUE])
      BY <1>5 DEF Lapse
  <2> QED BY <1>2, <1>3, <2>1, KeptExcept
<1>6. ASSUME NEW due \in BOOLEAN, Beat(i, due)
      PROVE  \E n : InQuota(n, a) /\ pull_ready_events(i, n)
  <2> DEFINE f == become_follower(o, o.term, Nil)
             t == [o EXCEPT !.transferee = Nil]
             n == IF ~due THEN o
                  ELSE IF CheckQuorum /\ ~check_quorum_active(o) THEN f ELSE t
  <2>1. pull_ready_events(i, IF n.state = "Leader" THEN bcast_heartbeat(n) ELSE n)
      BY <1>6 DEF Beat
  <2>2. InQuota(f, a)
      BY <1>2, FollowerQuota, EmptyQuota
  <2>3. InQuota(t, a)
      BY <1>2, <1>3, KeptExcept
  <2> HIDE DEF f, t
  <2>4. InQuota(n, a)
      BY <1>2, <2>2, <2>3, Zenon
  <2> HIDE DEF n
  <2>5. InQuota(bcast_heartbeat(n), a)
      BY <2>4, BcastHeartbeatKept, InQuotaKept DEF InQuota
  <2> QED BY <2>1, <2>4, <2>5
<1>7. ASSUME NEW v \in Value, Propose(i, v)
      PROVE  \E n : InQuota(n, a) /\ pull_ready_events(i, n)
  <2> DEFINE e == <<Entry(0, v)>>
             m == [Message("MsgProp", Nil) EXCEPT !.entries = e]
  <2>1. pull_ready_events(i, step_prop(o, m))
      BY <1>7 DEF Propose
  <2>2. m.entries = e
      BY DEF Message
  <2>3. e[1].value \in Payload
      BY DEF Entry, Payload
  <2> HIDE DEF m, e
  <2> QED BY <1>2, <2>1, <2>2, <2>3, StepPropQuota
<1>8. ASSUME NEW j \in Server, TransferLeader(i, j)
      PROVE  \E n : InQuota(n, a) /\ pull_ready_events(i, n)
  <2> DEFINE m == [Message("MsgTransferLeader", Nil) EXCEPT !.from = j]
  <2>1. pull_ready_events(i, step_transfer(o, m))
      BY <1>8 DEF TransferLeader
  <2> HIDE DEF m
  <2> QED BY <1>2, <1>3, <2>1, StepTransferKept
<1>9. ASSUME NEW j \in Server, Unreachable(i, j)
      PROVE  \E n : InQuota(n, a) /\ pull_ready_events(i, n)
  <2> DEFINE r == [o EXCEPT !.prs[j] = become_probe(@)]
             x == become_probe(o.prs[j])
  <2>1. pull_ready_events(i, r)
      BY <1>9 DEF Unreachable
  <2>2. r = [o EXCEPT !.prs[j] = x]
      BY Zenon
  <2> HIDE DEF r, x
  <2>3. Kept(o, r)
      BY <1>2, <2>2, KeptProgress
  <2> QED BY <1>3, <2>1, <2>3
<1> QED BY <1>1, <1>4, <1>5, <1>6, <1>7, <1>8, <1>9, ReceiveQuota

(* ready() takes off what it hands out, never more than was counted.       *)
LEMMA ReadyQuota ==
    ASSUME NEW n, NEW a \in Nat, InQuota(n, a), n.log \in Seq(EntryType),
           n.committed \in Nat, n.committed <= Len(n.log)
    PROVE  LET r == reduce_uncommitted_size(n, a)
           IN  /\ r.state = n.state /\ r.log = n.log /\ r.committed = n.committed
               /\ r.state # "Leader" => r.uncommitted = 0
               /\ r.uncommitted <= Behind(n.log, n.committed)
<1> DEFINE size == payload_size(SubSeq(n.log, a + 1, n.committed))
           u == IF size > n.uncommitted THEN 0 ELSE n.uncommitted - size
           r == [n EXCEPT !.uncommitted = u]
<1>1. reduce_uncommitted_size(n, a) = r
    BY DEF reduce_uncommitted_size
<1>2. /\ Behind(n.log, a) \in Nat /\ Behind(n.log, n.committed) \in Nat /\ size \in Nat
      /\ Behind(n.log, a) <= size + Behind(n.log, n.committed)
    BY PayloadSplit
<1> HIDE DEF size
<1>3. n.uncommitted \in Nat /\ n.uncommitted <= Behind(n.log, a)
    BY DEF InQuota
<1>4. u <= Behind(n.log, n.committed) /\ (n.uncommitted = 0 => u = 0)
    BY <1>2, <1>3
<1> HIDE DEF u
<1>5. r.state = n.state /\ r.log = n.log /\ r.committed = n.committed /\ r.uncommitted = u
    BY DEF InQuota, Named
<1> HIDE DEF r
<1> QED BY <1>1, <1>4, <1>5 DEF InQuota

LEMMA RestartQuota ==
    ASSUME NEW i \in Server, NEW d \in DiskType
    PROVE  NewRaft(i, d).uncommitted = 0
<1> DEFINE n == [id |-> i, term |-> d.term, vote |-> d.vote, state |-> "Follower",
                 lead |-> Nil, lapsed |-> FALSE, transferee |-> Nil,
                 votes |-> [j \in Server |-> "none"], log |-> d.log,
                 committed |-> d.committed,
                 prs |-> [j \in Server |-> NewProgress(0, 1)],
                 uncommitted |-> 0, msgs |-> {}, fatal |-> FALSE]
           r == become_follower(n, d.term, Nil)
<1>1. NewRaft(i, d) \in {r, Fatal(r)}
    BY Zenon DEF NewRaft
<1>2. Named(n)
    BY DEF Named
<1> HIDE DEF n
<1>3. Named(r) /\ r.uncommitted = 0
    BY <1>2, FollowerQuota
<1> HIDE DEF r
<1>4. Fatal(r).uncommitted = 0
    BY <1>3, FatalKept DEF Kept
<1> QED BY <1>1, <1>3, <1>4

LEMMA QuotaInvStep ==
    ASSUME TypeInv, QuotaInv, [Next]_vars
    PROVE  QuotaInv'
<1>1. TypeInv'
    BY TypeInvStep
<1>2. CASE UNCHANGED vars
    BY <1>2 DEF vars, QuotaInv, Behind
<1>3. node \in [Server -> NodeType] /\ node' \in [Server -> NodeType]
    BY <1>1 DEF TypeInv, TypeOK
<1>4. ASSUME NEW i \in Server, NEW x, node' = [node EXCEPT ![i] = x],
             /\ x.state # "Leader" => x.uncommitted = 0
             /\ x.uncommitted <= Behind(x.log, x.committed)
      PROVE  QuotaInv'
  <2>1. ASSUME NEW j \in Server
        PROVE  /\ node'[j].state # "Leader" => node'[j].uncommitted = 0
               /\ node'[j].uncommitted <= Behind(node'[j].log, node'[j].committed)
    <3>1. node'[j] = x \/ node'[j] = node[j]
        BY <1>3, <1>4
    <3> QED BY <1>4, <3>1, Zenon DEF QuotaInv
  <2> QED BY <2>1 DEF QuotaInv, Behind
<1>5. ASSUME NEW i \in Server, NEW n, InQuota(n, node[i].committed), pull_ready_events(i, n)
      PROVE  QuotaInv'
  <2> DEFINE a == node[i].committed
             r == reduce_uncommitted_size(n, a)
             x == [r EXCEPT !.msgs = {}]
             f == Fatal(node[i])
  <2>1. CASE n.fatal
    <3>1. node' = [node EXCEPT ![i] = f]
        BY <1>3, <1>5, <2>1 DEF pull_ready_events
    <3>2. Kept(node[i], f) /\ f.committed = node[i].committed
        BY NoEvent, NodeNamed, FatalKept DEF Fatal, Named
    <3> HIDE DEF f
    <3>3. /\ f.state # "Leader" => f.uncommitted = 0
          /\ f.uncommitted <= Behind(f.log, f.committed)
        BY <3>2, Zenon DEF Kept, QuotaInv
    <3> QED BY <1>4, <3>1, <3>3
  <2>2. CASE ~n.fatal
    <3>1. node' = [node EXCEPT ![i] = x]
        BY <1>3, <1>5, <2>2 DEF pull_ready_events
    <3>2. node'[i] = x /\ x \in NodeType /\ x.committed <= Len(x.log)
        BY <1>1, <1>3, <3>1 DEF TypeInv
    <3>3. DOMAIN r = DOMAIN n /\ r.log = n.log /\ r.committed = n.committed
        BY <1>5 DEF reduce_uncommitted_size, InQuota, Named
    <3> HIDE DEF r
    <3>4. Named(n)
        BY <1>5 DEF InQuota
    <3>5. /\ x.state = r.state /\ x.log = n.log /\ x.committed = n.committed
          /\ x.uncommitted = r.uncommitted
        BY <3>3, <3>4 DEF Named
    <3> HIDE DEF x
    <3>6. /\ n.log \in Seq(EntryType) /\ n.committed \in Nat /\ n.committed <= Len(n.log)
      <4>1. x.log \in Seq(EntryType) /\ x.committed \in Nat
          BY <3>2 DEF NodeType
      <4> QED BY <3>2, <3>5, <4>1
    <3>7. a \in Nat
        BY QuotaStart
    <3>8. /\ r.state # "Leader" => r.uncommitted = 0
          /\ r.uncommitted <= Behind(n.log, n.committed)
        BY <1>5, <3>6, <3>7, ReadyQuota DEF r
    <3> QED BY <1>4, <3>1, <3>5, <3>8
  <2> QED BY <2>1, <2>2
<1>6. ASSUME NEW i \in Server, Restart(i)
      PROVE  QuotaInv'
  <2> DEFINE x == NewRaft(i, disk[i])
  <2>1. node' = [node EXCEPT ![i] = x]
      BY <1>6 DEF Restart
  <2>2. NodeOK(x)
      BY NewRaftNode DEF TypeInv, TypeOK
  <2>3. x.uncommitted = 0
      BY RestartQuota DEF TypeInv, TypeOK
  <2> HIDE DEF x
  <2>4. x.log \in Seq(EntryType) /\ x.committed \in Nat
      BY <2>2, NodeFields
  <2>5. 0 <= Behind(x.log, x.committed)
      BY <2>4, BehindType
  <2> QED BY <1>4, <2>1, <2>3, <2>5
<1> QED BY <1>2, <1>5, <1>6, NextQuota

LEMMA QuotaInvInit == Init => QuotaInv
<1>1. SUFFICES ASSUME Init, NEW i \in Server
               PROVE  /\ node[i].uncommitted = 0
                      /\ node[i].uncommitted <= Behind(node[i].log, node[i].committed)
    BY DEF QuotaInv
<1>2. TypeInv
    BY <1>1, TypeInvInit
<1>3. node[i].log \in Seq(EntryType) /\ node[i].committed \in Nat
    BY <1>2, NoEvent, NodeFields
<1>4. node[i] = NewRaft(i, Bootstrap) /\ Bootstrap \in DiskType
    BY <1>1, <1>2, BootstrapDisk DEF Init
<1>5. node[i].uncommitted = 0
    BY <1>4, RestartQuota
<1>6. 0 <= Behind(node[i].log, node[i].committed)
    BY <1>3, BehindType
<1> QED BY <1>5, <1>6

(* Whatever the configuration and however often leaders change, commits    *)
(* jump and servers restart, uncommitted_size_ is never more than the      *)
(* payload of the uncommitted tail: increase_uncommitted_size refuses no   *)
(* proposal of a leader with nothing uncommitted.                          *)
THEOREM QuotaIsSound == Spec => []QuotaNotOverestimated
<1>1. Init => TypeInv /\ QuotaInv
    BY TypeInvInit, QuotaInvInit
<1>2. TypeInv /\ QuotaInv /\ [Next]_vars => TypeInv' /\ QuotaInv'
    BY TypeInvStep, QuotaInvStep
<1>3. QuotaInv => QuotaNotOverestimated
    BY DEF QuotaInv, QuotaNotOverestimated, Behind, last_index
<1> QED BY <1>1, <1>2, <1>3, PTL DEF Spec
=============================================================================
