----------------------------- MODULE AbstractLog -----------------------------
(***************************************************************************)
(* What the log of one server promises to the Raft state machine above it  *)
(* and to the key-value store below it: one log, of which a prefix is      *)
(* committed and a shorter prefix has been handed to the store, in order   *)
(* and exactly once.  Only the uncommitted suffix may ever be replaced,    *)
(* and only what the store already has may be forgotten.                   *)
(*                                                                         *)
(* An entry is represented by its term.  base is the position before the   *)
(* first entry still held (its index and its term).                        *)
(***************************************************************************)
EXTENDS Integers, Sequences

VARIABLES base, ents, committed, delivered

vars == <<base, ents, committed, delivered>>

last == base.index + Len(ents)

(* delivered[i] is entry i as the store received it; 0 when the store got  *)
(* it inside a snapshot.                                                   *)
Init ==
    /\ base \in [index : Nat, term : Nat]
    /\ ents \in Seq(Nat \ {0})
    /\ committed \in base.index .. last
    /\ delivered = [i \in 1..base.index |-> 0]

(* Entries after a position that is not below the commit index are         *)
(* replaced by one or more new ones; what is then committed grows.         *)
Write ==
    \E after \in committed..last, n \in 1 .. Len(ents') :
        /\ after + n = base.index + Len(ents')
        /\ \A k \in 1 .. after - base.index : ents'[k] = ents[k]
        /\ committed' \in committed .. after + n
        /\ UNCHANGED <<base, delivered>>

Commit ==
    /\ committed' \in committed+1 .. last
    /\ UNCHANGED <<base, ents, delivered>>

(* The store receives the next committed entries; more may be committed    *)
(* while it applies a configuration change.                                *)
Deliver ==
    /\ Len(delivered) >= base.index
    /\ committed' \in committed..last
    /\ \E n \in Len(delivered)+1 .. committed :
          delivered' = delivered \o SubSeq(ents, Len(delivered) + 1 - base.index,
                                           n - base.index)
    /\ UNCHANGED <<base, ents>>

(* A prefix the store has is forgotten.                                    *)
Compact ==
    \E n \in base.index+1 .. Len(delivered) :
        /\ base' = [index |-> n, term |-> ents[n - base.index]]
        /\ ents' = SubSeq(ents, n - base.index + 1, Len(ents))
        /\ UNCHANGED <<committed, delivered>>

(* A snapshot of a longer committed prefix takes the place of the log...   *)
Restore ==
    /\ base'.index > committed
    /\ ents' = <<>>
    /\ committed' = base'.index
    /\ UNCHANGED delivered

(* ...and reaches the store before any entry after it.                     *)
DeliverSnapshot ==
    /\ Len(delivered) < base.index
    /\ delivered' = [i \in 1..base.index |-> 0]
    /\ UNCHANGED <<base, ents, committed>>

Next == Write \/ Commit \/ Deliver \/ Compact \/ Restore \/ DeliverSnapshot

Spec == Init /\ [][Next]_vars
=============================================================================
