----------------------------- MODULE StringMatch -----------------------------
(***************************************************************************)
(* string_match_len (server/redis_store.cpp), the glob matcher behind the  *)
(* KEYS command, and what a pattern means.  A string is a sequence of      *)
(* characters; nocase is 0, as RedisStore::keys passes it.                 *)
(***************************************************************************)
EXTENDS Integers, Sequences

(* The characters in use, in the order of their codes.                     *)
Char == <<"*", "-", "?", "[", "\\", "]", "^", "a", "b", "c">>

Code(c) == CHOOSE i \in DOMAIN Char : Char[i] = c

From(s, k) == SubSeq(s, k, Len(s))

(* The stars at the head of p.                                             *)
Stars(p) == CHOOSE n \in 0..Len(p) :
               /\ \A i \in 1..n : p[i] = "*"
               /\ n = Len(p) \/ p[n + 1] # "*"

Between(c, a, b) == Code(c) \in {i \in 1..Len(Char) :
    \/ Code(a) <= i /\ i <= Code(b)
    \/ Code(b) <= i /\ i <= Code(a)}

(* The loop over the inside of a class: whether c is in it, and what       *)
(* follows its bracket (nothing when the bracket is missing).              *)
RECURSIVE in_class(_, _, _)
in_class(p, c, match) ==
    IF p = <<>> THEN [match |-> match, rest |-> <<>>]
    ELSE IF p[1] = "\\" /\ Len(p) >= 2 THEN in_class(From(p, 3), c, match \/ p[2] = c)
    ELSE IF p[1] = "]" THEN [match |-> match, rest |-> Tail(p)]
    ELSE IF Len(p) >= 3 /\ p[2] = "-"
         THEN in_class(From(p, 4), c, match \/ Between(c, p[1], p[3]))
    ELSE in_class(Tail(p), c, match \/ p[1] = c)

RECURSIVE string_match_len(_, _)

(* What follows once the first character of the string is used up: at the  *)
(* end of the string the stars that are left match nothing.                *)
Advance(p, s) ==
    IF s = <<>> THEN Stars(p) = Len(p) ELSE string_match_len(p, s)


match_star(p, s) ==
    LET q == From(p, Stars(p))
    IN  Len(q) = 1 \/ \E k \in 1..Len(s) : string_match_len(Tail(q), From(s, k))

match_class(p, s) ==
    LET negated == Len(p) > 1 /\ p[2] = "^"
        class   == in_class(From(p, IF negated THEN 3 ELSE 2), s[1], FALSE)
    IN  class.match # negated /\ Advance(class.rest, Tail(s))

string_match_len(p, s) ==
    IF p = <<>> \/ s = <<>> THEN p = <<>> /\ s = <<>>
    ELSE CASE p[1] = "*" -> match_star(p, s)
           [] p[1] = "?" -> Advance(Tail(p), Tail(s))
           [] p[1] = "[" -> match_class(p, s)
           [] p[1] = "\\" /\ Len(p) >= 2 -> p[2] = s[1] /\ Advance(From(p, 3), Tail(s))
           [] OTHER -> p[1] = s[1] /\ Advance(Tail(p), Tail(s))

-----------------------------------------------------------------------------
(* The meaning.  A glob is a sequence of tokens, each of them "any" number *)
(* of characters or one character of a set, with the way it is written.    *)

Token(text, chars, any) == [text |-> text, chars |-> chars, any |-> any]

RECURSIVE Text(_)
Text(glob) == IF glob = <<>> THEN <<>> ELSE Head(glob).text \o Text(Tail(glob))

RECURSIVE Denotes(_, _)
Denotes(glob, s) ==
    IF glob = <<>> THEN s = <<>>
    ELSE IF Head(glob).any
    THEN \E k \in 1..(Len(s) + 1) : Denotes(Tail(glob), From(s, k))
    ELSE s # <<>> /\ Head(s) \in Head(glob).chars /\ Denotes(Tail(glob), Tail(s))
=============================================================================
