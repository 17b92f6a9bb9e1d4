---------------------------- MODULE MCRedisStore ----------------------------
(***************************************************************************)
(* Two keys, the empty one and one of two characters, and the patterns of  *)
(* KEYS up to three tokens long.                                           *)
(***************************************************************************)
EXTENDS RedisKeys

CONSTANTS v1, v2

TwoKeys == {<<>>, <<"a", "b">>}

OwnCommands   == {SetCommand(<<>>, v1), SetCommand(<<"a", "b">>, v1), DelCommand({<<>>})}
OtherCommits  == {<<0, SetCommand(<<>>, v2)>>}

Letters == {"a", "b", "c"}

Tokens == {Token(<<"*">>, {}, TRUE),
           Token(<<"?">>, Letters, FALSE),
           Token(<<"a">>, {"a"}, FALSE),
           Token(<<"\\", "b">>, {"b"}, FALSE),
           Token(<<"[", "c", "a", "]">>, {"a", "c"}, FALSE),
           Token(<<"[", "^", "a", "]">>, {"b", "c"}, FALSE),
           Token(<<"[", "c", "-", "b", "]">>, {"b", "c"}, FALSE)}

Globs == UNION {[1..n -> Tokens] : n \in 0..3}
=============================================================================
