------------------------------ MODULE MCOutput ------------------------------
(***************************************************************************)
(* A small instance of Output.  The StreamRedactor reads every text of up  *)
(* to four bytes, and every longer one that starts with a URL, so that the *)
(* limit, the end of the lookahead and the "@" fall anywhere in it.  The   *)
(* commands write every pair of short texts with characters that JSON      *)
(* escapes, that take two bytes or that are invalid, and URLs with         *)
(* credentials that the limit cuts.                                        *)
(***************************************************************************)
EXTENDS Output

CONSTANTS
    AnyLength,      \* bounds on the texts
    UrlLength,
    PairLength

Alphabet == {"S", "P", ":", "@", "?", "n", "u"}
AnyTexts == BoundedSeq(Alphabet, AnyLength)
UrlTexts == { <<"S">> \o x : x \in BoundedSeq({":", "@", "?", "u"}, UrlLength) }
PairTexts == BoundedSeq({"u", "q", "l", "t"}, PairLength)

TestJobs ==
    [ kind : {"stream"}, stdout : AnyTexts \cup UrlTexts, stderr : {<<>>}, limit : {2, 3} ]
    \cup [ kind : {"command"}, stdout : PairTexts, stderr : PairTexts, limit : {2, 4} ]
    \cup [ kind : {"command"}, stdout : BoundedSeq({"S", ":", "@", "u"}, 3), stderr : {<<>>, <<"u">>}, limit : {3} ]

\* The other server of a batch wrote nothing, or more than fits.
Plain(n) == [i \in 1 .. n |-> [c |-> "u", n |-> i]]
TestOthers == { [ stdout |-> Plain(n), stderr |-> <<>>, truncated |-> FALSE ] : n \in {0, 9} }

=============================================================================
