------------------------------ MODULE Framing -------------------------------
(***************************************************************************)
(* How a result is made to fit one protocol frame (marshalResult and below *)
(* in internal/broker/server.go): output is cut so that its JSON encoding, *)
(* field names and quotes included, stays within MaxFrameBytes.            *)
(*                                                                         *)
(* Output is a redacted text of module Redactor, hence valid UTF-8, which  *)
(* normalizeUTF8 leaves alone.  Of the other fields only the total size    *)
(* matters.                                                                *)
(***************************************************************************)
EXTENDS Integers, Sequences, SequencesExt, FiniteSetsExt

CONSTANTS
    MaxFrame,      \* MaxFrameBytes
    SingleBytes,   \* size of a response with one result, without output and flag
    BatchBytes,    \* size of the response of a batch without its results,
    ResultBytes    \* and of one of them without output and flag

ASSUME FramingAssumption == {MaxFrame, SingleBytes, BatchBytes, ResultBytes} \subseteq Nat

FieldBytes == 10 + 2                                  \* ,"stdout": and the quotes
FlagBytes(truncated) == IF truncated THEN 4 ELSE 5    \* true, false

\* jsonRuneSize, spread over the bytes of the character.
JsonSize(c) == CASE c = "n" -> 2 [] c = "q" -> 6 [] OTHER -> 1
ContentSize(text) == SumFunction([i \in DOMAIN text |-> JsonSize(text[i].c)])

\* jsonEscapedContentSize: exact up to the limit.
JsonEscapedContentSize(text, limit) == Min({ContentSize(text), limit + 1})

Mutant_JsonPrefix(text, budget) ==
    SubSeq(text, 1, Min({budget, Len(text)}))

\* jsonPrefix: the whole characters that fit.
JsonPrefix(text, budget) ==
    SubSeq(text, 1, Max({ k \in 0 .. Len(text) : /\ k = 0 \/ text[k].c \notin {"l", "r1", "r2"}
                                                 /\ ContentSize(SubSeq(text, 1, k)) <= budget }))

Mutant_FitExecuteOutput(stdout, stderr, available) ==
    LET content == available - FieldBytes * Cardinality({ i \in 1 .. 2 : <<stdout, stderr>>[i] # <<>> })
        out == Min({JsonEscapedContentSize(stdout, content), content})
    IN  IF content <= 0 THEN [ stdout |-> <<>>, stderr |-> <<>> ]
        ELSE [ stdout |-> JsonPrefix(stdout, out), stderr |-> JsonPrefix(stderr, content - out) ]

\* fitExecuteOutput: half of the room for each stream, and what one does not need for
\* the other.  A stream without output takes part with size 0.
FitExecuteOutput(stdout, stderr, available) ==
    LET content == available - FieldBytes * Cardinality({ i \in 1 .. 2 : <<stdout, stderr>>[i] # <<>> })
        fullOut == JsonEscapedContentSize(stdout, content)
        fullErr == JsonEscapedContentSize(stderr, content)
        out  == Min({fullOut, content \div 2})
        err  == Min({fullErr, content \div 2})
        more == Min({fullOut - out, content - out - err})
        rest == Min({fullErr - err, content - out - err - more})
    IN  IF content <= 0 THEN [ stdout |-> <<>>, stderr |-> <<>> ]
        ELSE [ stdout |-> JsonPrefix(stdout, out + more), stderr |-> JsonPrefix(stderr, err + rest) ]

-----------------------------------------------------------------------------
(* A result is [stdout, stderr, truncated]; a response its results or an error. *)

Failure == [ ok |-> FALSE, results |-> <<>>, size |-> 0 ]

TextBytes(text) == IF text = <<>> THEN 0 ELSE FieldBytes + ContentSize(text)     \* omitempty
ResultSize(r) == FlagBytes(r.truncated) + TextBytes(r.stdout) + TextBytes(r.stderr)

\* encodedResultResponse and encodedGenericResponse
Encoded(r) == [ ok |-> TRUE, results |-> <<r>>, size |-> SingleBytes + ResultSize(r) ]
EncodedBatch(rs) ==
    [ ok |-> TRUE, results |-> rs, size |-> BatchBytes + SumFunction([i \in DOMAIN rs |-> ResultBytes + ResultSize(rs[i])]) ]

MarshalExecuteResult(r) ==
    LET base == Encoded([ stdout |-> <<>>, stderr |-> <<>>, truncated |-> TRUE ])
        fit  == FitExecuteOutput(r.stdout, r.stderr, MaxFrame - base.size)
    IN  IF Encoded(r).size <= MaxFrame THEN Encoded(r)
        ELSE IF base.size > MaxFrame THEN Failure
        ELSE Encoded([ stdout |-> fit.stdout, stderr |-> fit.stderr, truncated |-> TRUE ])

\* The share of each result in the a-th attempt of marshalBatchExecuteResult.
Share(first, a) == LET share[k \in 0 .. a] == IF k = 0 THEN first ELSE (share[k - 1] * 3) \div 4 IN share[a]

MarshalBatchExecuteResult(rs) ==
    LET blank(r) == [ stdout |-> <<>>, stderr |-> <<>>,
                      truncated |-> r.truncated \/ r.stdout # <<>> \/ r.stderr # <<>> ]
        base  == EncodedBatch([i \in DOMAIN rs |-> blank(rs[i])])
        first == (MaxFrame - base.size) \div Len(rs)
        attempt(a) == EncodedBatch([i \in DOMAIN rs |->
            LET fit == FitExecuteOutput(rs[i].stdout, rs[i].stderr, Share(first, a))
            IN  [base.results[i] EXCEPT !.stdout = fit.stdout, !.stderr = fit.stderr]])
        fitting == { a \in 0 .. 7 : attempt(a).size <= MaxFrame }
    IN  IF EncodedBatch(rs).size <= MaxFrame THEN EncodedBatch(rs)
        ELSE IF base.size > MaxFrame THEN Failure
        ELSE IF rs = <<>> \/ first <= 0 \/ fitting = {} THEN base
        ELSE attempt(Min(fitting))

\* writeResponse: what is too large after all is replaced by an error.
WriteResponse(response) == IF response.size > MaxFrame THEN Failure ELSE response

=============================================================================
