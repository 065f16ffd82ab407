------------------------------- MODULE Output -------------------------------
(***************************************************************************)
(* The way of a command's output to the client: the two bounded writers of *)
(* an SSH session that share one budget (internal/sshclient/client.go),    *)
(* redaction of each stream in executeRemote (internal/broker/service.go)  *)
(* and the frame that carries the result.  Next to it, a StreamRedactor    *)
(* that is written to in chunks and closed.                                *)
(***************************************************************************)
EXTENDS Redactor, Framing

CONSTANTS
    Jobs,     \* what runs: [kind, stdout, stderr, limit]
    Others,   \* results of the other server of a batch
    Pending   \* nothing yet

Streams == {"stdout", "stderr"}
Texts == Seq([ c : STRING, n : Nat ])     \* redacted text, as in module Redactor

ASSUME OutputAssumption ==
    /\ \A j \in Jobs : /\ j.kind \in {"command", "stream"} /\ j.limit \in Nat
                        /\ \A s \in Streams : j[s] \in Seq(Byte)
    /\ \A r \in Others : r \in [ stdout : Texts, stderr : Texts, truncated : BOOLEAN ]

VARIABLES
    job,         \* what runs
    sent,        \* how much of each stream was written
    buffer,      \* boundedWriter.buffer of each stream
    remaining,   \* outputBudget.remaining
    truncated,   \* outputBudget.truncated
    stream,      \* the StreamRedactor
    redacted,    \* the RedactionResult of each stream
    results,     \* the results that are framed
    response     \* what is written to the client

vars == <<job, sent, buffer, remaining, truncated, stream, redacted, results, response>>

Init ==
    /\ job \in Jobs
    /\ sent = [s \in Streams |-> 0]
    /\ buffer = [s \in Streams |-> <<>>]
    /\ remaining = job.limit
    /\ truncated = FALSE
    /\ stream = NewStream
    /\ redacted = Pending
    /\ results = Pending
    /\ response = Pending

-----------------------------------------------------------------------------
Chunk(s, k) == SubSeq(job[s], sent[s] + 1, sent[s] + k)
Written == \A s \in Streams : sent[s] = Len(job[s])

Mutant_Write(s, k) ==
    LET accepted == Min({k, remaining}) IN
    /\ job.kind = "command" /\ sent[s] + k <= Len(job[s])
    /\ sent' = [sent EXCEPT ![s] = @ + k]
    /\ buffer' = [buffer EXCEPT ![s] = @ \o SubSeq(Chunk(s, k), 1, accepted)]
    /\ remaining' = remaining - accepted
    /\ truncated' = (truncated \/ accepted = 0)
    /\ UNCHANGED <<job, stream, redacted, results, response>>

\* boundedWriter.Write by the goroutine that copies the stream.
Write(s, k) ==
    LET accepted == Min({k, remaining}) IN
    /\ job.kind = "command" /\ sent[s] + k <= Len(job[s])
    /\ sent' = [sent EXCEPT ![s] = @ + k]
    /\ buffer' = [buffer EXCEPT ![s] = @ \o SubSeq(Chunk(s, k), 1, accepted)]
    /\ remaining' = remaining - accepted
    /\ truncated' = (truncated \/ accepted < k)
    /\ UNCHANGED <<job, stream, redacted, results, response>>

\* Run has returned, with both copies done: collectResult, and redaction with the
\* same limit for each stream.
Collect ==
    /\ job.kind = "command" /\ Written /\ redacted = Pending
    /\ redacted' = [s \in Streams |-> RedactString(buffer[s], job.limit)]
    /\ UNCHANGED <<job, sent, buffer, remaining, truncated, stream, results, response>>

ExecuteResult ==
    [ stdout |-> redacted.stdout.text, stderr |-> redacted.stderr.text,
      truncated |-> truncated \/ redacted.stdout.truncated \/ redacted.stderr.truncated ]

\* The answer to execute, ...
Respond ==
    /\ job.kind = "command" /\ redacted # Pending /\ response = Pending
    /\ results' = <<ExecuteResult>>
    /\ response' = WriteResponse(MarshalExecuteResult(ExecuteResult))
    /\ UNCHANGED <<job, sent, buffer, remaining, truncated, stream, redacted>>

\* ... and the answer to a batch with one more server.
RespondBatch(other) ==
    /\ job.kind = "command" /\ redacted # Pending /\ response = Pending
    /\ results' = <<ExecuteResult, other>>
    /\ response' = WriteResponse(MarshalBatchExecuteResult(results'))
    /\ UNCHANGED <<job, sent, buffer, remaining, truncated, stream, redacted>>

\* StreamRedactor.Write and Close.
StreamChunk(k) ==
    /\ job.kind = "stream" /\ sent.stdout + k <= Len(job.stdout)
    /\ sent' = [sent EXCEPT !.stdout = @ + k]
    /\ stream' = StreamWrite(stream, Chunk("stdout", k), job.limit)
    /\ UNCHANGED <<job, buffer, remaining, truncated, redacted, results, response>>

CloseStream ==
    /\ job.kind = "stream" /\ Written /\ redacted = Pending
    /\ redacted' = [s \in {"stdout"} |-> StreamClose(stream, job.limit)]
    /\ UNCHANGED <<job, sent, buffer, remaining, truncated, stream, results, response>>

Next ==
    \/ \E s \in Streams : \E k \in 1 .. Len(job[s]) : Write(s, k)
    \/ \E k \in 1 .. Len(job.stdout) : StreamChunk(k)
    \/ Collect \/ Respond \/ CloseStream
    \/ \E other \in Others : RespondBatch(other)

Spec == Init /\ [][Next]_vars

-----------------------------------------------------------------------------
(* Correctness. *)

\* However the text is cut into chunks, a StreamRedactor shows what RedactString
\* shows of the whole: it finds the credentials that start before the limit and end
\* behind the lookahead, in bytes it does not keep.
StreamAgrees ==
    job.kind = "stream" /\ redacted # Pending => redacted.stdout = RedactString(job.stdout, job.limit)

\* The user and password of every URL of a text: up to the first "@" of its
\* authority, both not empty.
Userinfo(x) ==
    UNION { i + 1 .. First(x, i + 1, Terminators \cup {"@"}) - 1 :
            i \in { j \in DOMAIN x :
                LET end   == First(x, j + 1, Terminators \cup {"@"})
                    colon == First(x, j + 1, {":"})
                IN  /\ x[j] = "S" /\ end <= Len(x) /\ x[end] = "@"
                    /\ j + 1 < colon /\ colon < end - 1 } }

\* No byte of the user or the password of a URL is shown, also when the limit falls
\* into it and its "@" is nowhere near: of the text the redactor was given, in ASCII.
CredentialHidden ==
    redacted # Pending =>
        \A s \in DOMAIN redacted :
            LET x == IF job.kind = "stream" THEN job.stdout ELSE buffer[s] IN
            {"l", "t"} \cap ToSet(x) = {} =>
                \A i \in DOMAIN redacted[s].text :
                    redacted[s].text[i].c # "*" => redacted[s].text[i].n \notin Userinfo(x)

\* The counts of a result are the markers in its text: what a later pass hides
\* together with an earlier marker is counted once.
CountsMatch ==
    redacted # Pending => \A s \in DOMAIN redacted : redacted[s].counts = redacted[s].markers

\* The response is a frame within its limit, and an error only when not even an
\* empty result fits: the cut of fitExecuteOutput is never too small.
FrameFits ==
    response # Pending =>
        IF response.ok THEN response.size <= MaxFrame
        ELSE MaxFrame < IF Len(results) = 1 THEN SingleBytes + 5 ELSE BatchBytes + 2 * (ResultBytes + 5)

\* A result that is not marked as truncated is complete: the redaction of all that
\* the command wrote, through the shared budget, the growth of markers and the frame.
TruncationReported ==
    response # Pending =>
        \A i \in DOMAIN response.results :
            ~response.results[i].truncated =>
                IF i = 1
                THEN \A s \in Streams : response.results[i][s] = RedactString(job[s], job.limit).text
                ELSE response.results[i] = results[i]

\* A stream is cut only by what the other one takes, and of the other one only the
\* larger half of the room counts: its next character does not fit beside that.
FairShare ==
    response # Pending /\ response.ok /\ Len(results) = 1 =>
        LET r == results[1]
            content == MaxFrame - (SingleBytes + 4) - FieldBytes * Cardinality({ s \in Streams : r[s] # <<>> })
            next(text, k) == CASE text[k].c = "l" -> 2 [] text[k].c = "r1" -> 3 [] OTHER -> JsonSize(text[k].c)
            uncut(s, t) == LET shown == response.results[1][s] IN
                \/ Len(shown) = Len(r[s])
                \/ content < ContentSize(shown) + next(r[s], Len(shown) + 1)
                             + Min({ContentSize(r[t]), content - content \div 2})
        IN  content > 0 => uncut("stdout", "stderr") /\ uncut("stderr", "stdout")

=============================================================================
