------------------------------ MODULE Redactor ------------------------------
(***************************************************************************)
(* Redaction of command output (internal/policy/redactor.go): RedactString *)
(* for a whole text, and the StreamRedactor that must find the same in     *)
(* chunks, both with a limit on what is shown and a lookahead behind it.   *)
(*                                                                         *)
(* A text is a sequence of bytes, each named by what the code tells apart: *)
(*   "S"  the scheme of a URL with its "://"                               *)
(*   "P"  the key of an assignment with its "=" (password=)                *)
(*   ":" "@"  as in a URL                                                  *)
(*   "?"  ends the authority of a URL, but not for the regular expression  *)
(*   "n"  a line feed: white space, which ends an authority too            *)
(*   "u"  any other byte; "q" one that JSON escapes                        *)
(*   "l" "t"  the two bytes of a character, invalid without each other     *)
(* "S" and "P" count as one byte and are never cut.  The categories are    *)
(* URL credentials and assignments; the other four go through the same     *)
(* passes.                                                                 *)
(***************************************************************************)
EXTENDS Naturals, Sequences, SequencesExt, FiniteSetsExt

CONSTANTS
    Lookahead,    \* redactionLookaheadBytes
    MarkerBytes   \* the length of [REDACTED:...]

ASSUME RedactorAssumption == Lookahead \in Nat /\ MarkerBytes \in Nat \ {0}

Byte == {"S", "P", ":", "@", "?", "n", "u", "q", "l", "t"}
Categories == {"url", "assignment"}
White == {"n"}
Terminators == {"n", "?", "S"}           \* isURLAuthorityTerminator: "S" holds a slash
Stops == White \cup {"@", "S"}           \* what [^/@\s] leaves out

\* The first position from i on with a byte of C, or one past the end.
First(x, i, C) == Min({ j \in i .. Len(x) : x[j] \in C } \cup {Len(x) + 1})

-----------------------------------------------------------------------------
(* The regular expressions, as the intervals they match. *)

\* urlCredentialRE: scheme, user, ":", password, "@".
UrlCredentials(x) ==
    { m \in [ from : { i \in DOMAIN x : x[i] = "S" }, to : { j \in DOMAIN x : x[j] = "@" } ] :
        LET colon == First(x, m.from + 1, Stops \cup {":"}) IN
        /\ colon <= Len(x) /\ x[colon] = ":"
        /\ m.from + 1 < colon
        /\ m.to = First(x, colon + 1, Stops)
        /\ colon + 1 < m.to }

\* incompleteURLRE: the same without "@", up to the end.
IncompleteUrls(x) ==
    { m \in [ from : { i \in DOMAIN x : x[i] = "S" }, to : {Len(x)} ] :
        LET colon == First(x, m.from + 1, Stops \cup {":"}) IN
        /\ colon <= Len(x) /\ x[colon] = ":"
        /\ m.from + 1 < colon
        /\ First(x, colon + 1, Stops) > Len(x) }

\* assignmentRE: a key and the rest of the word.  The leftmost key of a word takes
\* the others with it.
Assignments(x) ==
    { m \in [ from : { i \in DOMAIN x : x[i] = "P" }, to : DOMAIN x ] :
        /\ m.to = First(x, m.from + 1, White) - 1
        /\ m.from < m.to
        /\ \A i \in 1 .. m.from - 1 : x[i] = "P" => First(x, i, White) < m.from }

-----------------------------------------------------------------------------
(* The bytes around the limit. *)

\* urlAuthorityAtBoundary, for strings and for bytes: where the authority starts that
\* the limit cuts, or 0.
UrlAuthorityAtBoundary(x, public) ==
    IF public > Len(x) THEN 0
    ELSE Max({ i + 1 : i \in { i \in 1 .. public - 1 :
                                  x[i] = "S" /\ First(SubSeq(x, 1, public), i + 1, Terminators) > public } } \cup {0})

\* urlCredentialAfterBoundary: the authority goes on behind the limit and has
\* credentials.
UrlCredentialAfterBoundary(x, public) ==
    LET start == UrlAuthorityAtBoundary(x, public)
        end   == First(x, start, Terminators \cup {"@"})
    IN  /\ start > 0 /\ public < Len(x)
        /\ end <= Len(x) /\ x[end] = "@" /\ public < end
        /\ \E i \in start .. end - 1 : x[i] = ":"

\* crossingURLCredentialPrefix: the part before the limit of a match across it.
CrossingUrlCredentialPrefix(x, public) ==
    LET crossing == { m \in UrlCredentials(x) : m.from <= public /\ public < m.to }
    IN  IF public = 0 \/ crossing = {} THEN <<>>
        ELSE SubSeq(x, Min({ m.from : m \in crossing }), public)

-----------------------------------------------------------------------------
(* redactionState.  The bytes of its text carry where they come from: [c, n] is *)
(* the byte c at position n of the input, placeholder n if c is "#", a byte of a  *)
(* replacement character or of marker n otherwise.                              *)

Bytes(text) == [i \in DOMAIN text |-> text[i].c]

\* strings.ToValidUTF8: each run of invalid bytes becomes one character of three.
Invalid(x, i) == \/ x[i] = "l" /\ ~(i < Len(x) /\ x[i + 1] = "t")
                 \/ x[i] = "t" /\ ~(i > 1 /\ x[i - 1] = "l")
ToValidUTF8(x) ==
    FlattenSeq([i \in DOMAIN x |->
        IF ~Invalid(x, i) THEN << [c |-> x[i], n |-> i] >>
        ELSE IF i > 1 /\ Invalid(x, i - 1) THEN <<>>
        ELSE << [c |-> "r1", n |-> 0], [c |-> "r2", n |-> 0], [c |-> "r3", n |-> 0] >>])

NewState(x) == [ text |-> ToValidUTF8(x), replacements |-> <<>>, counts |-> [k \in Categories |-> 0] ]

Mutant_Protect(s, matches, category) ==
    LET index(i) == Len(s.replacements) + Cardinality({ m \in matches : m.from <= i })
    IN  [ text |-> FlattenSeq([i \in DOMAIN s.text |->
                     IF \E m \in matches : i = m.from THEN << [c |-> "#", n |-> index(i)] >>
                     ELSE IF \E m \in matches : i \in m.from .. m.to THEN <<>>
                     ELSE << s.text[i] >>]),
          replacements |-> s.replacements \o [k \in 1 .. Cardinality(matches) |-> [category |-> category, active |-> TRUE]],
          counts |-> [s.counts EXCEPT ![category] = @ + Cardinality(matches)] ]

\* protect: each interval is replaced by a placeholder of its own, and the
\* placeholders inside are consumed.
Protect(s, matches, category) ==
    LET index(i) == Len(s.replacements) + Cardinality({ m \in matches : m.from <= i })
        consumed == { s.text[i].n : i \in { j \in DOMAIN s.text :
                         s.text[j].c = "#" /\ \E m \in matches : j \in m.from .. m.to } }
        active(k) == s.replacements[k].active /\ k \notin consumed
    IN  [ text |-> FlattenSeq([i \in DOMAIN s.text |->
                     IF \E m \in matches : i = m.from THEN << [c |-> "#", n |-> index(i)] >>
                     ELSE IF \E m \in matches : i \in m.from .. m.to THEN <<>>
                     ELSE << s.text[i] >>]),
          replacements |-> [k \in DOMAIN s.replacements |-> [s.replacements[k] EXCEPT !.active = active(k)]]
                           \o [k \in 1 .. Cardinality(matches) |-> [category |-> category, active |-> TRUE]],
          counts |-> [k \in Categories |->
                        s.counts[k] - Cardinality({ r \in consumed : /\ s.replacements[r].active
                                                                     /\ s.replacements[r].category = k })
                                    + IF k = category THEN Cardinality(matches) ELSE 0] ]

\* What the formatters keep of a match: the scheme and "@", the scheme, the key.
Hidden(matches, keepEnd) == { [ from |-> m.from + 1, to |-> m.to - keepEnd ] : m \in matches }

\* protectTrailingCredentialPrefix
ProtectTrailing(s, prefix) ==
    IF prefix = <<>> \/ ~IsSuffix(prefix, Bytes(s.text)) THEN s
    ELSE Protect(s, {[ from |-> Len(s.text) - Len(prefix) + 1, to |-> Len(s.text) ]}, "url")

Render(s) ==
    FlattenSeq([i \in DOMAIN s.text |->
        LET n == s.text[i].n IN
        IF s.text[i].c # "#" THEN << s.text[i] >>
        ELSE IF s.replacements[n].active THEN [b \in 1 .. MarkerBytes |-> [c |-> "*", n |-> n]]
        ELSE <<>>])

\* truncateValidUTF8
Truncate(text, max) ==
    SubSeq(text, 1, Max({ k \in 0 .. max : k = 0 \/ (k <= Len(text) /\ text[k].c \notin {"l", "r1", "r2"}) }))

-----------------------------------------------------------------------------
\* redactBoundedWithBoundary
RedactBounded(x, truncated, prefix, max) ==
    LET urls  == LET s == NewState(x) IN Protect(s, Hidden(UrlCredentials(Bytes(s.text)), 1), "url")
        cut   == IF truncated THEN Protect(urls, Hidden(IncompleteUrls(Bytes(urls.text)), 0), "url") ELSE urls
        tail  == ProtectTrailing(cut, prefix)
        state == Protect(tail, Hidden(Assignments(Bytes(tail.text)), 0), "assignment")
        text  == Render(state)
    IN  [ text |-> Truncate(text, max), counts |-> state.counts, truncated |-> truncated \/ Len(text) > max,
          markers |-> [k \in Categories |->     \* for the properties: the markers before the cut
             Cardinality({ text[i].n : i \in { j \in DOMAIN text :
                text[j].c = "*" /\ state.replacements[text[j].n].category = k } })] ]

Mutant_RedactInspected(x, truncated, across, max) ==
    LET public == Min({Len(x), max})
        match  == IF public < Len(x) THEN CrossingUrlCredentialPrefix(x, public) ELSE <<>>
    IN  RedactBounded(SubSeq(x, 1, public), truncated, match, max)

\* redactInspected
RedactInspected(x, truncated, across, max) ==
    LET public == Min({Len(x), max})
        match  == IF public < Len(x) THEN CrossingUrlCredentialPrefix(x, public) ELSE <<>>
        start  == UrlAuthorityAtBoundary(x, public)
        prefix == IF truncated /\ across /\ match = <<>> /\ start > 0 THEN SubSeq(x, start, public) ELSE match
    IN  RedactBounded(SubSeq(x, 1, public), truncated, prefix, max)

RedactString(x, max) ==
    RedactInspected(SubSeq(x, 1, Min({Len(x), max + Lookahead})), Len(x) > max, UrlCredentialAfterBoundary(x, max), max)

-----------------------------------------------------------------------------
(* StreamRedactor, as a record. *)

NewStream == [ buffer |-> <<>>, truncated |-> FALSE,
               tail |-> [ initialized |-> FALSE, active |-> FALSE, colonSeen |-> FALSE,
                          credentials |-> FALSE, resolved |-> FALSE ] ]

\* observeURLAuthorityByte, for byte b = [c, n] at position n of the stream.
ObserveByte(tail, b, max) ==
    IF tail.resolved \/ ~tail.active THEN tail
    ELSE IF b.c \in Terminators THEN [tail EXCEPT !.resolved = TRUE, !.active = FALSE]
    ELSE IF b.c = ":" THEN [tail EXCEPT !.colonSeen = TRUE]
    ELSE IF b.c = "@" THEN [tail EXCEPT !.credentials = tail.colonSeen /\ max < b.n, !.resolved = TRUE, !.active = FALSE]
    ELSE tail

Mutant_ObserveDropped(tail, buffer, dropped, max) ==
    LET at(x, i) == [j \in DOMAIN x |-> [c |-> x[j], n |-> i + j]]
        start == UrlAuthorityAtBoundary(buffer, max)
    IN  FoldLeft(LAMBDA s, b : ObserveByte(s, b, max),
                 [tail EXCEPT !.initialized = TRUE, !.active = IF tail.initialized THEN @ ELSE start > 0],
                 at(dropped, Len(buffer)))

\* observeDroppedURLBytes: the first bytes that are dropped start the search in the
\* buffer.
ObserveDropped(tail, buffer, dropped, max) ==
    LET at(x, i) == [j \in DOMAIN x |-> [c |-> x[j], n |-> i + j]]
        start == UrlAuthorityAtBoundary(buffer, max)
        seen  == IF tail.initialized \/ start = 0 THEN <<>>
                 ELSE at(SubSeq(buffer, start, Len(buffer)), start - 1)
    IN  FoldLeft(LAMBDA s, b : ObserveByte(s, b, max),
                 [tail EXCEPT !.initialized = TRUE, !.active = IF tail.initialized THEN @ ELSE start > 0],
                 seen \o at(dropped, Len(buffer)))

\* Write
StreamWrite(s, p, max) ==
    LET remaining == max + Lookahead - Len(s.buffer)
        kept    == SubSeq(p, 1, Min({Len(p), remaining}))
        dropped == SubSeq(p, Len(kept) + 1, Len(p))
        buffer  == s.buffer \o kept
    IN  [ buffer |-> buffer,
          truncated |-> s.truncated \/ Len(s.buffer) + Len(p) > max,
          tail |-> IF dropped = <<>> THEN s.tail ELSE ObserveDropped(s.tail, buffer, dropped, max) ]

\* Close
StreamClose(s, max) ==
    RedactInspected(s.buffer, s.truncated, UrlCredentialAfterBoundary(s.buffer, max) \/ s.tail.credentials, max)

=============================================================================
