------------------------------- MODULE Chunking -------------------------------
(***************************************************************************)
(* How a document is cut into spans (src/urdyn/_chunk.py,                  *)
(* chunk_text_spans()): a short text is one span, a longer one is cut at   *)
(* its blank lines, and a paragraph that is itself too long is cut at      *)
(* blanks, or anywhere.                                                    *)
(*                                                                         *)
(* A span << start, end >> holds the characters from start to before end,  *)
(* counted from 0.  A character is a blank of three kinds (Tab stands for  *)
(* those that \s matches and the splitter does not skip) or a word, here   *)
(* one character long.  Paragraphs are found as they are needed, which the *)
(* code does before it splits any.                                         *)
(***************************************************************************)
EXTENDS Integers, Sequences

CONSTANTS Words, Space, Newline, Tab,
          MaxChars       \* DEFAULT_CHUNK_MAX_CHARS

Blanks == {Space, Newline, Tab}
Skipped == {Space, Newline}
Texts == Seq(Words \cup Blanks)

ASSUME ChunkAssumption ==
    /\ MaxChars \in Nat \ {0}
    /\ Words \cap Blanks = {}
    /\ Space # Newline /\ Tab \notin Skipped

VARIABLES text,
          cursor,   \* where the search for the next blank line begins
          part,     \* the paragraph being cut, or what is left of it
          spans     \* what has been cut off so far

chunking == << text, cursor, part, spans >>

Length == Len(text)
At(k) == text[k + 1]

NoPart == << >>

ChunkInit ==
    /\ text \in Texts
    /\ cursor = 0
    /\ part = NoPart
    /\ spans = << >>

Chunked == cursor = Length /\ part = NoPart /\ spans # << >>

(* A text that is not too long, an empty one too, is not looked into. *)
Short ==
    /\ spans = << >> /\ part = NoPart
    /\ Length <= MaxChars
    /\ spans' = << << 0, Length >> >>
    /\ cursor' = Length
    /\ UNCHANGED << text, part >>

----------------------------------------------------------------------------
(* _paragraph_spans() *)

(* _PARAGRAPH_SEPARATOR: a newline, blanks and another newline. *)
BlankLine(i, j) ==
    /\ i < j /\ At(i) = Newline /\ At(j) = Newline
    /\ \A k \in i..j : At(k) \in Blanks

(* The leftmost match, and of these the longest. *)
Separates(i, j) ==
    /\ BlankLine(i, j)
    /\ \A i2 \in cursor..(i - 1), j2 \in cursor..(Length - 1) : ~BlankLine(i2, j2)
    /\ \A j2 \in (j + 1)..(Length - 1) : ~BlankLine(i, j2)

Separators == {s \in (cursor..(Length - 1)) \X (cursor..(Length - 1)) : Separates(s[1], s[2])}

(* What precedes the next blank line, if anything does. *)
Paragraph ==
    /\ Length > MaxChars /\ part = NoPart /\ cursor < Length
    /\ \E separator \in Separators :
         /\ part' = IF cursor < separator[1] THEN << cursor, separator[1] >> ELSE NoPart
         /\ cursor' = separator[2] + 1
    /\ UNCHANGED << text, spans >>

LastParagraph ==
    /\ Length > MaxChars /\ part = NoPart /\ cursor < Length
    /\ Separators = {}
    /\ part' = << cursor, Length >>
    /\ cursor' = Length
    /\ UNCHANGED << text, spans >>

(* There is nothing but a blank line. *)
NoParagraph ==
    /\ Length > MaxChars /\ part = NoPart /\ cursor = Length
    /\ spans = << >>
    /\ part' = << 0, Length >>
    /\ UNCHANGED << text, cursor, spans >>

----------------------------------------------------------------------------
(* _hard_split_span() *)

IsLast(k, S) == k \in S /\ \A j \in S : j <= k

(* str.rfind() in what the next span may hold, its first character left    *)
(* out.                                                                    *)
Found(char, start) == {k \in (start + 1)..(start + MaxChars - 1) : At(k) = char}

CutsAt(start, at) ==
    IF Found(Space, start) # {} THEN IsLast(at, Found(Space, start))
    ELSE IF Found(Newline, start) # {} THEN IsLast(at, Found(Newline, start))
    ELSE at = start + MaxChars

(* The blanks at a cut belong to no span.  The mutant skips one character. *)
Resumes_Next(at, start, end) == start = at + 1

Resumes(at, start, end) ==
    /\ start \in at..end
    /\ \A k \in at..(start - 1) : At(k) \in Skipped
    /\ start < end => At(start) \notin Skipped

Cut ==
    /\ part # NoPart
    /\ part[2] - part[1] > MaxChars
    /\ \E at \in 0..Length, start \in 0..Length :
         /\ CutsAt(part[1], at)
         /\ Resumes(at, start, part[2])
         /\ spans' = Append(spans, << part[1], at >>)
         /\ part' = << start, part[2] >>
    /\ UNCHANGED << text, cursor >>

(* A paragraph that fits, or the last piece of one. *)
Keep ==
    /\ part # NoPart
    /\ part[2] - part[1] <= MaxChars
    /\ spans' = Append(spans, part)
    /\ part' = NoPart
    /\ UNCHANGED << text, cursor >>

ChunkNext == Short \/ Paragraph \/ LastParagraph \/ NoParagraph \/ Cut \/ Keep

ChunkSpec == ChunkInit /\ [][ChunkNext]_chunking

----------------------------------------------------------------------------
(* Properties *)

Positions == 0..Length

ChunkTypeOK ==
    /\ text \in Texts
    /\ cursor \in Positions
    /\ part = NoPart \/ part \in Positions \X Positions
    /\ spans \in Seq(Positions \X Positions)

Within(k, span) == span[1] <= k /\ k < span[2]

(* Spans are slices that follow one another, none longer than allowed.     *)
SpansFit ==
    /\ \A n \in DOMAIN spans :
         spans[n][1] <= spans[n][2] /\ spans[n][2] - spans[n][1] <= MaxChars
    /\ \A m, n \in DOMAIN spans : m < n => spans[m][2] <= spans[n][1]

(* No word is lost: whatever the cuts skip, each is in a span. *)
NothingLost ==
    Chunked => \A k \in 0..(Length - 1) :
        At(k) \in Words => \E n \in DOMAIN spans : Within(k, spans[n])

(* Words with a blank line between them do not share a span, unless the    *)
(* text is short enough not to be cut.                                     *)
ParagraphsApart ==
    Length > MaxChars =>
        \A n \in DOMAIN spans : \A k, l \in 0..(Length - 1) :
            /\ Within(k, spans[n]) /\ Within(l, spans[n])
            /\ At(k) \in Words /\ At(l) \in Words /\ k < l
            => ~\E i, j \in k..l : /\ i < j /\ At(i) = Newline /\ At(j) = Newline
                                   /\ \A h \in i..j : At(h) \in Blanks

(* What is asked of a chunking: slices in order, of one paragraph each,    *)
(* that hold every word of the document.                                   *)
SpansPartition == SpansFit /\ NothingLost /\ ParagraphsApart
=============================================================================
