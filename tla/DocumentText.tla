----------------------------- MODULE DocumentText -----------------------------
(***************************************************************************)
(* The text of one mirrored buffer and its line index: how an LSP position *)
(* becomes a byte offset, how an edit repairs the index in place, and how  *)
(* a range is read through an index without reading the file               *)
(* (server/src/lsp/documents.rs).                                          *)
(*                                                                         *)
(* A text is the sequence of its UTF-8 bytes, as in a Rust String.  Five   *)
(* characters stand for all: a letter, a line feed, a carriage return, a   *)
(* character of two bytes and one UTF-16 unit (bytes "e", "c"), and one of *)
(* four bytes and two units ("p", "c", "c", "c").  An offset o is the      *)
(* number of bytes before it, as in the code, so byte o is text[o + 1].    *)
(*                                                                         *)
(* `editor` is the same buffer as the editor has it: its edits are made by *)
(* the definition of a position, with no index at all.                     *)
(***************************************************************************)
EXTENDS Integers, Sequences, FiniteSets

CONSTANTS
    Inserts,        \* texts the editor inserts, and opens a buffer with
    MaxBytes,       \* bound: length of a text
    MaxLine,        \* bound: positions the editor sends
    MaxCharacter

Letter == <<"x">>
LineFeed == <<"LF">>
Return == <<"CR">>
TwoBytes == <<"e", "c">>
FourBytes == <<"p", "c", "c", "c">>

Bytes == {"x", "LF", "CR", "e", "p", "c"}

VARIABLES
    doc,      \* the Document: its text and its line_starts
    editor    \* the editor's text

vars == <<doc, editor>>

Position == [line : 0..MaxLine, character : 0..MaxCharacter]
Ranges   == [start : Position, end : Position]

\* str::is_char_boundary, which every slice of a String panics without.
IsCharBoundary(text, o) == o = Len(text) \/ text[o + 1] # "c"

\* How many bytes of its character follow a byte that begins one.
Follow(byte) == CASE byte = "e" -> 1 [] byte = "p" -> 3 [] OTHER -> 0

\* What a String holds.
WellFormed(text) ==
    /\ IsCharBoundary(text, 0)
    /\ \A i \in DOMAIN text : text[i] # "c" =>
          LET next == i + Follow(text[i])
          IN  /\ next <= Len(text)
              /\ \A k \in i + 1 .. next : text[k] = "c"
              /\ IsCharBoundary(text, next)

ASSUME BoundsAssumption == MaxBytes \in Nat /\ MaxLine \in Nat /\ MaxCharacter \in Nat
ASSUME InsertsAssumption ==
    Inserts \subseteq {t \in Seq(Bytes) : WellFormed(t) /\ Len(t) <= MaxBytes}

\* UTF-16 units of the characters that begin in text[from + 1 .. to].
Units(text, from, to) ==
    Cardinality({i \in from + 1 .. to : text[i] # "c"})
      + Cardinality({i \in from + 1 .. to : text[i] = "p"})

-----------------------------------------------------------------------------
(* The line index *)

\* The line of an offset: how many line feeds are before it.
LineOf(text, o) == Cardinality({i \in 1..o : text[i] = "LF"})

\* match_indices('\n'): the offset behind each line feed, in order.
LineFeeds(text) ==
    [k \in 1..LineOf(text, Len(text)) |->
        CHOOSE i \in 1..Len(text) : text[i] = "LF" /\ LineOf(text, i) = k]

compute_line_starts(text) == <<0>> \o LineFeeds(text)

NewDocument(text) == [text |-> text, line_starts |-> compute_line_starts(text)]

\* partition_point(|&s| s <= o)
StartsUpTo(starts, o) == Cardinality({i \in DOMAIN starts : starts[i] <= o})

\* What splice makes of the text, and of line starts cut at head and tail.
Spliced(d, start, end, inserted, head, tail, by) ==
    [text |-> SubSeq(d.text, 1, start) \o inserted \o SubSeq(d.text, end + 1, Len(d.text)),
     line_starts |->
        SubSeq(d.line_starts, 1, head)
          \o [i \in DOMAIN LineFeeds(inserted) |-> start + LineFeeds(inserted)[i]]
          \o [i \in 1 .. Len(d.line_starts) - tail |-> d.line_starts[tail + i] + by]]

\* Mutants of splice: the second bound is taken as exclusive; without a line feed the
\* tail does not slide.
SpliceExclusive(d, start, end, inserted) ==
    LET head == StartsUpTo(d.line_starts, start)
        tail == StartsUpTo(d.line_starts, end - 1)
    IN  Spliced(d, start, end, inserted, head, IF head > tail THEN head ELSE tail,
                Len(inserted) - (end - start))
SpliceKeepsTail(d, start, end, inserted) ==
    LET head == StartsUpTo(d.line_starts, start)
        tail == StartsUpTo(d.line_starts, end)
    IN  Spliced(d, start, end, inserted, head, tail,
                IF LineFeeds(inserted) = <<>> THEN 0 ELSE Len(inserted) - (end - start))

\* The line starts in (start, end] go, those behind them slide.
splice(d, start, end, inserted) ==
    LET head == StartsUpTo(d.line_starts, start)
        tail == StartsUpTo(d.line_starts, end)
    IN  Spliced(d, start, end, inserted, head, tail, Len(inserted) - (end - start))

-----------------------------------------------------------------------------
(* Positions *)

\* char_pos_to_byte_pos in text[start + 1 .. end]: the character the unit falls into,
\* or the end of the line if it falls exactly there, or nothing.
char_pos_to_byte_pos(text, start, end, units) ==
    {o \in start..end :
        /\ IsCharBoundary(text, o)
        /\ Units(text, start, o) <= units
        /\ IF o = end THEN Units(text, start, o) = units
                      ELSE units < Units(text, start, o + 1)}

\* Mutant of EndOfLine: the terminator is part of the line.
EndWithTerminator(text, start, next) == next

\* The line without its terminator.
EndOfLine(text, start, next) ==
    LET noLF == IF next > start /\ text[next] = "LF" THEN next - 1 ELSE next
    IN  IF noLF > start /\ text[noLF] = "CR" THEN noLF - 1 ELSE noLF

offset_of(d, p) ==
    IF p.line >= Len(d.line_starts) THEN Len(d.text)
    ELSE LET start == d.line_starts[p.line + 1]
             next  == IF p.line + 1 < Len(d.line_starts) THEN d.line_starts[p.line + 2]
                                                         ELSE Len(d.text)
             end   == EndOfLine(d.text, start, next)
             at    == char_pos_to_byte_pos(d.text, start, end, p.character)
         IN  IF at = {} THEN end ELSE CHOOSE o \in at : TRUE

\* Both ends of a range; an inverted one is empty.
Span(d, range) ==
    LET start == offset_of(d, range.start)
        end   == offset_of(d, range.end)
    IN  [start |-> start, end |-> IF end < start THEN start ELSE end]

text_in_range(d, range) ==
    SubSeq(d.text, Span(d, range).start + 1, Span(d, range).end)

\* DiskIndex::read_range: the lines the range names, cut out of the file by the index,
\* and the range moved to them.
Rebase(range) ==
    [start |-> [line |-> 0, character |-> range.start.character],
     end   |-> [line |-> IF range.end.line < range.start.line THEN 0
                         ELSE range.end.line - range.start.line,
                character |-> range.end.character]]

\* Mutant of Window: it ends where the last line starts.
ShortWindow(starts, len, range) ==
    [start |-> starts[range.start.line + 1],
     end   |-> LET e == IF range.end.line < Len(starts) THEN starts[range.end.line + 1] ELSE len
               IN  IF e < starts[range.start.line + 1] THEN starts[range.start.line + 1] ELSE e]

Window(starts, len, range) ==
    [start |-> starts[range.start.line + 1],
     end   |-> LET e == IF range.end.line + 1 < Len(starts) THEN starts[range.end.line + 2]
                                                            ELSE len
               IN  IF e < starts[range.start.line + 1] THEN starts[range.start.line + 1] ELSE e]

read_range(starts, len, file, range) ==
    IF range.start.line >= Len(starts) THEN <<>>
    ELSE LET w == Window(starts, len, range)
         IN  text_in_range(NewDocument(SubSeq(file, w.start + 1, w.end)), Rebase(range))

-----------------------------------------------------------------------------
(* The editor's side: a position by its definition *)

\* Where the line of an offset starts, and how far from there it is.
StartOfLine(text, o) == CHOOSE s \in 0..o : /\ s = 0 \/ text[s] = "LF"
                                            /\ \A i \in s + 1 .. o : text[i] # "LF"
ColumnOf(text, o) == Units(text, StartOfLine(text, o), o)

\* Offsets a cursor can have: between two characters, and not inside, nor behind, the
\* terminator of a line.
CursorOffsets(text) ==
    {o \in 0..Len(text) :
        /\ IsCharBoundary(text, o)
        /\ o > 0 /\ text[o] = "CR" => o < Len(text) /\ text[o + 1] # "LF"}

\* The last cursor offset that is not past the position; a line there is none of
\* means the end of the text.
EditorOffset(text, p) ==
    IF p.line > LineOf(text, Len(text)) THEN Len(text)
    ELSE CHOOSE o \in CursorOffsets(text) :
            /\ LineOf(text, o) = p.line
            /\ ColumnOf(text, o) <= p.character
            /\ \A q \in CursorOffsets(text) :
                  LineOf(text, q) = p.line /\ ColumnOf(text, q) <= p.character => q <= o

EditorEdit(text, range, inserted) ==
    LET start == EditorOffset(text, range.start)
        end   == EditorOffset(text, range.end)
    IN  SubSeq(text, 1, start) \o inserted
          \o SubSeq(text, (IF end < start THEN start ELSE end) + 1, Len(text))

-----------------------------------------------------------------------------
TypeOK ==
    /\ doc.text \in Seq(Bytes) /\ WellFormed(doc.text) /\ Len(doc.text) <= MaxBytes
    /\ doc.line_starts \in Seq(0..MaxBytes)
    /\ editor \in Seq(Bytes)

\* DocumentStore::open
Init == \E t \in Inserts :
            /\ editor = t
            /\ doc = NewDocument(t)

\* One change of a didChange batch, without a range ...
SetText(t) ==
    /\ editor' = t
    /\ doc' = NewDocument(t)

\* ... and with one.
Edit(range, t) ==
    /\ Len(EditorEdit(editor, range, t)) <= MaxBytes
    /\ editor' = EditorEdit(editor, range, t)
    /\ doc' = splice(doc, Span(doc, range).start, Span(doc, range).end, t)

Next == \E t \in Inserts : SetText(t) \/ \E range \in Ranges : Edit(range, t)

Spec == Init /\ [][Next]_vars

-----------------------------------------------------------------------------
(* Safety *)

\* The mirror never drifts from the editor's text, whatever the edits, at boundaries
\* of lines and of characters, past the end, and with their ends swapped.
MirrorIsEditors == doc.text = editor

\* The line index that splice repairs in place is the one a full rebuild would give, and
\* what it is an index of stays text: no edit cuts a character.
IndexIsExact == TypeOK /\ doc.line_starts = compute_line_starts(doc.text)

\* A position means to the server what it means to the editor, and no slice of the
\* text is cut inside a character (that would be a panic).
OffsetsAreTheEditors ==
    \A p \in Position :
        /\ offset_of(doc, p) = EditorOffset(doc.text, p)
        /\ IsCharBoundary(doc.text, offset_of(doc, p))

\* Reading just the lines a range names, through the index, gives what reading the
\* whole text would.
WindowIsEnough ==
    \A range \in Ranges :
        read_range(doc.line_starts, Len(doc.text), doc.text, range) = text_in_range(doc, range)
=============================================================================
