------------------------------ MODULE ChatPanel -----------------------------
(***************************************************************************)
(* The text fields and the chat panel: the editor behind every draft       *)
(* (tui/components/editor.rs), the one row a draft is shown in             *)
(* (composer_body in chat.rs, draft_line in overlay.rs), and the part of   *)
(* the messages that is shown above it (render_transcript in chat.rs).     *)
(*                                                                         *)
(* A text is kept as UTF-8 and edited at byte offsets, while the cursor    *)
(* counts characters.  A character is the number of its bytes, and a byte  *)
(* is a character with the position in it.  The rendering counts one cell  *)
(* per character, as the code does.  A message is the length of its        *)
(* heading and the lengths of the lines of its body.                       *)
(***************************************************************************)
EXTENDS Integers, SequencesExt, FiniteSetsExt

CONSTANTS
  Chars,         \* characters that are typed
  MaxText,       \* bound: characters of a draft
  Lengths,       \* lengths of the lines of a message
  MaxMessages,   \* bound: messages of the chat
  Widths,        \* cells of a row
  Heights,       \* rows of the transcript
  Gap            \* config.message_gap

CardPadX == 2
CardPadY == 1
Glyph    == 0      \* the cursor at the end of a text
Ellipsis == -1

ASSUME PanelAssumption ==
  /\ Chars \subseteq 1..4
  /\ MaxText \in Nat /\ MaxMessages \in Nat /\ Gap \in Nat
  /\ Lengths \subseteq Nat
  /\ Widths \subseteq Nat /\ Heights \subseteq Nat \ {0}

VARIABLES
  text,     \* TextEditor.text: bytes
  cursor,   \* TextEditor.cursor: characters before the cursor
  chat      \* the messages of the contact

editorVars == <<text, cursor>>
vars       == <<text, cursor, chat>>

-----------------------------------------------------------------------------
(* TextEditor.                                                             *)

Utf8(chars) == FlattenSeq([i \in DOMAIN chars |-> [k \in 1..chars[i] |-> <<chars[i], k>>]])

\* char_indices: where the characters start, and what they are.
Starts  ==
  LET first == {i \in DOMAIN text : text[i][2] = 1}
  IN CHOOSE s \in [1..Cardinality(first) -> first] : \A i, j \in DOMAIN s : i < j => s[i] < s[j]
Content == [i \in DOMAIN Starts |-> text[Starts[i]][1]]

\* Mutant: a cursor is taken for a byte offset.
ByteAtCursor(n) == Min({n, Len(text)})

\* byte_at: bytes before the character a cursor is at.
ByteAt(n) == IF n < Len(Starts) THEN Starts[n + 1] - 1 ELSE Len(text)

InsertBytes(at, bytes)   == text' = SubSeq(text, 1, at) \o bytes \o SubSeq(text, at + 1, Len(text))
RemoveBytes(first, last) == text' = SubSeq(text, 1, first) \o SubSeq(text, last + 1, Len(text))

\* Mutant: after a paste the cursor is where one character would leave it.
InsertStepping(chars) ==
  /\ Len(Content) + Len(chars) <= MaxText
  /\ InsertBytes(ByteAt(cursor), Utf8(chars))
  /\ cursor' = cursor + 1
  /\ UNCHANGED chat

\* insert, and paste of several characters.
Insert(chars) ==
  /\ Len(Content) + Len(chars) <= MaxText
  /\ InsertBytes(ByteAt(cursor), Utf8(chars))
  /\ cursor' = cursor + Len(chars)
  /\ UNCHANGED chat

Backspace ==
  /\ cursor > 0
  /\ RemoveBytes(ByteAt(cursor - 1), ByteAt(cursor))
  /\ cursor' = cursor - 1
  /\ UNCHANGED chat

Delete ==
  /\ cursor < Len(Content)
  /\ RemoveBytes(ByteAt(cursor), ByteAt(cursor + 1))
  /\ UNCHANGED <<cursor, chat>>

\* move_cursor, move_to_start, move_to_end.
MoveCursor(d) ==
  /\ cursor' = IF cursor + d < 0 THEN 0 ELSE Min({cursor + d, Len(Content)})
  /\ UNCHANGED <<text, chat>>

\* The draft becomes a message, or goes with its contact.
Forget == text' = <<>> /\ cursor' = 0 /\ UNCHANGED chat

-----------------------------------------------------------------------------
(* The row a draft is shown in: its cells, and which of them is the        *)
(* cursor, 0 if none is.                                                   *)

Row(cells, at) == [cells |-> cells, cursor |-> at]

\* The cell under the cursor.
CursorCell(empty) == IF cursor < Len(Content) THEN Content[cursor + 1] ELSE empty

Slice(s, from, to) == SubSeq(s, from + 1, to)

\* content_width.
ContentWidth(width) == Max({1, width - 2 * CardPadX})

\* Mutant: the cursor's own cell is not counted.
ComposerRowTight(w) ==
  LET start == Max({0, cursor - w})
      end   == Min({start + w, Len(Content)})
  IN Row(Slice(Content, start, cursor) \o <<CursorCell(Glyph)>>
           \o Slice(Content, Min({cursor + 1, end}), end),
         cursor - start + 1)

\* composer_body while typing.
ComposerRow(w) ==
  LET start == Max({0, cursor - Max({0, w - 1})})
      end   == Min({start + w, Len(Content)})
  IN Row(Slice(Content, start, cursor) \o <<CursorCell(Glyph)>>
           \o Slice(Content, Min({cursor + 1, end}), end),
         cursor - start + 1)

\* crop_draft_left, while not typing.
CroppedRow(w) ==
  Row(IF Len(Content) <= w THEN Content ELSE Slice(Content, Len(Content) - w, Len(Content)), 0)

\* fit_peer_id: an ellipsis stands for the middle of what is too long.
Fitted(n) ==
  LET half == (n - 1) \div 2
  IN IF Len(Content) <= n THEN Content
     ELSE IF n = 0 THEN <<>>
     ELSE Slice(Content, 0, n - 1 - half) \o <<Ellipsis>>
            \o Slice(Content, Len(Content) - half, Len(Content))

\* draft_line: the row of the add-contact dialog.
DialogRow(w) ==
  LET atEnd == cursor = Len(Content)
  IN IF w = 0 THEN Row(<<>>, 0)
     ELSE IF Len(Content) + (IF atEnd THEN 1 ELSE 0) <= w
     THEN Row(Slice(Content, 0, cursor) \o <<CursorCell(Glyph)>>
                \o Slice(Content, cursor + 1, Len(Content)), cursor + 1)
     ELSE IF atEnd THEN Row(Append(Fitted(w - 1), Glyph), Len(Fitted(w - 1)) + 1)
     ELSE Row(Fitted(w), 0)

-----------------------------------------------------------------------------
(* The transcript.                                                         *)

\* wrapped_line_count: an empty line takes a row too.
RowsOf(lines, w) ==
  FoldLeft(LAMBDA sum, n : sum + Max({1, (n + w - 1) \div w}), 0, lines)

\* message_height.
MessageHeight(m, width) ==
  RowsOf(<<m.heading>>, ContentWidth(width)) + RowsOf(m.body, ContentWidth(width)) + 2 * CardPadY

\* Mutant: the space between two messages is forgotten.
TakeUpCrowded(acc, h, rows) ==
  LET used == acc.used + h
  IN IF acc.full \/ (acc.used > 0 /\ used > rows) THEN [acc EXCEPT !.full = TRUE]
     ELSE [used |-> used, count |-> acc.count + 1, full |-> used >= rows]

\* One more message, upwards, if there is room; the first has room always.
TakeUp(acc, h, rows) ==
  LET used == IF acc.used = 0 THEN h ELSE acc.used + Gap + h
  IN IF acc.full \/ (acc.used > 0 /\ used > rows) THEN [acc EXCEPT !.full = TRUE]
     ELSE [used |-> used, count |-> acc.count + 1, full |-> used >= rows]

\* The heights of the messages up to the one `offset` above the newest.
HeightsUpTo(offset, width) ==
  [i \in 1..(Len(chat) - Min({offset, Len(chat)})) |-> MessageHeight(chat[i], width)]

\* The messages that are to be shown, from the lowest up.
Chosen(hs, rows) ==
  FoldRight(LAMBDA h, acc : TakeUp(acc, h, rows), hs, [used |-> 0, count |-> 0, full |-> FALSE])

\* They are drawn downwards from where their rows begin: one rectangle each,
\* cut off at the bottom.
Drawn(hs, rows) ==
  LET chosen == Chosen(hs, rows)
      shown  == SubSeq(hs, Len(hs) - chosen.count + 1, Len(hs))
      Draw(acc, h) ==
        IF acc.y >= rows THEN acc
        ELSE LET bottom == acc.y + Min({h, rows - acc.y})
             IN [y     |-> IF bottom + Gap <= rows THEN bottom + Gap ELSE bottom,
                 cards |-> Append(acc.cards, [top |-> acc.y, height |-> bottom - acc.y])]
  IN FoldLeft(Draw, [y |-> rows - Min({chosen.used, rows}), cards |-> <<>>], shown).cards

-----------------------------------------------------------------------------

Messages == [heading : Lengths \ {0}, body : UNION {[1..n -> Lengths] : n \in 1..2}]

\* A message is sent or received, or the chat is cleared.
ChatGrows ==
  /\ Len(chat) < MaxMessages
  /\ \E m \in Messages : chat' = Append(chat, m)
  /\ UNCHANGED editorVars

ChatCleared == chat' = <<>> /\ UNCHANGED editorVars

Pastes == {<<c, d>> : c, d \in Chars}

Init == text = <<>> /\ cursor = 0 /\ chat = <<>>

Next ==
  \/ \E c \in Chars : Insert(<<c>>)
  \/ \E s \in Pastes : Insert(s)
  \/ Backspace \/ Delete
  \/ \E d \in {-MaxText, -1, 1, MaxText} : MoveCursor(d)
  \/ Forget
  \/ ChatGrows \/ ChatCleared

Spec == Init /\ [][Next]_vars

-----------------------------------------------------------------------------
(* Properties.                                                             *)

\* The text is UTF-8 after every edit, no character cut in two, and the
\* cursor is in it: an offset off a character boundary would end the program
\* (byte_at, replace_range).
TextIsUtf8 == text = Utf8(Content) /\ cursor \in 0..Len(Content)

\* An editor is a text buffer: an edit at byte offsets does to the
\* characters around the cursor what its name says, and nothing else.
Buffer == INSTANCE TextBuffer WITH
  before <- Slice(Content, 0, cursor), after <- Slice(Content, cursor, Len(Content))

EditsBuffer == Buffer!Spec

\* What is shown of a text fits in its row, and shows the cursor where it is:
\* the cells are characters of the text side by side, at the places they have
\* in it.  The dialog gives up the cursor only inside a text that is too long
\* (composer_body, crop_draft_left, draft_line).
Faithful(row) ==
  \E start \in 0..Len(Content) :
    /\ row.cells = SubSeq(Append(Content, Glyph), start + 1, start + Len(row.cells))
    /\ row.cursor # 0 => start + row.cursor = cursor + 1

RowsShowCursor ==
  \A w \in Widths :
    /\ \A row \in {ComposerRow(ContentWidth(w)), CroppedRow(ContentWidth(w))} :
         Len(row.cells) <= ContentWidth(w) /\ Faithful(row)
    /\ ComposerRow(ContentWidth(w)).cursor # 0
    /\ LET row == DialogRow(w)
       IN /\ Len(row.cells) <= w
          /\ Len(Content) < w => Faithful(row) /\ row.cursor # 0
          /\ w > 0 /\ cursor = Len(Content) => row.cursor = Len(row.cells)

\* Wherever the reader has scrolled to: the message there is shown, at the
\* bottom of the panel and whole if it fits; those above it follow without
\* overlapping, each whole, as many as fit and no fewer (render_transcript).
TranscriptFills ==
  \A width \in Widths, rows \in Heights, offset \in 0..Len(chat) :
    LET hs    == HeightsUpTo(offset, width)
        cards == Drawn(hs, rows)
        n     == Len(cards)
        Height(i) == hs[Len(hs) - n + i]
        Bottom(i) == cards[i].top + cards[i].height
    IN hs # <<>> =>
         /\ n > 0 /\ Bottom(n) = rows
         /\ \A i \in 1..n : cards[i].height = Height(i) \/ (n = 1 /\ cards[1].height = rows)
         /\ \A i \in 1..n - 1 : cards[i + 1].top = Bottom(i) + Gap
         /\ n < Len(hs) => cards[1].top < Gap + hs[Len(hs) - n]
=============================================================================
