------------------------- MODULE EditorActionsProofs -------------------------
(***************************************************************************)
(* Proofs about EditorActions for any languages, documents and texts, any  *)
(* words offered, and editors, menus and dialogs used in any order.        *)
(***************************************************************************)
EXTENDS EditorActions, UnicodeTokenizerProofs

-----------------------------------------------------------------------------
(* The invariant.                                                           *)

\* What a menu or a dialog is opened for, and what a dialog may search for.
Cuts == {t.text : t \in EveryToken} \cup {<<>>}
Queries == Words \cup Looked \cup {<<>>}

Menus == [open : BOOLEAN, live : BOOLEAN, cursor : Nat, word : Cuts,
          at : Places \cup {0}, spelling : BOOLEAN]
Dialogs == [open : BOOLEAN, live : BOOLEAN, cursor : Nat, word : Cuts,
            history : Seq(Queries), index : Nat, query : Queries,
            shown : Queries, back : BOOLEAN, forward : BOOLEAN]
IgnoredSets == [session : SUBSET Words, documents : SUBSET (Documents \X Words),
                once : SUBSET (Documents \X Places \X Words)]

\* The highlighter is behind the decorator only while the language's name is refused.
EditorGood ==
  /\ document \in Documents /\ attached \in BOOLEAN /\ readOnly \in BOOLEAN
  /\ language \in Languages /\ highlighting \in Languages \ Refused
  /\ language \notin Refused => highlighting = language

KnowledgeTyped ==
  /\ personal \in [Languages -> SUBSET Words]
  /\ ignored \in [Languages -> IgnoredSets]

\* An open menu is about a word that was in some text.
MenuGood(m) ==
  /\ m \in Menus
  /\ m.open => \E t \in EveryToken : m.word = t.text /\ m.at = t.start

Browsable(d) ==
  /\ d.index \in 1..Len(d.history)
  /\ d.query = d.history[d.index]
  /\ \A i \in 2..Len(d.history) : d.history[i] # d.history[i - 1]
  /\ d.shown = d.query =>
        /\ d.back <=> d.index > 1
        /\ d.forward <=> d.index < Len(d.history)

\* A word that is not refused was shown last.
DialogGood(d) ==
  /\ d \in Dialogs
  /\ ~IsPhrase(d.shown)
  /\ d.open => Browsable(d)

\* A cursor in use lies between two characters of the text.
CursorsOf(text) == {UnitOffset(text, p) : p \in 0..Len(text)}
CursorsGood(text, m, d) ==
  /\ text \in AllTexts
  /\ m.live => m.cursor \in CursorsOf(text)
  /\ d.live => d.cursor \in CursorsOf(text)

Good ==
  /\ EditorGood /\ KnowledgeTyped
  /\ MenuGood(menu) /\ DialogGood(dialog)
  /\ CursorsGood(content, menu, dialog)
  /\ edits \in 0..MaxEdits

-----------------------------------------------------------------------------
(* Texts and their tokens.                                                  *)

LEMMA TokensOfIs == TokensOf = [t \in AllTexts |-> Tokens(t, Default)]
<1> DEFINE table == [t \in AllTexts |-> Tokens(t, Default)]
<1> HIDE DEF table
<1>1. TokensOf \in {table}
  BY DEF TokensOf, table
<1> QED
  BY <1>1 DEF table

LEMMA WiderSeq ==
  ASSUME NEW S, NEW T, S \subseteq T, NEW s \in Seq(S)
  PROVE  s \in Seq(T)
<1>1. Len(s) \in Nat /\ s \in [1..Len(s) -> S]
  OBVIOUS
<1>2. s \in [1..Len(s) -> T]
  BY <1>1
<1> QED
  BY <1>1, <1>2

LEMMA OfferedAre ==
  ASSUME NEW t \in Texts \cup Offered
  PROVE  t \in Seq(Characters)
<1>1. t \in Seq(Range(t)) /\ Range(t) \subseteq Characters
  BY SetsAssumption DEF Characters
<1> QED
  BY <1>1, WiderSeq

LEMMA AllTextsAre ==
  /\ \A text \in AllTexts : text \in Seq(Characters) /\ Len(text) \in 0..MaxLength
  /\ \A text \in Seq(Characters) : Len(text) <= MaxLength => text \in AllTexts
<1>1. ASSUME NEW n \in 0..MaxLength, NEW text \in [1..n -> Characters]
      PROVE  text \in Seq(Characters) /\ Len(text) = n
  BY <1>1, SetsAssumption
<1>2. ASSUME NEW text \in Seq(Characters), Len(text) <= MaxLength PROVE text \in AllTexts
  <2>1. Len(text) \in Nat /\ text \in [1..Len(text) -> Characters]
    OBVIOUS
  <2>2. Len(text) \in 0..MaxLength
    BY <2>1, <1>2, SetsAssumption
  <2> QED
    BY <2>1, <2>2 DEF AllTexts
<1> QED
  BY <1>1, <1>2 DEF AllTexts

LEMMA AllTextsAreTexts ==
  ASSUME NEW text \in AllTexts
  PROVE  IsText(text) /\ Len(text) \in Nat /\ TokensOf[text] = Tokens(text, Default)
<1>1. text \in Seq(Characters) /\ Len(text) \in 0..MaxLength
  BY AllTextsAre
<1>2. Len(text) \in Nat
  BY <1>1, SetsAssumption
<1> QED
  BY <1>1, <1>2, TokensOfIs DEF IsText

\* A token of a text, with its range.
LEMMA TokenOfText ==
  ASSUME NEW text \in AllTexts, NEW t \in Range(TokensOf[text])
  PROVE  /\ t \in EveryToken /\ WordOf(t) \in Words /\ t.start \in Places /\ t.text \in Cuts
         /\ t.start \in Nat /\ t.end \in Nat /\ t.start < t.end
         /\ \E a, b \in 0..Len(text) : /\ a < b /\ t.start = UnitOffset(text, a)
                                       /\ t.end = UnitOffset(text, b)
<1>1. t \in EveryToken
  BY DEF EveryToken
<1>2. t \in Range(Tokens(text, Default)) /\ IsText(text)
  BY AllTextsAreTexts
<1>3. PICK a, b \in 0..Len(text) :
        /\ a < b /\ t = Token(text, a, b)
        /\ t.start = UnitOffset(text, a) /\ t.end = UnitOffset(text, b)
        /\ t.start \in Nat /\ t.end \in Nat /\ t.start < t.end
  BY <1>2, TokenIs
<1> QED
  BY <1>1, <1>3 DEF Words, Places, Cuts

LEMMA EveryTokenIs ==
  ASSUME NEW t \in EveryToken
  PROVE  WordOf(t) \in Words /\ t.start \in Places /\ t.start \in Nat /\ t.text \in Cuts
<1>1. PICK text \in AllTexts : t \in Range(TokensOf[text])
  BY DEF EveryToken
<1> QED
  BY <1>1, TokenOfText

\* A cursor touches one token at most.
LEMMA TokenAtCursor ==
  ASSUME NEW text \in AllTexts, NEW c \in Nat,
         NEW t \in Range(TokensOf[text]), t.start <= c, c <= t.end,
         NEW u \in Range(TokensOf[text]), u.start <= c, c <= u.end
  PROVE  t = u
<1>1. IsText(text) /\ TokensOf[text] = Tokens(text, Default)
  BY AllTextsAreTexts
<1>2. t.start \in Nat /\ t.end \in Nat /\ u.start \in Nat /\ u.end \in Nat
  BY TokenOfText
<1>3. ASSUME t # u PROVE FALSE
  <2>1. t.end < u.start \/ u.end < t.start
    BY <1>1, <1>3, TokensApart
  <2> QED
    BY <2>1, <1>2
<1> QED
  BY <1>3

LEMMA CursorsAreNumbers ==
  ASSUME NEW text \in AllTexts, NEW c \in CursorsOf(text)
  PROVE  c \in Nat
BY AllTextsAreTexts, OffsetsGrow DEF CursorsOf

-----------------------------------------------------------------------------
(* A change of the text, and the cursors that move with it.                 *)

LEMMA SliceIs ==
  ASSUME NEW S, NEW s \in Seq(S), NEW a \in Nat, NEW b \in Nat, a <= b, b <= Len(s)
  PROVE  /\ Slice(s, a, b) \in Seq(S) /\ Len(Slice(s, a, b)) = b - a
         /\ \A i \in 1..(b - a) : Slice(s, a, b)[i] = s[a + i]
BY DEF Slice

\* A sequence is another one and what follows it.
Joined(S, s, r, j) ==
  /\ j \in Seq(S) /\ Len(j) = Len(s) + Len(r)
  /\ \A i \in 1..Len(s) : j[i] = s[i]
  /\ \A i \in 1..Len(r) : j[Len(s) + i] = r[i]

LEMMA Concatenated ==
  ASSUME NEW S, NEW s \in Seq(S), NEW r \in Seq(S)
  PROVE  Joined(S, s, r, s \o r)
BY ConcatIs DEF Joined

\* Three sequences in a row.
InRow(S, s, r, t, j) ==
  /\ j \in Seq(S) /\ Len(j) = Len(s) + Len(r) + Len(t)
  /\ \A i \in 1..Len(s) : j[i] = s[i]
  /\ \A i \in 1..Len(r) : j[Len(s) + i] = r[i]
  /\ \A i \in 1..Len(t) : j[Len(s) + Len(r) + i] = t[i]

LEMMA JoinIs ==
  ASSUME NEW S, NEW s \in Seq(S), NEW r \in Seq(S), NEW t \in Seq(S)
  PROVE  InRow(S, s, r, t, s \o r \o t)
<1> DEFINE h == s \o r
           j == h \o t
<1>1. Len(s) \in Nat /\ Len(r) \in Nat /\ Len(t) \in Nat
  OBVIOUS
<1>2. /\ h \in Seq(S) /\ Len(h) = Len(s) + Len(r)
      /\ \A i \in 1..Len(s) : h[i] = s[i]
      /\ \A i \in 1..Len(r) : h[Len(s) + i] = r[i]
  BY ConcatIs
<1> HIDE DEF h
<1>0. Joined(S, h, t, h \o t)
  BY <1>2, Concatenated, Zenon
<1>3. /\ j \in Seq(S) /\ Len(j) = Len(h) + Len(t)
      /\ \A i \in 1..Len(h) : j[i] = h[i]
      /\ \A i \in 1..Len(t) : j[Len(h) + i] = t[i]
  BY <1>0 DEF Joined
<1> HIDE DEF j
<1>4. ASSUME NEW i \in 1..Len(r) PROVE j[Len(s) + i] = r[i]
  <2>1. Len(s) + i \in 1..Len(h) /\ h[Len(s) + i] = r[i]
    BY <1>1, <1>2
  <2> QED
    BY <2>1, <1>3
<1>5. ASSUME NEW i \in 1..Len(s) PROVE j[i] = s[i]
  <2>1. i \in 1..Len(h) /\ h[i] = s[i]
    BY <1>1, <1>2
  <2> QED
    BY <2>1, <1>3
<1> QED
  BY <1>2, <1>3, <1>4, <1>5 DEF h, j, InRow

\* What replaces the characters from p to q, with the offsets of the new text.
Replaced(text, p, q, new) == Slice(text, 0, p) \o new \o Slice(text, q, Len(text))

LEMMA ReplacedIs ==
  ASSUME NEW text \in Seq(Characters), NEW new \in Seq(Characters),
         NEW p \in 0..Len(text), NEW q \in 0..Len(text), p <= q
  PROVE  LET r == Replaced(text, p, q, new)
             l == Len(new)
         IN  /\ r \in Seq(Characters) /\ Len(r) = Len(text) - (q - p) + l
             /\ \A i \in 1..p : r[i] = text[i]
             /\ \A i \in 1..l : r[p + i] = new[i]
             /\ \A i \in 1..(Len(text) - q) : r[p + l + i] = text[q + i]
<1> DEFINE C == Characters
           n == Len(text)
           l == Len(new)
           a == Slice(text, 0, p)
           b == Slice(text, q, n)
<1>1. n \in Nat /\ l \in Nat /\ p \in Nat /\ q \in Nat /\ p <= n /\ q <= n /\ n <= n /\ 0 \in Nat /\ 0 <= p
  OBVIOUS
<1>2. a \in Seq(C) /\ Len(a) = p - 0 /\ \A i \in 1..(p - 0) : a[i] = text[0 + i]
  BY <1>1, SliceIs, ZenonT(30)
<1>3. b \in Seq(C) /\ Len(b) = n - q /\ \A i \in 1..(n - q) : b[i] = text[q + i]
  BY <1>1, SliceIs, ZenonT(30)
<1> HIDE DEF a, b, C
<1>4. new \in Seq(C)
  BY DEF C
<1>5. InRow(C, a, new, b, a \o new \o b)
  BY <1>2, <1>3, <1>4, JoinIs, Zenon
<1> DEFINE r == a \o new \o b
<1> HIDE DEF r
<1>6. /\ r \in Seq(C) /\ Len(r) = n - (q - p) + l
      /\ \A i \in 1..p : r[i] = text[i]
      /\ \A i \in 1..l : r[p + i] = new[i]
      /\ \A i \in 1..(n - q) : r[p + l + i] = text[q + i]
  BY SMTT(30), <1>5, <1>1, <1>2, <1>3 DEF r, InRow
<1>7. r = Replaced(text, p, q, new)
  BY DEF r, Replaced, a, b
<1> QED
  BY <1>6, <1>7 DEF C

LEMMA ReplacedOffsets ==
  ASSUME NEW text \in Seq(Characters), NEW new \in Seq(Characters),
         NEW p \in 0..Len(text), NEW q \in 0..Len(text), p <= q
  PROVE  LET r == Replaced(text, p, q, new)
             l == Len(new)
         IN  /\ \A k \in 0..p : UnitOffset(r, k) = UnitOffset(text, k)
             /\ UnitOffset(r, p + l) = UnitOffset(text, p) + UnitOffset(new, l)
             /\ \A k \in 0..(Len(text) - q) :
                  UnitOffset(r, p + l + k) =
                    UnitOffset(r, p + l) + (UnitOffset(text, q + k) - UnitOffset(text, q))
<1> DEFINE r == Replaced(text, p, q, new)
           l == Len(new)
           n == Len(text)
<1>1. /\ r \in Seq(Characters) /\ Len(r) = n - (q - p) + l
      /\ \A i \in 1..p : r[i] = text[i]
      /\ \A i \in 1..l : r[p + i] = new[i]
      /\ \A i \in 1..(n - q) : r[p + l + i] = text[q + i]
  BY ReplacedIs
<1>2. n \in Nat /\ l \in Nat /\ p \in Nat /\ q \in Nat /\ p <= n /\ q <= n
  OBVIOUS
<1> HIDE DEF r, l, n
<1>3. Len(r) \in Nat /\ Len(text) \in Nat /\ Len(new) \in Nat
  BY <1>1, <1>2 DEF n, l
<1>4. /\ UnitOffset(r, 0) = 0 /\ UnitOffset(text, 0) = 0 /\ UnitOffset(new, 0) = 0
  BY <1>3, UnitOffsetIs
<1>5. /\ \A k \in 0..Len(r) : UnitOffset(r, k) \in Nat
      /\ \A k \in 0..Len(text) : UnitOffset(text, k) \in Nat
      /\ \A k \in 0..Len(new) : UnitOffset(new, k) \in Nat
  BY <1>3, OffsetsGrow
<1>6. ASSUME NEW k \in 0..p PROVE UnitOffset(r, k) = UnitOffset(text, k)
  <2>1. SameStretch(r, 0, text, 0, p)
    BY <1>1, <1>2, <1>3 DEF n, SameStretch
  <2>2. \A m \in 0..p : UnitOffset(r, 0 + m) = UnitOffset(r, 0) + (UnitOffset(text, 0 + m) - UnitOffset(text, 0))
    BY <2>1, SameWidths
  <2>3. 0 + k = k /\ k \in 0..Len(text)
    BY <1>2 DEF n
  <2> QED
    BY <2>2, <2>3, <1>4, <1>5
<1>7. UnitOffset(r, p + l) = UnitOffset(text, p) + UnitOffset(new, l)
  <2>1. SameStretch(r, p, new, 0, l)
    BY <1>1, <1>2, <1>3 DEF l, SameStretch
  <2>2. \A m \in 0..l : UnitOffset(r, p + m) = UnitOffset(r, p) + (UnitOffset(new, 0 + m) - UnitOffset(new, 0))
    BY <2>1, SameWidths
  <2>3. 0 + l = l /\ l \in 0..l /\ p \in 0..p /\ l \in 0..Len(new)
    BY <1>2 DEF l
  <2>4. UnitOffset(r, p) = UnitOffset(text, p)
    BY <2>3, <1>6
  <2> QED
    BY <2>2, <2>3, <2>4, <1>4, <1>5
<1>8. \A k \in 0..(n - q) :
        UnitOffset(r, p + l + k) = UnitOffset(r, p + l) + (UnitOffset(text, q + k) - UnitOffset(text, q))
  <2>1. /\ p + l \in Nat /\ n - q \in Nat
        /\ (p + l) + (n - q) <= Len(r) /\ q + (n - q) <= Len(text)
        /\ \A m \in 1..(n - q) : r[(p + l) + m] = text[q + m]
    <3>1. Len(text) = n
      BY DEF n
    <3>2. p + l \in Nat /\ n - q \in Nat
      BY <1>2
    <3>3. (p + l) + (n - q) = n - (q - p) + l /\ q + (n - q) = n
      BY <1>2
    <3>4. n - (q - p) + l = Len(r)
      BY <1>1, Zenon
    <3>5. (p + l) + (n - q) <= Len(r) /\ q + (n - q) <= Len(text)
      BY <1>2, <1>3, <3>1, <3>3, <3>4
    <3> QED
      BY <1>1, <3>2, <3>5, ZenonT(60)
  <2>2. SameStretch(r, p + l, text, q, n - q)
    BY <2>1, <1>2, <1>3 DEF SameStretch
  <2> QED
    BY <2>2, SameWidths
<1> QED
  BY <1>6, <1>7, <1>8 DEF r, l, n

\* Splice, as an operator on the text and one cursor.
MovedCursor(text, p, q, new, c) ==
  LET from == UnitOffset(text, p)
      to == UnitOffset(text, q)
      width == UnitOffset(new, Len(new))
  IN  IF c < from THEN c ELSE IF c <= to THEN from + width ELSE c - (to - from) + width

LEMMA MovedCursorFits ==
  ASSUME NEW text \in Seq(Characters), NEW new \in Seq(Characters),
         NEW p \in 0..Len(text), NEW q \in 0..Len(text), p <= q, NEW c \in CursorsOf(text)
  PROVE  MovedCursor(text, p, q, new, c) \in CursorsOf(Replaced(text, p, q, new))
<1> DEFINE r == Replaced(text, p, q, new)
           l == Len(new)
           n == Len(text)
           o(k) == UnitOffset(text, k)
           u(k) == UnitOffset(r, k)
           width == UnitOffset(new, l)
<1>1. n \in Nat /\ l \in Nat /\ p \in Nat /\ q \in Nat /\ p <= n /\ q <= n
  OBVIOUS
<1>2. Len(r) = n - (q - p) + l
  BY ReplacedIs
<1>3. /\ \A k \in 0..p : u(k) = o(k)
      /\ u(p + l) = o(p) + width
      /\ \A k \in 0..(n - q) : u(p + l + k) = u(p + l) + (o(q + k) - o(q))
  BY ReplacedOffsets
<1>4. /\ \A k \in 0..n : o(k) \in Nat
      /\ \A j, k \in 0..n : j < k => o(j) < o(k)
  BY <1>1, OffsetsGrow
<1>5. width \in Nat
  BY <1>1, OffsetsGrow
<1>6. PICK i \in 0..n : c = o(i)
  BY DEF CursorsOf
<1>7. MovedCursor(text, p, q, new, c) =
        IF c < o(p) THEN c ELSE IF c <= o(q) THEN o(p) + width ELSE c - (o(q) - o(p)) + width
  BY DEF MovedCursor
<1>8. \A k \in 0..Len(r) : u(k) \in CursorsOf(r)
  BY DEF CursorsOf
<1> HIDE DEF r, l, n, o, u, width
<1>9. CASE c < o(p)
  <2>1. i < p
    BY <1>1, <1>4, <1>6, <1>9
  <2>2. i \in 0..p /\ i \in 0..Len(r)
    BY <2>1, <1>1, <1>2
  <2> QED
    BY <2>2, <1>3, <1>6, <1>7, <1>8, <1>9 DEF r
<1>10. CASE ~(c < o(p)) /\ c <= o(q)
  <2>1. p + l \in 0..Len(r)
    BY <1>1, <1>2
  <2> QED
    BY <2>1, <1>3, <1>7, <1>8, <1>10 DEF r
<1>11. CASE ~(c < o(p)) /\ ~(c <= o(q))
  <2>1. q < i
    BY <1>1, <1>4, <1>6, <1>11
  <2>2. i - q \in 0..(n - q) /\ p + l + (i - q) \in 0..Len(r) /\ q + (i - q) = i
    BY <2>1, <1>1, <1>2
  <2>3. u(p + l + (i - q)) = u(p + l) + (o(i) - o(q))
    BY <2>2, <1>3
  <2>4. MovedCursor(text, p, q, new, c) = c - (o(q) - o(p)) + width
    BY <1>7, <1>11
  <2>5. p \in 0..n /\ q \in 0..n
    BY <1>1
  <2>6. u(p + l + (i - q)) = c - (o(q) - o(p)) + width
    BY <2>3, <2>5, <1>3, <1>4, <1>5, <1>6
  <2> QED
    BY <2>2, <2>4, <2>6, <1>8 DEF r
<1> QED
  BY <1>9, <1>10, <1>11 DEF r

-----------------------------------------------------------------------------
(* The steps.                                                               *)

LEMMA MovedTyped ==
  ASSUME NEW m \in Menus, NEW d \in Dialogs, NEW c \in Nat
  PROVE  [m EXCEPT !.cursor = c] \in Menus /\ [d EXCEPT !.cursor = c] \in Dialogs
BY DEF Menus, Dialogs

LEMMA SpliceGood ==
  ASSUME Good, NEW p \in 0..Len(content), NEW q \in 0..Len(content), p <= q,
         NEW new \in Seq(Characters), Splice(p, q, new)
  PROVE  /\ MenuGood(menu') /\ DialogGood(dialog')
         /\ CursorsGood(content', menu', dialog')
<1> DEFINE Moved(c) == MovedCursor(content, p, q, new, c)
           m == IF menu.live THEN Moved(menu.cursor) ELSE menu.cursor
           d == IF dialog.live THEN Moved(dialog.cursor) ELSE dialog.cursor
<1>1. content \in AllTexts /\ content \in Seq(Characters) /\ Len(content) \in Nat
  BY AllTextsAre, AllTextsAreTexts DEF Good, CursorsGood
<1>2. menu \in Menus /\ dialog \in Dialogs
  BY DEF Good, MenuGood, DialogGood
<1>3. /\ Len(content) - (q - p) + Len(new) <= MaxLength
      /\ content' = Replaced(content, p, q, new)
      /\ menu' = [menu EXCEPT !.cursor = m] /\ dialog' = [dialog EXCEPT !.cursor = d]
  BY <1>2 DEF Splice, MovedCursor, Replaced, Menus, Dialogs
<1>4. content' \in AllTexts
  <2>1. content' \in Seq(Characters) /\ Len(content') = Len(content) - (q - p) + Len(new)
    BY <1>1, <1>3, ReplacedIs
  <2> QED
    BY <2>1, <1>3, AllTextsAre
<1>5. \A c \in CursorsOf(content) : Moved(c) \in CursorsOf(content')
  BY <1>1, <1>3, MovedCursorFits
<1> HIDE DEF Moved
<1>6. /\ menu.live => m \in CursorsOf(content')
      /\ dialog.live => d \in CursorsOf(content')
  BY <1>5 DEF Good, CursorsGood
<1>7. m \in Nat /\ d \in Nat
  <2>1. \A c \in CursorsOf(content') : c \in Nat
    BY <1>4, CursorsAreNumbers
  <2>2. menu.cursor \in Nat /\ dialog.cursor \in Nat
    BY <1>2 DEF Menus, Dialogs
  <2> QED
    BY <2>1, <2>2, <1>6
<1> HIDE DEF m, d
<1>8. menu' \in Menus /\ dialog' \in Dialogs
  BY <1>2, <1>3, <1>7, MovedTyped
<1>9. /\ menu'.open = menu.open /\ menu'.live = menu.live /\ menu'.cursor = m
      /\ menu'.word = menu.word /\ menu'.at = menu.at
  BY <1>2, <1>3 DEF Menus
<1>10. /\ dialog'.open = dialog.open /\ dialog'.live = dialog.live /\ dialog'.cursor = d
       /\ dialog'.history = dialog.history /\ dialog'.index = dialog.index
       /\ dialog'.query = dialog.query /\ dialog'.shown = dialog.shown
       /\ dialog'.back = dialog.back /\ dialog'.forward = dialog.forward
  BY <1>2, <1>3 DEF Dialogs
<1>11. MenuGood(menu')
  BY <1>8, <1>9 DEF Good, MenuGood
<1>12. DialogGood(dialog')
  BY <1>8, <1>10 DEF Good, DialogGood, Browsable
<1>13. CursorsGood(content', menu', dialog')
  BY <1>4, <1>6, <1>9, <1>10 DEF CursorsGood
<1> QED
  BY <1>11, <1>12, <1>13

\* What is left of the invariant when the text, the menu and the dialog are as they should be.
LEMMA AfterText ==
  ASSUME Good, UNCHANGED <<editor, knowledge>>, edits' \in 0..MaxEdits,
         MenuGood(menu'), DialogGood(dialog'), CursorsGood(content', menu', dialog')
  PROVE  Good'
BY DEF Good, editor, knowledge, EditorGood, KnowledgeTyped

LEMMA EditGood == ASSUME Good, Edit PROVE Good'
<1>1. UNCHANGED <<editor, knowledge>> /\ edits' \in 0..MaxEdits
  BY SetsAssumption DEF Edit, Good
<1>2. content \in Seq(Characters) /\ Len(content) \in Nat
  BY AllTextsAre, AllTextsAreTexts DEF Good, CursorsGood
<1>3. CASE \E p \in 0..Len(content), c \in Typed : Splice(p, p, <<c>>)
  <2>1. PICK p \in 0..Len(content), c \in Typed : Splice(p, p, <<c>>)
    BY <1>3
  <2>2. c \in Characters /\ p <= p
    BY <1>2 DEF Characters
  <2>3. <<c>> \in Seq(Characters)
    BY <2>2
  <2> QED
    BY <2>1, <2>2, <2>3, <1>1, SpliceGood, AfterText
<1>4. CASE \E p \in 0..(Len(content) - 1) : Splice(p, p + 1, <<>>)
  <2>1. PICK p \in 0..(Len(content) - 1) : Splice(p, p + 1, <<>>)
    BY <1>4
  <2>2. p \in 0..Len(content) /\ p + 1 \in 0..Len(content) /\ p <= p + 1
    BY <1>2
  <2>3. <<>> \in Seq(Characters)
    OBVIOUS
  <2> QED
    BY <2>1, <2>2, <2>3, <1>1, SpliceGood, AfterText
<1> QED
  BY <1>3, <1>4 DEF Edit

\* What is replaced is a token at the cursor, from its first character to behind its last.
LEMMA ReplaceForGood ==
  ASSUME Good, NEW opened, ReplaceFor(opened)
  PROVE  Good'
<1>1. PICK token \in Replaceable(opened), new \in Offered, p \in 0..Len(content), q \in 0..Len(content) :
        /\ UnitOffset(content, p) = token.start /\ UnitOffset(content, q) = token.end
        /\ Splice(p, q, new)
        /\ UNCHANGED <<editor, knowledge, edits>>
  BY DEF ReplaceFor
<1>2. token \in Range(TokensOf[content]) /\ content \in AllTexts
  BY <1>1 DEF Replaceable, AtCursor, Good, CursorsGood
<1>3. token.start < token.end /\ token.start \in Nat /\ token.end \in Nat
  BY <1>2, TokenOfText
<1>4. p <= q
  <2>1. Len(content) \in Nat
    BY <1>2, AllTextsAreTexts
  <2>2. \A i, k \in 0..Len(content) : i < k => UnitOffset(content, i) < UnitOffset(content, k)
    BY <2>1, OffsetsGrow
  <2> QED
    BY <2>1, <2>2, <1>1, <1>3
<1>5. new \in Seq(Characters)
  BY OfferedAre
<1>6. edits' \in 0..MaxEdits
  BY <1>1 DEF Good
<1> QED
  BY <1>1, <1>4, <1>5, <1>6, SpliceGood, AfterText

\* The editor changes, and cursors of another document are given up.
LEMMA AfterEditor ==
  ASSUME Good, UNCHANGED knowledge, edits' \in 0..MaxEdits, EditorGood',
         MenuGood(menu'), DialogGood(dialog'), CursorsGood(content', menu', dialog')
  PROVE  Good'
BY DEF Good, knowledge, KnowledgeTyped

LEMMA EditorStepGood ==
  ASSUME Good, SetReadOnly \/ Detach \/ Attach \/ \E l \in Languages : SetLanguage(l)
  PROVE  Good'
<1>1. CASE SetReadOnly
  <2>1. edits' \in 0..MaxEdits /\ EditorGood'
    BY <1>1, SetsAssumption DEF SetReadOnly, Good, EditorGood
  <2> QED
    BY <2>1, <1>1, AfterEditor DEF SetReadOnly, Good
<1>2. CASE Detach
  <2>1. EditorGood'
    BY <1>2 DEF Detach, Good, EditorGood
  <2> QED
    BY <2>1, <1>2, AfterEditor DEF Detach, Good
<1>3. CASE Attach
  <2>1. EditorGood'
    BY <1>3 DEF Attach, Good, EditorGood
  <2>2. CASE UNCHANGED <<content, document, readOnly, menu, dialog>>
    BY <2>1, <2>2, <1>3, AfterEditor DEF Attach, Good
  <2>3. CASE /\ content' \in Texts
             /\ menu' = [menu EXCEPT !.live = FALSE, !.cursor = 0]
             /\ dialog' = [dialog EXCEPT !.live = FALSE, !.cursor = 0]
    <3>1. menu \in Menus /\ dialog \in Dialogs
      BY DEF Good, MenuGood, DialogGood
    <3>2. /\ menu' \in Menus /\ ~menu'.live /\ menu'.open = menu.open
          /\ menu'.word = menu.word /\ menu'.at = menu.at
      BY <3>1, <2>3 DEF Menus
    <3>3. /\ dialog' \in Dialogs /\ ~dialog'.live /\ dialog'.open = dialog.open
          /\ dialog'.history = dialog.history /\ dialog'.index = dialog.index
          /\ dialog'.query = dialog.query /\ dialog'.shown = dialog.shown
          /\ dialog'.back = dialog.back /\ dialog'.forward = dialog.forward
      BY <3>1, <2>3 DEF Dialogs
    <3>4. MenuGood(menu')
      BY <3>2 DEF Good, MenuGood
    <3>5. DialogGood(dialog')
      BY <3>3 DEF Good, DialogGood, Browsable
    <3>6. content' \in AllTexts
      <4>1. content' \in Seq(Characters) /\ Len(content') <= MaxLength
        BY <2>3, OfferedAre, SetsAssumption
      <4> QED
        BY <4>1, AllTextsAre
    <3>7. CursorsGood(content', menu', dialog')
      BY <3>2, <3>3, <3>6 DEF CursorsGood
    <3> QED
      BY <3>4, <3>5, <3>7, <2>1, <1>3, AfterEditor DEF Attach, Good
  <2> QED
    BY <2>2, <2>3, <1>3 DEF Attach
<1>4. ASSUME NEW l \in Languages, SetLanguage(l) PROVE Good'
  <2>1. EditorGood'
    BY <1>4 DEF SetLanguage, Good, EditorGood
  <2> QED
    BY <2>1, <1>4, AfterEditor DEF SetLanguage, Good
<1> QED
  BY <1>1, <1>2, <1>3, <1>4

LEMMA NothingOpen ==
  /\ NoMenu \in Menus /\ ~NoMenu.open /\ ~NoMenu.live /\ MenuGood(NoMenu)
  /\ NoDialog \in Dialogs /\ ~NoDialog.open /\ ~NoDialog.live /\ DialogGood(NoDialog)
<1>1. <<>> \in Cuts /\ <<>> \in Queries /\ <<>> \in Seq(Queries)
  BY DEF Cuts, Queries
<1>2. NoMenu \in Menus /\ ~NoMenu.open /\ ~NoMenu.live
  BY <1>1 DEF NoMenu, Menus
<1>3. /\ NoDialog \in Dialogs /\ ~NoDialog.open /\ ~NoDialog.live
      /\ NoDialog.shown = <<>>
  BY <1>1 DEF NoDialog, Dialogs
<1>4. ~IsPhrase(<<>>)
  BY DEF IsPhrase, Range
<1> QED
  BY <1>2, <1>3, <1>4 DEF MenuGood, DialogGood

LEMMA MenuStepGood ==
  ASSUME Good, OpenMenu \/ CloseMenu
  PROVE  Good'
<1>1. CASE CloseMenu
  <2>1. MenuGood(menu') /\ CursorsGood(content', menu', dialog')
    BY <1>1, NothingOpen DEF CloseMenu, Good, CursorsGood
  <2> QED
    BY <2>1, <1>1, AfterText DEF CloseMenu, Good
<1>2. CASE OpenMenu
  <2>0. PICK cursor \in Cursors : \E token \in AtCursor(cursor) :
          /\ menu' = [open |-> TRUE, live |-> TRUE, cursor |-> cursor, word |-> token.text,
                      at |-> token.start, spelling |-> ~CheckWord(language, WordOf(token))]
          /\ UNCHANGED <<content, editor, knowledge, dialog, edits>>
    BY <1>2 DEF OpenMenu
  <2>1. PICK token \in AtCursor(cursor) :
          /\ menu' = [open |-> TRUE, live |-> TRUE, cursor |-> cursor, word |-> token.text,
                      at |-> token.start, spelling |-> ~CheckWord(language, WordOf(token))]
          /\ UNCHANGED <<content, editor, knowledge, dialog, edits>>
    BY <2>0
  <2>2. content \in AllTexts /\ cursor \in CursorsOf(content)
    BY DEF Good, CursorsGood, Cursors, CursorsOf
  <2>3. cursor \in Nat
    BY <2>2, CursorsAreNumbers
  <2>4. token \in EveryToken /\ token.start \in Places /\ token.text \in Cuts
    BY <2>1, <2>2, TokenOfText DEF AtCursor
  <2>5. (~CheckWord(language, WordOf(token))) \in BOOLEAN
    OBVIOUS
  <2>6. menu' \in Menus
    BY <2>1, <2>3, <2>4, <2>5 DEF Menus
  <2>7. MenuGood(menu')
    BY <2>1, <2>4, <2>6 DEF MenuGood
  <2>8. CursorsGood(content', menu', dialog')
    BY <2>1, <2>2 DEF Good, CursorsGood
  <2> QED
    BY <2>1, <2>7, <2>8, AfterText DEF Good
<1> QED
  BY <1>1, <1>2

\* What one language ignores changes.
LEMMA IgnoredStep ==
  ASSUME Good, NEW l \in Languages, NEW sets \in IgnoredSets,
         ignored' = [ignored EXCEPT ![l] = sets],
         UNCHANGED <<content, editor, personal, dialog, edits>>,
         menu' \in {menu, NoMenu}
  PROVE  Good'
<1>1. KnowledgeTyped'
  BY DEF Good, KnowledgeTyped
<1>2. MenuGood(menu') /\ CursorsGood(content', menu', dialog')
  BY NothingOpen DEF Good, CursorsGood
<1>3. EditorGood' /\ DialogGood(dialog') /\ edits' \in 0..MaxEdits
  BY DEF Good, EditorGood, editor
<1> QED
  BY <1>1, <1>2, <1>3 DEF Good

LEMMA MenuWord ==
  ASSUME Good, menu.open
  PROVE  Normalized(menu.word) \in Words /\ menu.at \in Places
<1>1. PICK t \in EveryToken : menu.word = t.text /\ menu.at = t.start
  BY DEF Good, MenuGood
<1> QED
  BY <1>1, EveryTokenIs DEF WordOf

\* The sets of one language.
LEMMA SetsAre ==
  ASSUME Good, NEW l \in Languages
  PROVE  /\ ignored[l] \in IgnoredSets
         /\ ignored[l].session \in SUBSET Words
         /\ ignored[l].documents \in SUBSET (Documents \X Words)
         /\ ignored[l].once \in SUBSET (Documents \X Places \X Words)
BY DEF Good, KnowledgeTyped, IgnoredSets

LEMMA NewSets ==
  ASSUME NEW S \in SUBSET Words, NEW D \in SUBSET (Documents \X Words),
         NEW O \in SUBSET (Documents \X Places \X Words)
  PROVE  [session |-> S, documents |-> D, once |-> O] \in IgnoredSets
BY DEF IgnoredSets

LEMMA SetsReplaced ==
  ASSUME NEW sets \in IgnoredSets, NEW X
  PROVE  /\ [sets EXCEPT !.session = X] =
              [session |-> X, documents |-> sets.documents, once |-> sets.once]
         /\ [sets EXCEPT !.documents = X] =
              [session |-> sets.session, documents |-> X, once |-> sets.once]
         /\ [sets EXCEPT !.once = X] =
              [session |-> sets.session, documents |-> sets.documents, once |-> X]
BY DEF IgnoredSets

LEMMA IgnoreOnceGood == ASSUME Good, IgnoreOnce PROVE Good'
<1> DEFINE word == Normalized(menu.word)
           once == {o \in ignored[language].once : ~(o[1] = document /\ o[2] = menu.at)}
                     \cup {<<document, menu.at, word>>}
           sets == [session |-> ignored[language].session,
                    documents |-> ignored[language].documents, once |-> once]
<1>1. word \in Words /\ menu.at \in Places
  BY MenuWord DEF IgnoreOnce
<1>2. language \in Languages /\ document \in Documents
  BY DEF Good, EditorGood
<1>3. /\ ignored[language] \in IgnoredSets
      /\ ignored[language].session \in SUBSET Words
      /\ ignored[language].documents \in SUBSET (Documents \X Words)
      /\ ignored[language].once \in SUBSET (Documents \X Places \X Words)
  BY <1>2, SetsAre
<1>4. once \in SUBSET (Documents \X Places \X Words)
  BY <1>1, <1>2, <1>3
<1>5. sets \in IgnoredSets
  BY <1>3, <1>4, NewSets
<1>6. ignored' = [ignored EXCEPT ![language] = sets]
  <2>1. ignored' = [ignored EXCEPT ![language] = [ignored[language] EXCEPT !.once = once]]
    BY DEF IgnoreOnce
  <2>2. [ignored[language] EXCEPT !.once = once] = sets
    BY <1>3, SetsReplaced
  <2> QED
    BY <2>1, <2>2
<1> HIDE DEF sets
<1> QED
  BY <1>2, <1>5, <1>6, IgnoredStep DEF IgnoreOnce

LEMMA IgnoreAllGood == ASSUME Good, IgnoreAll PROVE Good'
<1> DEFINE word == Normalized(menu.word)
           documents == ignored[language].documents \cup {<<document, word>>}
           sets == [session |-> ignored[language].session, documents |-> documents,
                    once |-> ignored[language].once]
<1>1. word \in Words
  BY MenuWord DEF IgnoreAll
<1>2. language \in Languages /\ document \in Documents
  BY DEF Good, EditorGood
<1>3. /\ ignored[language] \in IgnoredSets
      /\ ignored[language].session \in SUBSET Words
      /\ ignored[language].documents \in SUBSET (Documents \X Words)
      /\ ignored[language].once \in SUBSET (Documents \X Places \X Words)
  BY <1>2, SetsAre
<1>4. documents \in SUBSET (Documents \X Words)
  BY <1>1, <1>2, <1>3
<1>5. sets \in IgnoredSets
  BY <1>3, <1>4, NewSets
<1>6. ignored' = [ignored EXCEPT ![language] = sets]
  <2>1. ignored' = [ignored EXCEPT ![language] = [ignored[language] EXCEPT !.documents = documents]]
    BY DEF IgnoreAll
  <2>2. [ignored[language] EXCEPT !.documents = documents] = sets
    BY <1>3, SetsReplaced
  <2> QED
    BY <2>1, <2>2
<1> HIDE DEF sets
<1> QED
  BY <1>2, <1>5, <1>6, IgnoredStep DEF IgnoreAll

LEMMA IgnoreForSessionGood == ASSUME Good, IgnoreForSession PROVE Good'
<1>1. PICK token \in Range(TokensOf[content]) :
        /\ ignored' = [ignored EXCEPT ![language].session = @ \cup {WordOf(token)}]
        /\ UNCHANGED <<content, editor, personal, menu, dialog, edits>>
  BY DEF IgnoreForSession
<1> DEFINE word == WordOf(token)
           session == ignored[language].session \cup {word}
           sets == [session |-> session, documents |-> ignored[language].documents,
                    once |-> ignored[language].once]
<1>2. language \in Languages /\ content \in AllTexts
  BY DEF Good, EditorGood, CursorsGood
<1>3. /\ ignored[language] \in IgnoredSets
      /\ ignored[language].session \in SUBSET Words
      /\ ignored[language].documents \in SUBSET (Documents \X Words)
      /\ ignored[language].once \in SUBSET (Documents \X Places \X Words)
  BY <1>2, SetsAre
<1>4. session \in SUBSET Words
  BY <1>2, <1>3, TokenOfText
<1>5. sets \in IgnoredSets
  BY <1>3, <1>4, NewSets
<1>6. ignored' = [ignored EXCEPT ![language] = sets]
  <2>1. ignored' = [ignored EXCEPT ![language] = [ignored[language] EXCEPT !.session = session]]
    BY <1>1
  <2>2. [ignored[language] EXCEPT !.session = session] = sets
    BY <1>3, SetsReplaced
  <2> QED
    BY <2>1, <2>2
<1> HIDE DEF sets
<1> QED
  BY <1>1, <1>2, <1>5, <1>6, IgnoredStep

LEMMA ClearDocumentGood == ASSUME Good, NEW l \in Languages, ClearDocument(l) PROVE Good'
<1> DEFINE documents == {d \in ignored[l].documents : d[1] # document}
           once == {o \in ignored[l].once : o[1] # document}
           sets == [session |-> ignored[l].session, documents |-> documents, once |-> once]
<1>1. /\ ignored[l] \in IgnoredSets
      /\ ignored[l].session \in SUBSET Words
      /\ ignored[l].documents \in SUBSET (Documents \X Words)
      /\ ignored[l].once \in SUBSET (Documents \X Places \X Words)
  BY SetsAre
<1>2. sets \in IgnoredSets
  BY <1>1, NewSets
<1>3. ignored' = [ignored EXCEPT ![l] = sets]
  <2>1. ignored' = [ignored EXCEPT ![l] = [[ignored[l] EXCEPT !.documents = documents] EXCEPT !.once = once]]
    BY DEF ClearDocument, Good, KnowledgeTyped
  <2> DEFINE half == [session |-> ignored[l].session, documents |-> documents,
                      once |-> ignored[l].once]
  <2>2. half \in IgnoredSets
    BY <1>1, NewSets
  <2>3. [ignored[l] EXCEPT !.documents = documents] = half
    BY <1>1, SetsReplaced
  <2>4. /\ [half EXCEPT !.once = once] =
              [session |-> half.session, documents |-> half.documents, once |-> once]
        /\ half.session = ignored[l].session /\ half.documents = documents
    BY <2>2, SetsReplaced
  <2> HIDE DEF half
  <2> QED
    BY <2>1, <2>3, <2>4
<1> HIDE DEF sets
<1> QED
  BY <1>2, <1>3, IgnoredStep DEF ClearDocument

LEMMA ClearOnceGood == ASSUME Good, NEW l \in Languages, ClearOnce(l) PROVE Good'
<1>1. PICK token \in Range(TokensOf[content]) :
        /\ ignored' = [ignored EXCEPT ![l].once =
                          {o \in @ : ~(o[1] = document /\ o[2] = token.start)}]
        /\ UNCHANGED <<content, editor, personal, menu, dialog, edits>>
  BY DEF ClearOnce
<1> DEFINE once == {o \in ignored[l].once : ~(o[1] = document /\ o[2] = token.start)}
           sets == [session |-> ignored[l].session, documents |-> ignored[l].documents,
                    once |-> once]
<1>2. /\ ignored[l] \in IgnoredSets
      /\ ignored[l].session \in SUBSET Words
      /\ ignored[l].documents \in SUBSET (Documents \X Words)
      /\ ignored[l].once \in SUBSET (Documents \X Places \X Words)
  BY SetsAre
<1>3. sets \in IgnoredSets
  BY <1>2, NewSets
<1>4. ignored' = [ignored EXCEPT ![l] = sets]
  <2>1. ignored' = [ignored EXCEPT ![l] = [ignored[l] EXCEPT !.once = once]]
    BY <1>1
  <2>2. [ignored[l] EXCEPT !.once = once] = sets
    BY <1>2, SetsReplaced
  <2> QED
    BY <2>1, <2>2
<1> HIDE DEF sets
<1> QED
  BY <1>1, <1>3, <1>4, IgnoredStep

LEMMA ClearSessionGood == ASSUME Good, NEW l \in Languages, ClearSession(l) PROVE Good'
<1> DEFINE sets == [session |-> {}, documents |-> ignored[l].documents, once |-> ignored[l].once]
<1>1. /\ ignored[l] \in IgnoredSets
      /\ ignored[l].session \in SUBSET Words
      /\ ignored[l].documents \in SUBSET (Documents \X Words)
      /\ ignored[l].once \in SUBSET (Documents \X Places \X Words)
  BY SetsAre
<1>2. sets \in IgnoredSets
  BY <1>1, NewSets
<1>3. ignored' = [ignored EXCEPT ![l] = sets]
  <2>1. ignored' = [ignored EXCEPT ![l] = [ignored[l] EXCEPT !.session = {}]]
    BY DEF ClearSession
  <2>2. [ignored[l] EXCEPT !.session = {}] = sets
    BY <1>1, SetsReplaced
  <2> QED
    BY <2>1, <2>2
<1> HIDE DEF sets
<1> QED
  BY <1>2, <1>3, IgnoredStep DEF ClearSession

LEMMA AddToDictionaryGood == ASSUME Good, AddToDictionary PROVE Good'
<1>1. Normalized(menu.word) \in Words
  BY MenuWord DEF AddToDictionary
<1>2. personal' \in [Languages -> SUBSET Words] /\ UNCHANGED ignored
  BY <1>1 DEF AddToDictionary, Good, KnowledgeTyped
<1>3. UNCHANGED <<content, editor, dialog, edits>> /\ menu' = NoMenu
  BY DEF AddToDictionary
<1>4. KnowledgeTyped'
  BY <1>2 DEF Good, KnowledgeTyped
<1>5. MenuGood(menu') /\ CursorsGood(content', menu', dialog')
  BY <1>3, NothingOpen DEF Good, CursorsGood
<1>6. EditorGood' /\ DialogGood(dialog') /\ edits' \in 0..MaxEdits
  BY <1>3 DEF Good, EditorGood, editor
<1> QED
  BY <1>4, <1>5, <1>6 DEF Good

\* No entry of a history follows itself.
NoEcho(h) == \A i \in 2..Len(h) : h[i] # h[i - 1]

LEMMA KeptIs ==
  ASSUME NEW S, NEW h \in Seq(S), NEW n \in 0..Len(h), NoEcho(h)
  PROVE  SubSeq(h, 1, n) \in Seq(S) /\ NoEcho(SubSeq(h, 1, n))
<1> DEFINE k == SubSeq(h, 1, n)
<1>1. k \in Seq(S) /\ Len(k) = n /\ \A i \in 1..n : k[i] = h[i]
  OBVIOUS
<1>2. n \in Nat /\ n <= Len(h) /\ Len(h) \in Nat
  OBVIOUS
<1> HIDE DEF k
<1>3. ASSUME NEW i \in 2..Len(k) PROVE k[i] # k[i - 1]
  <2>1. i \in 1..n /\ i - 1 \in 1..n /\ i \in 2..Len(h)
    BY <1>1, <1>2
  <2> QED
    BY <2>1, <1>1 DEF NoEcho
<1> QED
  BY <1>1, <1>3 DEF NoEcho, k

LEMMA AppendedIs ==
  ASSUME NEW S, NEW h \in Seq(S), NEW w \in S, NoEcho(h), h = <<>> \/ h[Len(h)] # w
  PROVE  /\ Append(h, w) \in Seq(S) /\ NoEcho(Append(h, w)) /\ Len(Append(h, w)) \in Nat \ {0}
         /\ Append(h, w)[Len(Append(h, w))] = w
<1> DEFINE a == Append(h, w)
           n == Len(h)
<1>1. /\ a \in Seq(S) /\ Len(a) = n + 1 /\ n \in Nat /\ a[n + 1] = w
      /\ \A i \in 1..n : a[i] = h[i]
  OBVIOUS
<1>2. n = 0 \/ h[n] # w
  OBVIOUS
<1>3. \A i \in 2..n : h[i] # h[i - 1]
  BY DEF NoEcho
<1> HIDE DEF a, n
<1>4. ASSUME NEW i \in 2..Len(a) PROVE a[i] # a[i - 1]
  <2>1. CASE i = n + 1
    <3>1. n \in 1..n /\ i - 1 = n /\ n # 0
      BY <2>1, <1>1
    <3> QED
      BY <3>1, <2>1, <1>1, <1>2
  <2>2. CASE i # n + 1
    <3>1. i \in 2..n /\ i \in 1..n /\ i - 1 \in 1..n
      BY <2>2, <1>1
    <3> QED
      BY <3>1, <1>1, <1>3
  <2> QED
    BY <2>1, <2>2
<1>5. Len(a) \in Nat \ {0} /\ a[Len(a)] = w
  BY <1>1
<1> QED
  BY <1>1, <1>4, <1>5 DEF NoEcho, a

\* A refused word leaves what is shown, and with it the buttons, to another query.
LEMMA ShownGood ==
  ASSUME NEW d \in Dialogs, d.index \in 1..Len(d.history), d.query = d.history[d.index],
         NoEcho(d.history), ~IsPhrase(d.shown)
  PROVE  LET e == Shown(d)
         IN  /\ DialogGood(e) /\ Browsable(e)
             /\ e.open = d.open /\ e.live = d.live /\ e.cursor = d.cursor
<1>1. CASE IsPhrase(d.query)
  <2>1. Shown(d) = d /\ d.shown # d.query
    BY <1>1 DEF Shown
  <2> QED
    BY <2>1 DEF DialogGood, Browsable, NoEcho
<1>2. CASE ~IsPhrase(d.query)
  <2> DEFINE back == d.index > 1
             forward == d.index < Len(d.history)
             e == [d EXCEPT !.shown = d.query, !.back = back, !.forward = forward]
  <2>1. Shown(d) = e
    BY <1>2 DEF Shown
  <2>2. back \in BOOLEAN /\ forward \in BOOLEAN /\ d.query \in Queries
    BY DEF Dialogs
  <2> HIDE DEF back, forward
  <2>3. /\ e \in Dialogs /\ e.shown = d.query /\ e.back = back /\ e.forward = forward
        /\ e.history = d.history /\ e.index = d.index /\ e.query = d.query
        /\ e.open = d.open /\ e.live = d.live /\ e.cursor = d.cursor
    BY <2>2 DEF Dialogs
  <2> HIDE DEF e
  <2>4. (e.back <=> d.index > 1) /\ (e.forward <=> d.index < Len(d.history))
    BY <2>3 DEF back, forward
  <2>5. Browsable(e)
    BY <2>3, <2>4 DEF Browsable, NoEcho
  <2> QED
    BY <1>2, <2>1, <2>3, <2>5 DEF DialogGood
<1> QED
  BY <1>1, <1>2

\* A search is entered behind what was kept, unless it is there already.
LEMMA SearchedGood ==
  ASSUME NEW d \in Dialogs, NEW word \in Queries, d.index \in 0..Len(d.history),
         NoEcho(d.history), ~IsPhrase(d.shown)
  PROVE  LET e == Searched(d, word)
         IN  /\ DialogGood(e) /\ Browsable(e)
             /\ e.open = d.open /\ e.live = d.live /\ e.cursor = d.cursor
<1> DEFINE kept == SubSeq(d.history, 1, d.index)
           h == IF kept # <<>> /\ Last(kept) = word THEN kept ELSE Append(kept, word)
           e == [d EXCEPT !.history = h, !.index = Len(h), !.query = word]
<1>1. d.history \in Seq(Queries)
  BY DEF Dialogs
<1>2. kept \in Seq(Queries) /\ NoEcho(kept)
  BY <1>1, KeptIs
<1>3. Shown(e) = Searched(d, word)
  BY DEF Searched
<1> HIDE DEF kept
<1>4. h \in Seq(Queries) /\ NoEcho(h) /\ Len(h) \in Nat \ {0} /\ h[Len(h)] = word
  <2>1. CASE kept # <<>> /\ Last(kept) = word
    <3>1. h = kept /\ Len(kept) \in Nat \ {0} /\ kept[Len(kept)] = word
      BY <2>1, <1>2 DEF Last
    <3> QED
      BY <3>1, <1>2
  <2>2. CASE ~(kept # <<>> /\ Last(kept) = word)
    <3>1. h = Append(kept, word) /\ (kept = <<>> \/ kept[Len(kept)] # word)
      BY <2>2 DEF Last
    <3> QED
      BY <3>1, <1>2, AppendedIs
  <2> QED
    BY <2>1, <2>2
<1> HIDE DEF h
<1>5. /\ e \in Dialogs /\ e.history = h /\ e.index = Len(h) /\ e.query = word
      /\ e.shown = d.shown
      /\ e.open = d.open /\ e.live = d.live /\ e.cursor = d.cursor
  BY <1>4 DEF Dialogs
<1> HIDE DEF e
<1>6. e.index \in 1..Len(e.history) /\ e.query = e.history[e.index] /\ NoEcho(e.history)
  <2>1. Len(h) \in 1..Len(h)
    BY <1>4
  <2> QED
    BY <2>1, <1>4, <1>5
<1>7. /\ DialogGood(Shown(e)) /\ Browsable(Shown(e)) /\ Shown(e).open = e.open
      /\ Shown(e).live = e.live /\ Shown(e).cursor = e.cursor
  BY <1>5, <1>6, ShownGood
<1> QED
  BY <1>3, <1>5, <1>7

LEMMA DialogStepGood ==
  ASSUME Good, OpenThesaurus \/ Search \/ GoBack \/ GoForward \/ CloseDialog
  PROVE  Good'
<1>1. CASE OpenThesaurus
  <2> DEFINE d == [NoDialog EXCEPT !.open = TRUE, !.live = menu.live, !.cursor = menu.cursor,
                                   !.word = menu.word]
  <2>1. menu \in Menus /\ menu.live \in BOOLEAN /\ menu.cursor \in Nat /\ menu.word \in Cuts
    BY DEF Good, MenuGood, Menus
  <2>2. /\ d \in Dialogs /\ d.open /\ d.live = menu.live /\ d.cursor = menu.cursor
        /\ d.history = <<>> /\ d.index = 0 /\ d.shown = <<>>
    BY <2>1, NothingOpen DEF Dialogs, NoDialog
  <2>3. Normalized(menu.word) \in Queries
    BY <1>1, MenuWord DEF OpenThesaurus, Queries
  <2>4. dialog' = Searched(d, Normalized(menu.word)) /\ menu' = NoMenu
    BY <1>1 DEF OpenThesaurus
  <2> HIDE DEF d
  <2>5. 0 \in 0..Len(<<>>) /\ NoEcho(<<>>) /\ ~IsPhrase(<<>>)
    BY DEF NoEcho, IsPhrase, Range
  <2>6. d.index \in 0..Len(d.history) /\ NoEcho(d.history) /\ ~IsPhrase(d.shown)
    BY <2>2, <2>5
  <2>7. /\ DialogGood(dialog') /\ dialog'.live = d.live
        /\ dialog'.cursor = d.cursor
    BY <2>2, <2>3, <2>4, <2>6, SearchedGood
  <2>8. UNCHANGED content
    BY <1>1 DEF OpenThesaurus
  <2>9. MenuGood(menu') /\ DialogGood(dialog') /\ CursorsGood(content', menu', dialog')
    BY <2>2, <2>4, <2>7, <2>8, NothingOpen DEF Good, CursorsGood
  <2> QED
    BY <2>9, <1>1, AfterText DEF OpenThesaurus, Good
<1>2. CASE Search
  <2>1. PICK word \in Looked : dialog' = Searched(dialog, word)
    BY <1>2 DEF Search
  <2>2. word \in Queries
    BY DEF Queries
  <2>3. /\ dialog \in Dialogs /\ dialog.index \in 0..Len(dialog.history) /\ NoEcho(dialog.history)
        /\ ~IsPhrase(dialog.shown)
    BY <1>2 DEF Search, Good, DialogGood, Browsable, NoEcho
  <2>4. /\ DialogGood(dialog') /\ dialog'.live = dialog.live
        /\ dialog'.cursor = dialog.cursor
    BY <2>1, <2>2, <2>3, SearchedGood
  <2>5. UNCHANGED <<content, menu>>
    BY <1>2 DEF Search
  <2>6. MenuGood(menu') /\ DialogGood(dialog') /\ CursorsGood(content', menu', dialog')
    BY <2>4, <2>5 DEF Good, CursorsGood
  <2> QED
    BY <2>6, <1>2, AfterText DEF Search, Good
<1>3. ASSUME NEW index, GoTo(index) PROVE Good'
  <2> DEFINE d == [dialog EXCEPT !.index = index, !.query = dialog.history[index]]
  <2>1. dialog.open /\ index \in 1..Len(dialog.history) /\ dialog' = Shown(d)
    BY <1>3 DEF GoTo
  <2>2. /\ dialog \in Dialogs /\ dialog.history \in Seq(Queries) /\ NoEcho(dialog.history)
        /\ ~IsPhrase(dialog.shown)
    BY <2>1 DEF Good, DialogGood, Browsable, Dialogs, NoEcho
  <2>3. dialog.history[index] \in Queries /\ index \in Nat
    BY <2>1, <2>2
  <2>4. /\ d \in Dialogs /\ d.history = dialog.history /\ d.index = index
        /\ d.query = dialog.history[index] /\ d.live = dialog.live
        /\ d.cursor = dialog.cursor /\ d.shown = dialog.shown
    BY <2>2, <2>3 DEF Dialogs
  <2> HIDE DEF d
  <2>5. DialogGood(dialog') /\ dialog'.live = d.live /\ dialog'.cursor = d.cursor
    BY <2>1, <2>2, <2>4, ShownGood
  <2>6. MenuGood(menu') /\ CursorsGood(content', menu', dialog')
    BY <2>4, <2>5, <1>3 DEF GoTo, Good, CursorsGood
  <2> QED
    BY <2>5, <2>6, <1>3, AfterText DEF GoTo, Good
<1>4. CASE CloseDialog
  <2>1. DialogGood(dialog') /\ CursorsGood(content', menu', dialog')
    BY <1>4, NothingOpen DEF CloseDialog, Good, CursorsGood
  <2> QED
    BY <2>1, <1>4, AfterText DEF CloseDialog, Good
<1> QED
  BY <1>1, <1>2, <1>3, <1>4 DEF GoBack, GoForward

-----------------------------------------------------------------------------
(* The invariant holds, and what follows from it.                           *)

LEMMA InitGood == Init => Good
<1> SUFFICES ASSUME Init PROVE Good
  OBVIOUS
<1>1. content \in AllTexts
  <2>1. content \in Seq(Characters) /\ Len(content) <= MaxLength
    BY OfferedAre, SetsAssumption DEF Init
  <2> QED
    BY <2>1, AllTextsAre
<1>2. NothingIgnored \in IgnoredSets
  BY NewSets DEF NothingIgnored
<1>3. EditorGood /\ KnowledgeTyped
  BY <1>2 DEF Init, EditorGood, KnowledgeTyped
<1>4. MenuGood(menu) /\ DialogGood(dialog) /\ CursorsGood(content, menu, dialog)
  BY <1>1, NothingOpen DEF Init, CursorsGood
<1> QED
  BY <1>3, <1>4, SetsAssumption DEF Init, Good

LEMMA StepGood == Good /\ [Next]_vars => Good'
<1> SUFFICES ASSUME Good, [Next]_vars PROVE Good'
  OBVIOUS
<1>1. CASE Next
  <2>1. CASE Edit \/ SetReadOnly \/ Detach \/ Attach
    BY <2>1, EditGood, EditorStepGood
  <2>2. ASSUME NEW l \in Languages, SetLanguage(l) \/ ClearDocument(l) \/ ClearOnce(l) \/ ClearSession(l)
        PROVE  Good'
    BY <2>2, EditorStepGood, ClearDocumentGood, ClearOnceGood, ClearSessionGood
  <2>3. CASE OpenMenu \/ CloseMenu
    BY <2>3, MenuStepGood
  <2>4. CASE ReplaceFromMenu \/ ReplaceSelected
    BY <2>4, ReplaceForGood DEF ReplaceFromMenu, ReplaceSelected
  <2>5. CASE IgnoreOnce \/ IgnoreAll \/ IgnoreForSession \/ AddToDictionary
    BY <2>5, IgnoreOnceGood, IgnoreAllGood, IgnoreForSessionGood, AddToDictionaryGood
  <2>6. CASE OpenThesaurus \/ Search \/ GoBack \/ GoForward \/ CloseDialog
    BY <2>6, DialogStepGood
  <2> QED
    BY <1>1, <2>1, <2>2, <2>3, <2>4, <2>5, <2>6 DEF Next
<1>2. CASE UNCHANGED vars
  BY <1>2, AfterText DEF vars, editor, knowledge, Good
<1> QED
  BY <1>1, <1>2

LEMMA GoodAlways == Spec => []Good
BY InitGood, StepGood, PTL DEF Spec

\* The editor's types, and cursors of menus and dialogs that wait always lie between two
\* characters of the text, whatever is typed, erased or replaced around them
\* (decorator.py, replace_word_at_cursor; the offsets of tokenizer.py).
THEOREM EditorTypes == Spec => []TypeOK
<1>1. ASSUME Good PROVE TypeOK
  <2>1. /\ menu.live => menu.cursor \in Cursors
        /\ dialog.live => dialog.cursor \in Cursors
        /\ content \in AllTexts
    BY <1>1 DEF Good, CursorsGood, CursorsOf, Cursors
  <2>2. ASSUME NEW l \in Languages
        PROVE  /\ personal[l] \cup ignored[l].session \subseteq Words
               /\ ignored[l].documents \subseteq Documents \X Words
               /\ ignored[l].once \subseteq Documents \X Places \X Words
    BY <1>1, SetsAre DEF Good, KnowledgeTyped
  <2>3. /\ document \in Documents /\ {attached, readOnly} \subseteq BOOLEAN
        /\ {language, highlighting} \subseteq Languages /\ edits \in 0..MaxEdits
    BY <1>1 DEF Good, EditorGood
  <2> QED
    BY <2>1, <2>2, <2>3 DEF TypeOK
<1> QED
  BY <1>1, GoodAlways, PTL

\* Whatever is underlined is what the menu is about and offers to act upon, since tokens
\* never touch and the highlighter follows the decorator in every language whose name is
\* not refused, whether its personal dictionary can be read or not (decorator.py,
\* set_language and word_at_cursor).
THEOREM UnderlinesAreOffered == Spec => []UnderlinedIsOffered
<1>1. ASSUME Good PROVE UnderlinedIsOffered
  <2> SUFFICES ASSUME language \notin Refused, NEW t \in Underlined, NEW cursor \in Cursors,
                      t.start <= cursor, cursor <= t.end
               PROVE  AtCursor(cursor) = {t} /\ ~CheckWord(language, WordOf(t))
    BY DEF UnderlinedIsOffered
  <2>1. highlighting = language /\ content \in AllTexts
    BY <1>1 DEF Good, EditorGood, CursorsGood
  <2>2. t \in Range(TokensOf[content]) /\ attached /\ ~CheckWord(highlighting, WordOf(t))
    BY DEF Underlined
  <2>3. cursor \in Nat
    BY <2>1, CursorsAreNumbers DEF Cursors, CursorsOf
  <2>4. ASSUME NEW u \in AtCursor(cursor) PROVE u = t
    <3>1. u \in Range(TokensOf[content]) /\ u.start <= cursor /\ cursor <= u.end
      BY DEF AtCursor
    <3> QED
      BY <3>1, <2>1, <2>2, <2>3, TokenAtCursor
  <2>5. t \in AtCursor(cursor)
    BY <2>2 DEF AtCursor
  <2> QED
    BY <2>1, <2>2, <2>4, <2>5
<1> QED
  BY <1>1, GoodAlways, PTL

\* The dialog's history can be browsed from every place, after any searches and steps
\* back and forward (thesaurus_dialog.py, search, go_back and go_forward).
THEOREM HistoriesAreBrowsable == Spec => []HistoryIsBrowsable
<1>1. ASSUME Good PROVE HistoryIsBrowsable
  BY <1>1 DEF Good, DialogGood, Browsable, HistoryIsBrowsable
<1> QED
  BY <1>1, GoodAlways, PTL

\* Every text the editor can come to hold is cut into words where letters end, each begun
\* outside every address, and no word is missed (tokenizer.py, iter_tokens).
THEOREM EditorTokensAreExact == Spec => []TokensAreExact
<1>1. ASSUME NEW S, NEW n \in Nat PROVE Mistokenized(Cut(S, n), Default) = {}
  <2>1. ASSUME NEW k \in 0..n, NEW s \in [1..k -> S] PROVE s \in Seq(S)
    OBVIOUS
  <2>2. Cut(S, n) \in SUBSET Seq(S)
    BY <2>1 DEF Cut
  <2> QED
    BY <2>2, TextsAreWellCut
<1>2. AllWellCut
  BY <1>1 DEF AllWellCut
<1>3. IllCut = {}
  <2>1. AllTexts \in SUBSET Seq(Characters)
    BY AllTextsAre
  <2> QED
    BY <2>1, TextsAreWellCut DEF IllCut
<1>4. TokensAreExact
  BY <1>2, <1>3 DEF TokensAreExact
<1> QED
  BY <1>4, PTL

\* A menu or a dialog that has waited replaces one whole occurrence of its word and
\* nothing else, in its own document, and never in a read-only editor
\* (decorator.py:491, "reject stale asynchronous data").
THEOREM ReplacementsAreExact == Spec => ReplacementIsExact
<1> DEFINE Exact ==
      edits' = edits /\ attached /\ content' # content =>
          /\ ~readOnly
          /\ \E t \in Range(TokensOf[content]), opened \in {menu, dialog}, new \in Offered,
                p, q \in 0..Len(content) :
                /\ opened.open /\ opened.live /\ WordOf(t) = Normalized(opened.word)
                /\ UnitOffset(content, p) = t.start /\ UnitOffset(content, q) = t.end
                /\ content' = Slice(content, 0, p) \o new \o Slice(content, q, Len(content))
<1>1. ASSUME NEW opened \in {menu, dialog}, opened.open, ReplaceFor(opened) PROVE Exact
  <2>1. PICK t \in Replaceable(opened), new \in Offered, p \in 0..Len(content), q \in 0..Len(content) :
          /\ UnitOffset(content, p) = t.start /\ UnitOffset(content, q) = t.end
          /\ Splice(p, q, new)
    BY <1>1 DEF ReplaceFor
  <2>2. /\ t \in Range(TokensOf[content]) /\ opened.live /\ ~readOnly
        /\ WordOf(t) = Normalized(opened.word)
    BY DEF Replaceable, AtCursor
  <2>3. content' = Slice(content, 0, p) \o new \o Slice(content, q, Len(content))
    BY <2>1 DEF Splice
  <2> QED
    BY <1>1, <2>1, <2>2, <2>3
<1>2. ASSUME Good, [Next]_vars PROVE [Exact]_vars
  <2> SUFFICES ASSUME edits' = edits, attached, content' # content, Next PROVE Exact
    BY <1>2 DEF vars
  <2>1. ~Edit
    BY <1>2 DEF Edit, Good
  <2>2. ReplaceFromMenu \/ ReplaceSelected
    BY <2>1 DEF Next, SetReadOnly, Detach, Attach, SetLanguage, ClearDocument, ClearOnce,
                ClearSession, OpenMenu, CloseMenu, IgnoreOnce, IgnoreAll, IgnoreForSession,
                AddToDictionary, OpenThesaurus, Search, GoBack, GoForward, GoTo, CloseDialog
  <2> QED
    BY <2>2, <1>1 DEF ReplaceFromMenu, ReplaceSelected
<1> QED
  BY <1>2, GoodAlways, PTL DEF Spec, ReplacementIsExact
=============================================================================
