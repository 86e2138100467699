---------------------------- MODULE EditorActions ----------------------------
(***************************************************************************)
(* What a user does with the words of an editor: LinguisticContextMenu of  *)
(* context_menu.py, ThesaurusDialog of thesaurus_dialog.py, the word       *)
(* operations of LinguisticTextEditDecorator in decorator.py, and the      *)
(* IgnoredWords of ignored.py they write to.                               *)
(*                                                                         *)
(* A menu and a modeless dialog remember a cursor and the word they were   *)
(* opened for; until they are used the text may change under them, the     *)
(* language may change, and the editor may be replaced by another.         *)
(* AsyncSpellCheck models how underlines come about; here they are shown   *)
(* as they are when the pipeline is at rest.                               *)
(***************************************************************************)
EXTENDS UnicodeTokenizer

CONSTANTS
    Languages,
    Refused,       \* locale names no personal dictionary can have (personal.py:29)
    Documents,     \* the values id(document) may take
    Texts,         \* the texts a document may start with
    Typed,         \* the characters that are typed
    Offered,       \* suggestions and synonyms
    Looked,        \* words searched for in the thesaurus
    Official(_),   \* the words the engine of a language accepts
    MaxLength,     \* bound: characters in a text
    MaxEdits,      \* bound: characters typed or erased, switches of read-only
    MaxAsked,      \* bound: words ignored, until cleared, or added to a dictionary
    MaxHistory,    \* bound: searches in a dialog
    MaxOpen        \* bound: menus and dialogs open at once

ASSUME SetsAssumption ==
    /\ Refused \subseteq Languages
    /\ \A t \in Texts \cup Offered : t \in Seq(Range(t))
    /\ \A t \in Texts : Len(t) <= MaxLength
    /\ MaxLength \in Nat /\ MaxEdits \in Nat

VARIABLES
    content,       \* the document of the editor
    document,      \* highlighter.document_id
    attached,      \* is_attached
    readOnly,      \* editor.isReadOnly()
    language,      \* decorator._language
    highlighting,  \* highlighter._language
    personal,      \* the personal words of each language
    ignored,       \* the IgnoredWords of each language
    menu,          \* a context menu that is open
    dialog,        \* a thesaurus dialog that is open
    asked,         \* what users and hosts asked to ignore, and where it is now (history)
    edits

vars == <<content, document, attached, readOnly, language, highlighting, personal,
          ignored, menu, dialog, asked, edits>>
editor == <<document, attached, readOnly, language, highlighting>>
knowledge == <<personal, ignored>>

Characters == Typed \cup UNION {Range(t) : t \in Texts \cup Offered}
AllTexts == UNION {[1..n -> Characters] : n \in 0..MaxLength}

\* The tokens of every text, as a table that is computed once.
TokensOf == CHOOSE table \in {[t \in AllTexts |-> Tokens(t, Default)]} : table = table
WordOf(token) == Normalized(token.text)

EveryToken == UNION {Range(TokensOf[t]) : t \in AllTexts}
Words == {WordOf(t) : t \in EveryToken}
Places == {t.start : t \in EveryToken}

NoMenu == [open |-> FALSE, live |-> FALSE, cursor |-> 0, word |-> <<>>, at |-> 0, spelling |-> FALSE]
NoDialog == [open |-> FALSE, live |-> FALSE, cursor |-> 0, word |-> <<>>,
             history |-> <<>>, index |-> 0, query |-> <<>>,
             shown |-> <<>>, back |-> FALSE, forward |-> FALSE]
NothingIgnored == [session |-> {}, documents |-> {}, once |-> {}]

\* The occurrence or the document that a request was about is no more.
Ended(a) == [a EXCEPT !.start = 0, !.end = 0, !.ended = TRUE]

Init ==
    /\ content \in Texts /\ document \in Documents /\ attached = TRUE /\ readOnly = FALSE
    /\ language \in Languages \ Refused /\ highlighting = language
    /\ personal = [l \in Languages |-> {}]
    /\ ignored = [l \in Languages |-> NothingIgnored]
    /\ menu = NoMenu /\ dialog = NoDialog /\ asked = {} /\ edits = 0

---------------------------------------------------------------------------
(* Questions about a word.                                                 *)

\* is_ignored, as highlightBlock asks it.
IsIgnored(l, word, doc, at) ==
    \/ word \in ignored[l].session
    \/ <<doc, word>> \in ignored[l].documents
    \/ <<doc, at, word>> \in ignored[l].once

\* check_word without a document: only words ignored for the session count.
CheckWord(l, word) == word \in ignored[l].session \cup personal[l] \cup Official(l)

\* highlightBlock, once every word of the text has its status.
Underlined ==
    {t \in Range(TokensOf[content]) :
        /\ attached /\ ~IsIgnored(highlighting, WordOf(t), document, t.start)
        /\ ~CheckWord(highlighting, WordOf(t))}

\* word_at_cursor: the token that the cursor is in or just behind.
AtCursor(cursor) ==
    {t \in Range(TokensOf[content]) : attached /\ t.start <= cursor /\ cursor <= t.end}

\* The positions a cursor can have: never inside a character of two units.
Cursors == {UnitOffset(content, p) : p \in 0..Len(content)}

---------------------------------------------------------------------------
(* The text changes; cursors kept by the menu and the dialog move with it. *)

\* What becomes of a request when the offsets from one to another become width new
\* ones: an occurrence behind them moves, one that they touch is no more.
Followed(a, from, to, width) ==
    IF a.scope # "once" \/ a.ended \/ a.end <= from THEN a
    ELSE IF to <= a.start
         THEN [a EXCEPT !.start = @ - (to - from) + width, !.end = @ - (to - from) + width]
         ELSE Ended(a)

\* Mutant of Splice: cursors stay where they are.
Splice_CursorsStay(p, q, new) ==
    /\ Len(content) - (q - p) + Len(new) <= MaxLength
    /\ content' = Slice(content, 0, p) \o new \o Slice(content, q, Len(content))
    /\ UNCHANGED <<menu, dialog, asked>>

\* The characters from p to q become new ones; Qt moves a cursor in or behind them.
Splice(p, q, new) ==
    LET from == UnitOffset(content, p)
        to == UnitOffset(content, q)
        width == UnitOffset(new, Len(new))
        Moved(c) == IF c < from THEN c ELSE IF c <= to THEN from + width ELSE c - (to - from) + width
    IN  /\ Len(content) - (q - p) + Len(new) <= MaxLength
        /\ content' = Slice(content, 0, p) \o new \o Slice(content, q, Len(content))
        /\ menu' = [menu EXCEPT !.cursor = IF menu.live THEN Moved(menu.cursor) ELSE @]
        /\ dialog' = [dialog EXCEPT !.cursor = IF dialog.live THEN Moved(dialog.cursor) ELSE @]
        /\ asked' = {Followed(a, from, to, width) : a \in asked}

Edit ==
    /\ edits < MaxEdits /\ edits' = edits + 1
    /\ \/ \E p \in 0..Len(content), c \in Typed : Splice(p, p, <<c>>)
       \/ \E p \in 0..(Len(content) - 1) : Splice(p, p + 1, <<>>)
    /\ UNCHANGED <<editor, knowledge>>

SetReadOnly ==
    /\ edits < MaxEdits /\ edits' = edits + 1
    /\ readOnly' = ~readOnly
    /\ UNCHANGED <<content, document, attached, language, highlighting, knowledge, menu, dialog, asked>>

\* detach; the document keeps its text and its cursors.
Detach ==
    /\ attached /\ attached' = FALSE
    /\ UNCHANGED <<content, document, readOnly, language, highlighting, knowledge, menu, dialog,
                   asked, edits>>

\* attach to the same editor again, or to one with a document of its own, to which
\* Python may give the id of one that is gone: cursors of the old document are then of
\* no use, and what was asked about it has ended.
Attach ==
    /\ ~attached /\ attached' = TRUE
    /\ \/ UNCHANGED <<content, document, readOnly, menu, dialog, asked>>
       \/ /\ content' \in Texts /\ document' \in Documents /\ readOnly' = FALSE
          /\ menu' = [menu EXCEPT !.live = FALSE, !.cursor = 0]
          /\ dialog' = [dialog EXCEPT !.live = FALSE, !.cursor = 0]
          /\ asked' = {IF a.scope \in {"document", "once"} THEN Ended(a) ELSE a : a \in asked}
    /\ UNCHANGED <<language, highlighting, knowledge, edits>>

\* Mutant of SetLanguage: the highlighter is not told.
SetLanguage_KeepsHighlighter(l) ==
    /\ l # language /\ language' = l
    /\ UNCHANGED <<highlighting, content, document, attached, readOnly, knowledge, menu, dialog,
                   asked, edits>>

\* set_language: the language is stored first; where its name is refused,
\* personal_dictionary raises before the highlighter follows.  No file is read.
SetLanguage(l) ==
    /\ l # language /\ language' = l
    /\ highlighting' = IF l \in Refused THEN highlighting ELSE l
    /\ UNCHANGED <<content, document, attached, readOnly, knowledge, menu, dialog, asked, edits>>

---------------------------------------------------------------------------
(* The context menu.  Every question or order about a word raises in a     *)
(* language whose name is refused, and changes nothing (service._locale).  *)

\* populate_menu on a word: spelling actions when it is found wrong, thesaurus always.
OpenMenu ==
    \E cursor \in Cursors : \E token \in AtCursor(cursor) :
        /\ ~menu.open /\ language \notin Refused /\ (dialog.open => MaxOpen > 1)
        /\ menu' = [open |-> TRUE, live |-> TRUE, cursor |-> cursor, word |-> token.text,
                    at |-> token.start, spelling |-> ~CheckWord(language, WordOf(token))]
        /\ UNCHANGED <<content, editor, knowledge, dialog, asked, edits>>

\* Also what is left of a menu whose action raises.
CloseMenu ==
    menu.open /\ menu' = NoMenu /\ UNCHANGED <<content, editor, knowledge, dialog, asked, edits>>

\* Mutant of Replaceable: the expected word is not compared.
Replaceable_AnyWord(opened) ==
    IF opened.live /\ ~readOnly THEN AtCursor(opened.cursor) ELSE {}

\* The tests of replace_word_at_cursor; a cursor of another document raises.
Replaceable(opened) ==
    {t \in AtCursor(opened.cursor) :
        opened.live /\ ~readOnly /\ WordOf(t) = Normalized(opened.word)}

\* replace_word_at_cursor with the cursor a menu or a dialog kept.
ReplaceFor(opened) ==
    \E token \in Replaceable(opened), new \in Offered, p, q \in 0..Len(content) :
        /\ UnitOffset(content, p) = token.start /\ UnitOffset(content, q) = token.end
        /\ Splice(p, q, new)
        /\ UNCHANGED <<editor, knowledge, edits>>

\* A suggestion or a synonym is chosen in the menu.
ReplaceFromMenu == menu.open /\ ReplaceFor(menu)

\* Somebody asks for a word to be left alone.
Ask(scope, word) ==
    [scope |-> scope, locale |-> language, word |-> word, document |-> document,
     place |-> 0, start |-> 0, end |-> 0, ended |-> FALSE]

\* For ignore_once: the key it is kept under, and where the token of the menu is now; if
\* that is gone already, the request is for its place, whatever comes to stand there.
AskOnce(word) ==
    LET ask == [Ask("once", word) EXCEPT !.place = menu.at]
        under == {t \in Range(TokensOf[content]) :
                     /\ menu.live /\ t.start <= menu.cursor /\ menu.cursor <= t.end
                     /\ WordOf(t) = word}
    IN  IF under = {} THEN {[ask EXCEPT !.start = menu.at, !.end = menu.at]}
        ELSE {[ask EXCEPT !.start = t.start, !.end = t.end] : t \in under}

Asks(requests) == Cardinality(asked) < MaxAsked /\ asked' = asked \cup requests

\* ignore_once: one word for each place of a document.
IgnoreOnce ==
    LET word == Normalized(menu.word)
        others == {o \in ignored[language].once : ~(o[1] = document /\ o[2] = menu.at)}
    IN  /\ menu.open /\ menu.spelling /\ language \notin Refused
        /\ ignored' = [ignored EXCEPT ![language].once = others \cup {<<document, menu.at, word>>}]
        /\ Asks(AskOnce(word)) /\ menu' = NoMenu
        /\ UNCHANGED <<content, editor, personal, dialog, edits>>

\* ignore_for_document, the menu's Ignore All.
IgnoreAll ==
    LET word == Normalized(menu.word) IN
    /\ menu.open /\ menu.spelling /\ language \notin Refused
    /\ ignored' = [ignored EXCEPT ![language].documents = @ \cup {<<document, word>>}]
    /\ Asks({Ask("document", word)}) /\ menu' = NoMenu
    /\ UNCHANGED <<content, editor, personal, dialog, edits>>

\* ignore_for_session has no menu item; a host calls it for a word of the text.
IgnoreForSession ==
    \E token \in Range(TokensOf[content]) :
        /\ language \notin Refused
        /\ ignored' = [ignored EXCEPT ![language].session = @ \cup {WordOf(token)}]
        /\ Asks({Ask("session", WordOf(token))})
        /\ UNCHANGED <<content, editor, personal, menu, dialog, edits>>

\* _add_to_dictionary; where the file cannot be read or written the menu just closes.
AddToDictionary ==
    /\ menu.open /\ menu.spelling /\ language \notin Refused /\ menu' = NoMenu
    /\ personal' = [personal EXCEPT ![language] = @ \cup {Normalized(menu.word)}]
    /\ Asks({Ask("personal", Normalized(menu.word))})
    /\ UNCHANGED <<content, editor, ignored, dialog, edits>>

\* clear_document: the words and the occurrences of the document.
ClearDocument(l) ==
    /\ asked' = {a \in asked : ~(a.locale = l /\ a.scope \in {"document", "once"} /\ a.document = document)}
    /\ ignored' = [ignored EXCEPT ![l].documents = {d \in @ : d[1] # document},
                                  ![l].once = {o \in @ : o[1] # document}]
    /\ ignored' # ignored
    /\ UNCHANGED <<content, editor, personal, menu, dialog, edits>>

\* clear_once for the place of a word.
ClearOnce(l) ==
    \E token \in Range(TokensOf[content]) :
        /\ asked' = {a \in asked : ~(/\ a.locale = l /\ a.scope = "once"
                                     /\ a.document = document /\ a.place = token.start)}
        /\ ignored' = [ignored EXCEPT ![l].once =
                          {o \in @ : ~(o[1] = document /\ o[2] = token.start)}]
        /\ ignored' # ignored
        /\ UNCHANGED <<content, editor, personal, menu, dialog, edits>>

\* clear_session.
ClearSession(l) ==
    /\ asked' = {a \in asked : ~(a.locale = l /\ a.scope = "session")}
    /\ ignored' = [ignored EXCEPT ![l].session = {}]
    /\ ignored' # ignored
    /\ UNCHANGED <<content, editor, personal, menu, dialog, edits>>

---------------------------------------------------------------------------
(* The thesaurus dialog: a history of searches and a place in it, from 1.  *)

\* What normalize_personal_word refuses, once blanks at both ends are gone.
IsPhrase(word) == " " \in Range(word)

\* thesaurus_entry raises for more than one word: the results and the buttons stay as
\* they were, under a query and a place in the history that have moved on.
Shown(d) ==
    IF IsPhrase(d.query) THEN d
    ELSE [d EXCEPT !.shown = d.query, !.back = d.index > 1, !.forward = d.index < Len(d.history)]

\* Mutant of Searched: the searches ahead of the present one are kept.
Searched_KeepsForward(d, word) ==
    LET same == d.history # <<>> /\ d.history[d.index] = word
        history == IF same THEN d.history ELSE Append(d.history, word)
    IN  Shown([d EXCEPT !.history = history, !.index = Len(history), !.query = word])

\* search: the searches ahead of the present one are dropped, and a word is not
\* entered twice in a row.
Searched(d, word) ==
    LET kept == SubSeq(d.history, 1, d.index)
        history == IF kept # <<>> /\ Last(kept) = word THEN kept ELSE Append(kept, word)
    IN  Shown([d EXCEPT !.history = history, !.index = Len(history), !.query = word])

\* open_thesaurus_dialog: a copy of the menu's cursor; the first search is the word.
OpenThesaurus ==
    /\ menu.open /\ attached /\ language \notin Refused /\ menu' = NoMenu
    /\ dialog' = Searched([NoDialog EXCEPT !.open = TRUE, !.live = menu.live, !.cursor = menu.cursor,
                                           !.word = menu.word], Normalized(menu.word))
    /\ UNCHANGED <<content, editor, knowledge, asked, edits>>

\* What is looked for is a result that was selected, or what is typed into the field.
Search ==
    /\ dialog.open /\ dialog.index < MaxHistory
    /\ \E word \in Looked : dialog' = Searched(dialog, word)
    /\ UNCHANGED <<content, editor, knowledge, menu, asked, edits>>

GoTo(index) ==
    /\ dialog.open /\ index \in 1..Len(dialog.history)
    /\ dialog' = Shown([dialog EXCEPT !.index = index, !.query = dialog.history[index]])
    /\ UNCHANGED <<content, editor, knowledge, menu, asked, edits>>

GoBack == GoTo(dialog.index - 1)
GoForward == GoTo(dialog.index + 1)

\* replace_selected: the word the dialog was opened for is the one expected.
ReplaceSelected == dialog.open /\ ReplaceFor(dialog)

CloseDialog ==
    dialog.open /\ dialog' = NoDialog /\ UNCHANGED <<content, editor, knowledge, menu, asked, edits>>

---------------------------------------------------------------------------
Next ==
    \/ Edit \/ SetReadOnly \/ Detach \/ Attach
    \/ \E l \in Languages : SetLanguage(l) \/ ClearDocument(l) \/ ClearOnce(l) \/ ClearSession(l)
    \/ OpenMenu \/ CloseMenu \/ ReplaceFromMenu
    \/ IgnoreOnce \/ IgnoreAll \/ IgnoreForSession \/ AddToDictionary
    \/ OpenThesaurus \/ Search \/ GoBack \/ GoForward \/ ReplaceSelected \/ CloseDialog

Spec == Init /\ [][Next]_vars

---------------------------------------------------------------------------
(* Properties.                                                             *)

\* Types; a cursor that is in use lies in its text, between two characters.
TypeOK ==
    /\ content \in AllTexts /\ document \in Documents
    /\ {attached, readOnly} \subseteq BOOLEAN /\ {language, highlighting} \subseteq Languages
    /\ \A l \in Languages :
          /\ personal[l] \cup ignored[l].session \subseteq Words
          /\ ignored[l].documents \subseteq Documents \X Words
          /\ ignored[l].once \subseteq Documents \X Places \X Words
    /\ menu.live => menu.cursor \in Cursors
    /\ dialog.live => dialog.cursor \in Cursors
    /\ edits \in 0..MaxEdits

\* A menu or a dialog that has waited replaces one whole occurrence of the word it was
\* opened for and nothing else, in the document it was opened on, and never in a
\* read-only editor (decorator.py:491, "reject stale asynchronous data").
ReplacementIsExact ==
    [][edits' = edits /\ attached /\ content' # content =>
          /\ ~readOnly
          /\ \E t \in Range(TokensOf[content]), opened \in {menu, dialog}, new \in Offered,
                p, q \in 0..Len(content) :
                /\ opened.open /\ opened.live /\ WordOf(t) = Normalized(opened.word)
                /\ UnitOffset(content, p) = t.start /\ UnitOffset(content, q) = t.end
                /\ content' = Slice(content, 0, p) \o new \o Slice(content, q, Len(content))]_vars

\* A word is left without an underline as ignored only where somebody asked for it in
\* this language and has not taken it back: for the session, for this very document, or
\* for this very occurrence, wherever in the text it is now.  This is what keys have to
\* tell: "the editor integration must clear or replace it when that token changes"
\* (ignored-words.md:40), "must discard those occurrence identifiers after text edits
\* that can move or replace the token" (unicode-tokenizer.md:43).
IgnoredOnlyAsAsked ==
    attached =>
    \A t \in Range(TokensOf[content]) : IsIgnored(highlighting, WordOf(t), document, t.start) =>
        \E a \in asked :
            /\ a.scope # "personal" /\ a.locale = highlighting /\ a.word = WordOf(t)
            /\ ~a.ended /\ (a.scope = "once" => a.start = t.start)

\* Whatever is underlined can be acted upon: with the cursor anywhere in the word or
\* just behind it, the menu is about this word and offers the spelling actions, whatever
\* languages were selected before.  While the name of the language is refused there is no
\* menu at all, and the underlines are those of the last language that was not.
UnderlinedIsOffered ==
    language \notin Refused =>
    \A t \in Underlined, cursor \in Cursors :
        t.start <= cursor /\ cursor <= t.end =>
            AtCursor(cursor) = {t} /\ ~CheckWord(language, WordOf(t))

\* The dialog's history can be browsed from every place: the present query is the entry
\* at the index, no word follows itself, and the buttons offer just the neighbours there
\* are (thesaurus_dialog.py:251), unless what was looked for last was refused.
HistoryIsBrowsable ==
    dialog.open =>
        /\ dialog.index \in 1..Len(dialog.history)
        /\ dialog.query = dialog.history[dialog.index]
        /\ \A i \in 2..Len(dialog.history) : dialog.history[i] # dialog.history[i - 1]
        /\ dialog.shown = dialog.query =>
              /\ dialog.back <=> dialog.index > 1
              /\ dialog.forward <=> dialog.index < Len(dialog.history)

\* Every word of the editor's text is cut where letters end, at its UTF-16 range and from
\* outside every address, and no word is missed (WellCut, Mistokenized); and so is every
\* word of the short texts with marks, digits and wide letters, and of those with
\* addresses, elisions and hyphens.
Cut(alphabet, n) == UNION {[1..k -> alphabet] : k \in 0..n}
AllWellCut ==
    /\ Mistokenized(Cut({"e", "W", "^", "7", "'", " "}, 4), Default) = {}
    /\ Mistokenized(Cut({"e", "w", ".", "@", "'", "-", " "}, 5), Default) = {}
IllCut == Mistokenized(AllTexts, Default)
TokensAreExact == AllWellCut /\ content \notin IllCut
=============================================================================
