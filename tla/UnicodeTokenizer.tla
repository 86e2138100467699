-------------------------- MODULE UnicodeTokenizer --------------------------
(***************************************************************************)
(* UnicodeTokenizer of tokenizer.py, as operators on texts.                *)
(*                                                                         *)
(* A text is a sequence of these characters; where a pattern of the code   *)
(* asks for a run of letters, or for www, one letter stands for it.        *)
(*   "e" "w"  letters, "w" for the www of an address                       *)
(*   "W"      a letter beyond the basic plane: two UTF-16 units            *)
(*   "'" "-"  the apostrophe and the hyphen of ASCII: a connector each; the*)
(*            labels of an address may hold a hyphen, not an apostrophe    *)
(*   "^"      a mark that combines with an "e" to the letter "E"           *)
(*   "7"      a digit                                                      *)
(*   "." "@" " " and line breaks, which count as " "                       *)
(* Positions are counted from 0 and ranges are half-open, as in the code.  *)
(***************************************************************************)
EXTENDS Integers, Sequences, FiniteSets, SequencesExt

Letters == {"e", "w", "W", "E"}
Digits == {"7"}
Connectors == {"'", "-"}
Width(c) == IF c = "W" THEN 2 ELSE 1

\* TokenizerConfig.
Default == [connectors |-> TRUE, urls |-> TRUE, emails |-> TRUE,
            numbers |-> FALSE, alphanumeric |-> FALSE]

\* The character at a position, or none.
Char(text, p) == IF p \in 0..(Len(text) - 1) THEN text[p + 1] ELSE ""
Slice(text, from, to) == SubSeq(text, from + 1, to)

\* _utf16_offsets: where the character at each position begins for Qt.
Offsets(text) ==
    LET offsets[p \in 0..Len(text)] == IF p = 0 THEN 0 ELSE offsets[p - 1] + Width(text[p])
    IN  offsets
UnitOffset(text, p) == Offsets(text)[p]

\* Canonical composition (NFC).
Normalized(text) ==
    LET Joins(p) == Char(text, p) = "e" /\ Char(text, p + 1) = "^"
        Kept(p) == ~(p > 0 /\ Joins(p - 1))
        At(p) == IF Joins(p) THEN "E" ELSE Char(text, p)
    IN  FlattenSeq([i \in 1..Len(text) |-> IF Kept(i - 1) THEN <<At(i - 1)>> ELSE <<>>])

---------------------------------------------------------------------------
(* Addresses are left out.                                                 *)

WordChar(c) == c \in Letters \cup Digits

\* _URL_RE: from www. that no word runs into, up to a space.
UrlFrom(text, p) ==
    {q \in (p + 3)..Len(text) :
        /\ Char(text, p) = "w" /\ Char(text, p + 1) = "." /\ ~WordChar(Char(text, p - 1))
        /\ \A k \in p..(q - 1) : Char(text, k) # " "}

\* _EMAIL_RE: a local part, an at sign and labels with dots between them.
EmailFrom(text, p) ==
    LET Label(c) == WordChar(c) \/ c = "-"
        Local(c) == Label(c) \/ c \in {".", "'"}
    IN
    {q \in (p + 1)..Len(text) :
        /\ ~Label(Char(text, p - 1)) /\ Char(text, p - 1) # "."
        /\ \E at \in (p + 1)..(q - 1) :
            /\ Char(text, at) = "@"
            /\ \A k \in p..(at - 1) : Local(Char(text, k))
            /\ \A k \in (at + 1)..(q - 1) :
                   \/ Label(Char(text, k))
                   \/ Char(text, k) = "." /\ Label(Char(text, k - 1))
            /\ Label(Char(text, q - 1))
            /\ \E k \in (at + 1)..(q - 1) : Char(text, k) = "."}

\* finditer: the longest match at the first place that has one, then on from its end.
Longest(ends) == CHOOSE q \in ends : \A r \in ends : r <= q

Matches(text, from) ==
    LET Found[p \in 0..Len(text)] ==
            IF p = Len(text) THEN {}
            ELSE IF from[p] = {} THEN Found[p + 1]
            ELSE p..(Longest(from[p]) - 1) \cup Found[Longest(from[p])]
    IN  Found[0]

Urls(text) == [p \in 0..Len(text) |-> UrlFrom(text, p)]
Emails(text) == [p \in 0..Len(text) |-> EmailFrom(text, p)]

\* _protected_spans, as the positions inside them.
Protected(text, config) ==
    (IF config.urls THEN Matches(text, Urls(text)) ELSE {})
    \cup (IF config.emails THEN Matches(text, Emails(text)) ELSE {})

---------------------------------------------------------------------------
(* Words.                                                                  *)

\* Mutant of IsInternalConnector: it may be followed by a digit or end the text.
IsInternalConnector_Trailing(text, p, config) ==
    /\ config.connectors /\ Char(text, p) \in Connectors
    /\ Char(text, p - 1) \in Letters \cup {"^"}

\* An apostrophe or hyphen between letters belongs to the word.
IsInternalConnector(text, p, config) ==
    /\ config.connectors /\ Char(text, p) \in Connectors
    /\ Char(text, p - 1) \in Letters \cup {"^"} /\ Char(text, p + 1) \in Letters

Continues(text, p, config) ==
    \/ Char(text, p) \in Letters \cup Digits \cup {"^"}
    \/ IsInternalConnector(text, p, config)

\* _accepts: words with digits are kept only if the configuration says so.
Accepts(word, config) ==
    LET letter == \E c \in Range(word) : c \in Letters
        digit == \E c \in Range(word) : c \in Digits
    IN  digit => IF letter THEN config.alphanumeric ELSE config.numbers

Token(text, from, to) ==
    [text |-> Slice(text, from, to), start |-> UnitOffset(text, from), end |-> UnitOffset(text, to)]

\* Where the run that begins at a position ends.
EndOf(text, p, config) ==
    CHOOSE q \in (p + 1)..Len(text) :
        /\ \A k \in (p + 1)..(q - 1) : Continues(text, k, config)
        /\ ~Continues(text, q, config)

\* The run as a token, if it is accepted.
Run(text, p, config) ==
    LET end == EndOf(text, p, config)
    IN  IF Accepts(Slice(text, p, end), config) THEN <<Token(text, p, end)>> ELSE <<>>

\* iter_tokens: every run, from the first letter or digit outside the addresses.
Tokens(text, config) ==
    LET protected == Protected(text, config)
        Scan[p \in 0..Len(text)] ==
            IF p = Len(text) THEN <<>>
            ELSE IF p \in protected \/ ~WordChar(Char(text, p)) THEN Scan[p + 1]
            ELSE Run(text, p, config) \o Scan[EndOf(text, p, config)]
    IN  Scan[0]

---------------------------------------------------------------------------
(* Properties of the tokens.                                               *)

RangeOf(t) == t.start..(t.end - 1)

\* A token is the text of its UTF-16 range, begins with a letter or digit outside every
\* address, ends with no connector and is not cut short (unicode-tokenizer.md).  It may
\* run into an address all the same, but only where the address begins in the token,
\* behind a connector or a mark (tokenizer.py:151, the loop does not look for addresses).
WellCut(text, t, config) ==
    \E p, q \in 0..Len(text) :
        /\ UnitOffset(text, p) = t.start /\ UnitOffset(text, q) = t.end
        /\ t.text = Slice(text, p, q) /\ q > p
        /\ WordChar(Char(text, p)) /\ p \notin Protected(text, config)
        /\ Char(text, q - 1) \notin Connectors
        /\ \A k \in p..(q - 1) : Char(text, k) \in Connectors =>
               Char(text, k - 1) \in Letters \cup {"^"} /\ Char(text, k + 1) \in Letters
        /\ Char(text, q) \notin Letters \cup Digits \cup {"^"}
        /\ \A k \in (p + 1)..(q - 1) :
               k \in Protected(text, config) /\ k - 1 \notin Protected(text, config) =>
                  Char(text, k - 1) \in Connectors \cup {"^"}

\* No character of a token belongs to an address: the region is left out as a whole.
OutsideAddresses(text, t, config) ==
    \A k \in Protected(text, config) : UnitOffset(text, k) \notin RangeOf(t)

\* The texts with a token that is not well cut, with tokens that touch, or with a letter
\* outside the addresses that is in no token, no digit being in its run of characters.
Mistokenized(texts, config) ==
    {text \in texts :
        LET tokens == Tokens(text, config) IN
        \/ \E i \in DOMAIN tokens : ~WellCut(text, tokens[i], config)
        \/ \E i \in 2..Len(tokens) : tokens[i - 1].end >= tokens[i].start
        \/ \E p \in 0..(Len(text) - 1) :
              /\ Char(text, p) \in Letters /\ p \notin Protected(text, config)
              /\ \A i \in DOMAIN tokens : UnitOffset(text, p) \notin RangeOf(tokens[i])
              /\ ~\E k \in 0..(Len(text) - 1) :
                    /\ Char(text, k) \in Digits
                    /\ \A j \in (IF k < p THEN k ELSE p)..(IF k < p THEN p ELSE k) :
                          Char(text, j) # " "}
=============================================================================
