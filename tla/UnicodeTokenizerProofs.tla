----------------------- MODULE UnicodeTokenizerProofs -----------------------
(***************************************************************************)
(* The tokenizer cuts every text as unicode-tokenizer.md says, however long *)
(* it is.  Recursive definitions are unfolded, and induction is done, with  *)
(* the lemmas of Induction.                                                *)
(***************************************************************************)
EXTENDS UnicodeTokenizer, Induction

-----------------------------------------------------------------------------
(* Offsets.                                                                 *)

\* What the recursive definition of Offsets says, for the positions up to n.
Counts(f, text, n) ==
  f = [p \in 0..n |-> IF p = 0 THEN 0 ELSE f[p - 1] + Width(text[p])]

LEMMA CountsExist ==
  ASSUME NEW text, NEW n \in Nat
  PROVE  \E f : Counts(f, text, n)
<1> DEFINE S == {k \in Nat : \E f : Counts(f, text, k)}
<1>1. 0 \in S
  <2>1. Counts([p \in 0..0 |-> 0], text, 0)
    BY DEF Counts
  <2> QED
    BY <2>1
<1>2. ASSUME NEW k \in Nat, k \in S PROVE k + 1 \in S
  <2>1. PICK f : Counts(f, text, k)
    BY <1>2
  <2> DEFINE g == [p \in 0..(k + 1) |-> IF p = k + 1 THEN f[k] + Width(text[k + 1]) ELSE f[p]]
  <2>2. Counts(g, text, k + 1)
    BY <2>1 DEF Counts
  <2> HIDE DEF g
  <2>3. \E h : Counts(h, text, k + 1)
    BY <2>2
  <2> QED
    BY <2>3
<1> HIDE DEF S
<1>3. n \in S
  BY <1>1, <1>2, SetInduction
<1> QED
  BY <1>3 DEF S

LEMMA OffsetsAre ==
  ASSUME NEW text, Len(text) \in Nat
  PROVE  Counts(Offsets(text), text, Len(text))
<1>1. Offsets(text) = CHOOSE f : Counts(f, text, Len(text))
  BY DEF Offsets, Counts
<1> HIDE DEF Offsets
<1>2. Counts(CHOOSE f : Counts(f, text, Len(text)), text, Len(text))
  BY CountsExist
<1> QED
  BY <1>1, <1>2

LEMMA UnitOffsetIs ==
  ASSUME NEW text, Len(text) \in Nat
  PROVE  /\ UnitOffset(text, 0) = 0
         /\ \A p \in 1..Len(text) :
              UnitOffset(text, p) = UnitOffset(text, p - 1) + Width(text[p])
<1>1. Counts(Offsets(text), text, Len(text))
  BY OffsetsAre
<1> QED
  BY <1>1 DEF Counts, UnitOffset

LEMMA WidthIs == \A c : Width(c) \in 1..2
BY DEF Width

\* Offsets grow with positions.
LEMMA OffsetsGrow ==
  ASSUME NEW text, Len(text) \in Nat
  PROVE  /\ \A p \in 0..Len(text) : UnitOffset(text, p) \in Nat
         /\ \A p, q \in 0..Len(text) : p < q => UnitOffset(text, p) < UnitOffset(text, q)
<1> DEFINE n == Len(text)
           o(p) == UnitOffset(text, p)
           S == {k \in Nat : k <= n =>
                   /\ o(k) \in Nat
                   /\ \A p \in 0..n : p < k => o(p) \in Nat /\ o(p) < o(k)}
<1>1. o(0) = 0 /\ \A p \in 1..n : o(p) = o(p - 1) + Width(text[p])
  BY UnitOffsetIs
<1> HIDE DEF o
<1>2. 0 \in S
  BY <1>1
<1>3. ASSUME NEW k \in Nat, k \in S PROVE k + 1 \in S
  <2> SUFFICES ASSUME k + 1 <= n
      PROVE  o(k + 1) \in Nat /\ \A p \in 0..n : p < k + 1 => o(p) \in Nat /\ o(p) < o(k + 1)
    OBVIOUS
  <2>1. o(k) \in Nat /\ \A p \in 0..n : p < k => o(p) \in Nat /\ o(p) < o(k)
    BY <1>3
  <2>2. o(k + 1) = o(k) + Width(text[k + 1]) /\ Width(text[k + 1]) \in 1..2
    BY <1>1, WidthIs
  <2> QED
    BY <2>1, <2>2
<1> HIDE DEF S
<1>4. \A k \in Nat : k \in S
  BY <1>2, <1>3, SetInduction
<1>5. \A k \in 0..n : o(k) \in Nat /\ \A p \in 0..n : p < k => o(p) < o(k)
  BY <1>4 DEF S
<1> QED
  BY <1>5 DEF o

-----------------------------------------------------------------------------
(* Runs.                                                                    *)

IsText(text) == \E S : text \in Seq(S)

LEMMA LenIs == ASSUME NEW text, IsText(text) PROVE Len(text) \in Nat
BY DEF IsText

LEMMA CharIs ==
  ASSUME NEW text, IsText(text)
  PROVE  \A p \in 0..(Len(text) - 1) : Char(text, p) = text[p + 1]
BY DEF Char

LEMMA NoCharIs == ASSUME NEW text, IsText(text) PROVE Char(text, Len(text)) = ""
<1>1. Len(text) \notin 0..(Len(text) - 1)
  BY LenIs
<1> QED
  BY <1>1 DEF Char

\* A run from p to q: it cannot go on.
IsRun(text, p, q) ==
  /\ p \in 0..Len(text) /\ q \in (p + 1)..Len(text)
  /\ \A k \in (p + 1)..(q - 1) : Continues(text, k, Default)
  /\ ~Continues(text, q, Default)

LEMMA EndOfIs ==
  ASSUME NEW text, IsText(text), NEW p \in 0..(Len(text) - 1)
  PROVE  IsRun(text, p, EndOf(text, p, Default))
<1> DEFINE n == Len(text)
           T == {q \in (p + 1)..n : ~Continues(text, q, Default)}
           Ends(q) == /\ \A k \in (p + 1)..(q - 1) : Continues(text, k, Default)
                      /\ ~Continues(text, q, Default)
<1>1. n \in Nat
  BY LenIs
<1>2. ~Continues(text, n, Default)
  BY NoCharIs DEF Continues, IsInternalConnector, Letters, Digits, Connectors
<1>3. EndOf(text, p, Default) = CHOOSE r \in (p + 1)..n : Ends(r)
  BY DEF EndOf
<1>4. p \in 0..(n - 1)
  OBVIOUS
<1> HIDE DEF n
<1>5. T \subseteq Nat /\ n \in T
  BY <1>1, <1>2, <1>4
<1>6. PICK q \in T : \A k \in T : q <= k
  BY <1>5, LeastExists
<1>7. q \in (p + 1)..n /\ Ends(q)
  BY <1>1, <1>4, <1>6
<1> HIDE DEF Ends
<1>8. EndOf(text, p, Default) \in (p + 1)..n /\ Ends(EndOf(text, p, Default))
  BY <1>3, <1>7
<1>9. p \in 0..n
  BY <1>1, <1>4
<1> QED
  BY <1>8, <1>9 DEF IsRun, Ends, n

\* A run from p to q that is kept as a token.
IsToken(text, p, q, token) ==
  /\ IsRun(text, p, q)
  /\ WordChar(Char(text, p)) /\ p \notin Protected(text, Default)
  /\ token = Token(text, p, q)

\* A run with a digit in it.
HasDigit(text, p, q) ==
  \E k \in p..(q - 1) : k < Len(text) /\ Char(text, k) \in Digits

LEMMA RunIs ==
  ASSUME NEW text, IsText(text), NEW p \in 0..(Len(text) - 1)
  PROVE  LET q == EndOf(text, p, Default)
         IN  \/ Run(text, p, Default) = <<Token(text, p, q)>>
             \/ Run(text, p, Default) = <<>> /\ HasDigit(text, p, q)
<1> DEFINE q == EndOf(text, p, Default)
           word == Slice(text, p, q)
<1>1. IsRun(text, p, q) /\ Len(text) \in Nat
  BY EndOfIs, LenIs
<1> HIDE DEF q
<1>2. q \in (p + 1)..Len(text) /\ p + 1 \in 1..Len(text)
  BY <1>1 DEF IsRun
<1>3. PICK S : text \in Seq(S)
  BY DEF IsText
<1>4. word \in Seq(S) /\ Len(word) = q - p /\ \A i \in 1..(q - p) : word[i] = text[p + i]
  BY <1>2, <1>3 DEF Slice
<1>5. ASSUME ~Accepts(word, Default) PROVE HasDigit(text, p, q)
  <2>1. \E c \in Range(word) : c \in Digits
    BY <1>5 DEF Accepts
  <2>2. PICK i \in 1..(q - p) : word[i] \in Digits
    BY <1>4, <2>1 DEF Range
  <2>3. p + i - 1 \in p..(q - 1) /\ p + i - 1 \in 0..(Len(text) - 1) /\ p + i - 1 < Len(text)
    BY <1>1, <1>2
  <2>4. Char(text, p + i - 1) = text[p + i - 1 + 1] /\ p + i - 1 + 1 = p + i
    BY <2>3, CharIs
  <2>5. Char(text, p + i - 1) \in Digits
    BY <1>4, <2>2, <2>4
  <2> QED
    BY <2>3, <2>5 DEF HasDigit
<1> QED
  BY <1>5 DEF Run, q

-----------------------------------------------------------------------------
(* The scan.                                                                *)

\* What the recursive definition of Tokens says, for the positions from first.
Scans(f, text, first) ==
  f = [p \in first..Len(text) |->
         IF p = Len(text) THEN <<>>
         ELSE IF p \in Protected(text, Default) \/ ~WordChar(Char(text, p)) THEN f[p + 1]
         ELSE Run(text, p, Default) \o f[EndOf(text, p, Default)]]

LEMMA ScansExist ==
  ASSUME NEW text, IsText(text)
  PROVE  \E f : Scans(f, text, 0)
<1> DEFINE n == Len(text)
           S == {k \in Nat : k <= n => \E f : Scans(f, text, n - k)}
<1>1. n \in Nat
  BY LenIs
<1>2. 0 \in S
  <2>1. Scans([p \in n..n |-> <<>>], text, n)
    BY <1>1 DEF Scans
  <2>2. \E f : Scans(f, text, n - 0)
    BY <1>1, <2>1
  <2> QED
    BY <2>2
<1>3. ASSUME NEW k \in Nat, k \in S PROVE k + 1 \in S
  <2> SUFFICES ASSUME k + 1 <= n PROVE \E f : Scans(f, text, n - (k + 1))
    OBVIOUS
  <2> DEFINE a == n - (k + 1)
             b == n - k
  <2>1. PICK f : Scans(f, text, b)
    BY <1>1, <1>3
  <2>2. a \in 0..(n - 1) /\ b \in 0..n /\ b = a + 1
    BY <1>1
  <2>3. EndOf(text, a, Default) \in b..n
    BY <2>2, EndOfIs DEF IsRun
  <2> DEFINE first == IF a \in Protected(text, Default) \/ ~WordChar(Char(text, a)) THEN f[b]
                      ELSE Run(text, a, Default) \o f[EndOf(text, a, Default)]
             g == [p \in a..n |-> IF p = a THEN first ELSE f[p]]
  <2> HIDE DEF a, b, first, n
  <2>4. \A p \in b..n : p \in a..n /\ p # a /\ g[p] = f[p]
    BY <1>1, <2>2
  <2>5. a \in a..n /\ a # n /\ g[a] = first
    BY <1>1, <2>2
  <2>6. first = IF a \in Protected(text, Default) \/ ~WordChar(Char(text, a)) THEN g[a + 1]
                ELSE Run(text, a, Default) \o g[EndOf(text, a, Default)]
    BY <1>1, <2>2, <2>3, <2>4 DEF first
  <2>7. ASSUME NEW p \in b..n
        PROVE  f[p] = IF p = n THEN <<>>
                      ELSE IF p \in Protected(text, Default) \/ ~WordChar(Char(text, p)) THEN g[p + 1]
                      ELSE Run(text, p, Default) \o g[EndOf(text, p, Default)]
    <3>1. CASE p = n
      BY <2>1, <3>1 DEF Scans, n
    <3>2. CASE p # n
      <4>1. p \in 0..(n - 1) /\ p + 1 \in b..n
        BY <1>1, <2>2, <3>2
      <4>2. EndOf(text, p, Default) \in b..n
        BY <1>1, <2>2, <4>1, EndOfIs DEF IsRun, n
      <4>3. g[p + 1] = f[p + 1] /\ g[EndOf(text, p, Default)] = f[EndOf(text, p, Default)]
        BY <2>4, <4>1, <4>2
      <4>4. f[p] = IF p \in Protected(text, Default) \/ ~WordChar(Char(text, p)) THEN f[p + 1]
                   ELSE Run(text, p, Default) \o f[EndOf(text, p, Default)]
        BY <2>1, <3>2 DEF Scans, n
      <4> QED
        BY <3>2, <4>3, <4>4
    <3> QED
      BY <3>1, <3>2
  <2>8. g = [p \in a..n |->
               IF p = n THEN <<>>
               ELSE IF p \in Protected(text, Default) \/ ~WordChar(Char(text, p)) THEN g[p + 1]
               ELSE Run(text, p, Default) \o g[EndOf(text, p, Default)]]
    <3>1. \A p \in a..n : p = a \/ p \in b..n
      BY <1>1, <2>2
    <3>2. g = [p \in a..n |-> g[p]]
      OBVIOUS
    <3> HIDE DEF g
    <3> QED
      BY <2>4, <2>5, <2>6, <2>7, <3>1, <3>2
  <2> HIDE DEF g
  <2>9. Scans(g, text, a)
    BY <2>8 DEF Scans, n
  <2> QED
    BY <2>9 DEF a
<1> HIDE DEF S
<1>4. n \in S
  BY <1>1, <1>2, <1>3, SetInduction
<1>5. \E f : Scans(f, text, n - n)
  BY <1>1, <1>4 DEF S
<1> QED
  BY <1>1, <1>5

LEMMA TokensAre ==
  ASSUME NEW text, IsText(text)
  PROVE  \E f : Scans(f, text, 0) /\ Tokens(text, Default) = f[0]
<1> DEFINE scan == CHOOSE f : Scans(f, text, 0)
<1>1. Tokens(text, Default) = scan[0]
  BY DEF Tokens, Scans
<1> HIDE DEF Tokens
<1>2. Scans(scan, text, 0)
  BY ScansExist
<1> QED
  BY <1>1, <1>2

AllTokens(text) == {Token(text, a, b) : a, b \in 0..Len(text)}

\* A character at k that is in a token of s, or in a run with a digit.
Reached(text, s, k) ==
  \/ \E i \in DOMAIN s : \E a, b \in 0..Len(text) : a <= k /\ k < b /\ IsToken(text, a, b, s[i])
  \/ \E a, b \in 0..Len(text) :
       /\ a <= k /\ k < b /\ IsRun(text, a, b) /\ WordChar(Char(text, a))
       /\ HasDigit(text, a, b)

\* What the scan from position p has found.
Found(text, s, p) ==
  /\ s \in Seq(AllTokens(text))
  /\ \A i \in DOMAIN s : \E a, b \in 0..Len(text) : p <= a /\ IsToken(text, a, b, s[i])
  /\ \A i \in 2..Len(s) : s[i - 1].end < s[i].start
  /\ \A k \in p..(Len(text) - 1) :
       WordChar(Char(text, k)) /\ k \notin Protected(text, Default) => Reached(text, s, k)

LEMMA ConcatIs ==
  ASSUME NEW S, NEW s \in Seq(S), NEW r \in Seq(S)
  PROVE  /\ s \o r \in Seq(S) /\ Len(s \o r) = Len(s) + Len(r)
         /\ DOMAIN (s \o r) = 1..(Len(s) + Len(r))
         /\ \A i \in 1..Len(s) : (s \o r)[i] = s[i]
         /\ \A i \in 1..Len(r) : (s \o r)[Len(s) + i] = r[i]
OBVIOUS

LEMMA ConsIs ==
  ASSUME NEW S, NEW x \in S, NEW r \in Seq(S)
  PROVE  /\ <<x>> \o r \in Seq(S) /\ (<<x>> \o r)[1] = x
         /\ Len(<<x>> \o r) = Len(r) + 1 /\ DOMAIN (<<x>> \o r) = 1..(Len(r) + 1)
         /\ \A i \in 1..Len(r) : (<<x>> \o r)[i + 1] = r[i]
<1> DEFINE h == <<x>>
           l == Len(r)
           c == h \o r
<1>1. h \in Seq(S) /\ Len(h) = 1 /\ h[1] = x
  OBVIOUS
<1>2. l \in Nat
  OBVIOUS
<1> HIDE DEF h
<1>3. /\ c \in Seq(S) /\ Len(c) = Len(h) + l /\ DOMAIN c = 1..(Len(h) + l)
      /\ \A i \in 1..Len(h) : c[i] = h[i]
      /\ \A i \in 1..l : c[Len(h) + i] = r[i]
  BY <1>1, ConcatIs
<1> HIDE DEF c, l
<1>4. c \in Seq(S) /\ Len(c) = l + 1 /\ DOMAIN c = 1..(l + 1) /\ c[1] = x
  BY <1>1, <1>2, <1>3
<1>5. \A i \in 1..l : c[i + 1] = r[i]
  BY <1>1, <1>2, <1>3
<1> QED
  BY <1>4, <1>5 DEF h, c, l

\* The end of a run is no letter or digit.
LEMMA RunEnds ==
  ASSUME NEW text, NEW p, NEW q, IsRun(text, p, q)
  PROVE  ~WordChar(Char(text, q)) /\ Char(text, q) \notin Letters \cup Digits \cup {"^"}
BY DEF IsRun, Continues, WordChar

\* A token before what was found from its end.
LEMMA FoundToken ==
  ASSUME NEW text, IsText(text), NEW p \in 0..(Len(text) - 1), NEW q, NEW token, NEW r,
         IsToken(text, p, q, token), Found(text, r, q)
  PROVE  Found(text, <<token>> \o r, p)
<1> DEFINE n == Len(text)
           s == <<token>> \o r
<1>1. n \in Nat /\ IsRun(text, p, q) /\ q \in (p + 1)..n /\ p \in 0..n /\ token = Token(text, p, q)
  BY LenIs DEF IsToken, IsRun
<1>2. q \in 0..n /\ p < q
  BY <1>1
<1>3. token \in AllTokens(text) /\ r \in Seq(AllTokens(text))
  BY <1>1, <1>2 DEF AllTokens, Found
<1>4. /\ s \in Seq(AllTokens(text)) /\ s[1] = token
      /\ Len(s) = Len(r) + 1 /\ DOMAIN s = 1..(Len(r) + 1)
      /\ \A i \in 1..Len(r) : s[i + 1] = r[i]
  BY <1>3, ConsIs
<1>5. Len(r) \in Nat /\ DOMAIN r = 1..Len(r)
  BY <1>3
<1> HIDE DEF s
<1>6. \A i \in DOMAIN s : i = 1 \/ (i - 1 \in DOMAIN r /\ s[i] = r[i - 1])
  BY <1>4, <1>5
<1>7. \A i \in DOMAIN r : \E a, b \in 0..n : q <= a /\ IsToken(text, a, b, r[i])
  BY DEF Found
<1>8. ASSUME NEW i \in DOMAIN s
      PROVE  \E a, b \in 0..n : p <= a /\ IsToken(text, a, b, s[i])
  <2>1. CASE i = 1
    BY <1>1, <1>2, <1>4, <2>1
  <2>2. CASE i - 1 \in DOMAIN r /\ s[i] = r[i - 1]
    <3>1. PICK a, b \in 0..n : q <= a /\ IsToken(text, a, b, r[i - 1])
      BY <1>7, <2>2
    <3>2. p <= a
      BY <1>1, <3>1
    <3> QED
      BY <2>2, <3>1, <3>2
  <2> QED
    BY <1>6, <2>1, <2>2
<1>9. ASSUME NEW i \in 2..Len(s) PROVE s[i - 1].end < s[i].start
  <2>1. i - 1 \in DOMAIN r /\ s[i] = r[i - 1]
    BY <1>4, <1>5
  <2>2. CASE i = 2
    <3>1. PICK a, b \in 0..n : q <= a /\ IsToken(text, a, b, s[i])
      BY <1>7, <2>1
    <3>2. WordChar(Char(text, a)) /\ s[i] = Token(text, a, b)
      BY <3>1 DEF IsToken
    <3>3. a # q
      BY <1>1, <3>2, RunEnds
    <3>4. UnitOffset(text, q) < UnitOffset(text, a)
      BY <1>1, <1>2, <3>1, <3>3, OffsetsGrow
    <3>5. s[i].start = UnitOffset(text, a) /\ s[i - 1].end = UnitOffset(text, q)
      BY <1>1, <1>4, <2>2, <3>2 DEF Token
    <3> QED
      BY <3>4, <3>5
  <2>3. CASE i # 2
    <3>1. i - 1 \in 2..Len(r) /\ i - 2 \in 1..Len(r) /\ (i - 2) + 1 = i - 1 /\ (i - 1) - 1 = i - 2
      BY <1>4, <1>5, <2>3
    <3>2. s[i - 1] = r[i - 2]
      BY <1>4, <3>1
    <3>3. r[(i - 1) - 1].end < r[i - 1].start
      BY <3>1 DEF Found
    <3> QED
      BY <2>1, <3>1, <3>2, <3>3
  <2> QED
    BY <2>2, <2>3
<1>10. ASSUME NEW k \in p..(n - 1), WordChar(Char(text, k)), k \notin Protected(text, Default)
       PROVE  Reached(text, s, k)
  <2>1. CASE k < q
    <3>1. 1 \in DOMAIN s /\ p <= k /\ IsToken(text, p, q, s[1])
      BY <1>1, <1>4, <1>5
    <3> QED
      BY <1>1, <1>2, <2>1, <3>1 DEF Reached
  <2>2. CASE ~(k < q)
    <3>1. k \in q..(n - 1)
      BY <1>1, <2>2
    <3>2. Reached(text, r, k)
      BY <1>10, <3>1 DEF Found
    <3>3. CASE \E i \in DOMAIN r : \E a, b \in 0..n : a <= k /\ k < b /\ IsToken(text, a, b, r[i])
      <4>1. PICK i \in DOMAIN r : \E a, b \in 0..n : a <= k /\ k < b /\ IsToken(text, a, b, r[i])
        BY <3>3
      <4>2. i + 1 \in DOMAIN s /\ s[i + 1] = r[i]
        BY <1>4, <1>5
      <4> QED
        BY <4>1, <4>2 DEF Reached
    <3>4. CASE \E a, b \in 0..n : /\ a <= k /\ k < b /\ IsRun(text, a, b) /\ WordChar(Char(text, a))
                                  /\ HasDigit(text, a, b)
      BY <3>4 DEF Reached
    <3> QED
      BY <3>2, <3>3, <3>4 DEF Reached
  <2> QED
    BY <2>1, <2>2
<1> QED
  BY <1>4, <1>8, <1>9, <1>10 DEF Found, s

\* A run with a digit before what was found from its end.
LEMMA FoundRun ==
  ASSUME NEW text, IsText(text), NEW p \in 0..(Len(text) - 1), NEW q, NEW r,
         IsRun(text, p, q), WordChar(Char(text, p)), HasDigit(text, p, q), Found(text, r, q)
  PROVE  Found(text, r, p)
<1> DEFINE n == Len(text)
<1>1. n \in Nat /\ q \in (p + 1)..n /\ p \in 0..n
  BY LenIs DEF IsRun
<1>2. q \in 0..n /\ p < q
  BY <1>1
<1>3. ASSUME NEW i \in DOMAIN r
      PROVE  \E a, b \in 0..n : p <= a /\ IsToken(text, a, b, r[i])
  <2>1. PICK a, b \in 0..n : q <= a /\ IsToken(text, a, b, r[i])
    BY DEF Found
  <2>2. p <= a
    BY <1>1, <2>1
  <2> QED
    BY <2>1, <2>2
<1>4. ASSUME NEW k \in p..(n - 1), WordChar(Char(text, k)), k \notin Protected(text, Default)
      PROVE  Reached(text, r, k)
  <2>1. CASE k < q
    <3>1. p <= k
      BY <1>1
    <3> QED
      BY <1>1, <1>2, <2>1, <3>1 DEF Reached
  <2>2. CASE ~(k < q)
    <3>1. k \in q..(n - 1)
      BY <1>1, <2>2
    <3> QED
      BY <1>4, <3>1 DEF Found
  <2> QED
    BY <2>1, <2>2
<1> QED
  BY <1>3, <1>4 DEF Found

\* A character that begins no run.
LEMMA FoundNothing ==
  ASSUME NEW text, IsText(text), NEW p \in 0..(Len(text) - 1), NEW r,
         p \in Protected(text, Default) \/ ~WordChar(Char(text, p)), Found(text, r, p + 1)
  PROVE  Found(text, r, p)
<1> DEFINE n == Len(text)
<1>1. n \in Nat
  BY LenIs
<1>2. ASSUME NEW i \in DOMAIN r
      PROVE  \E a, b \in 0..n : p <= a /\ IsToken(text, a, b, r[i])
  <2>1. PICK a, b \in 0..n : p + 1 <= a /\ IsToken(text, a, b, r[i])
    BY DEF Found
  <2>2. p <= a
    BY <1>1, <2>1
  <2> QED
    BY <2>1, <2>2
<1>3. ASSUME NEW k \in p..(n - 1), WordChar(Char(text, k)), k \notin Protected(text, Default)
      PROVE  Reached(text, r, k)
  <2>1. k # p
    BY <1>3
  <2>2. k \in (p + 1)..(n - 1)
    BY <1>1, <2>1
  <2> QED
    BY <1>3, <2>2 DEF Found
<1> QED
  BY <1>2, <1>3 DEF Found

LEMMA FoundEnd ==
  ASSUME NEW text, IsText(text)
  PROVE  Found(text, <<>>, Len(text))
<1> DEFINE n == Len(text)
<1>1. n..(n - 1) = {}
  BY LenIs
<1>2. <<>> \in Seq(AllTokens(text)) /\ DOMAIN <<>> = {} /\ 2..Len(<<>>) = {}
  OBVIOUS
<1> QED
  BY <1>1, <1>2 DEF Found

LEMMA ScanFinds ==
  ASSUME NEW text, IsText(text), NEW f, Scans(f, text, 0)
  PROVE  \A p \in 0..Len(text) : Found(text, f[p], p)
<1> DEFINE n == Len(text)
           S == {k \in Nat : \A p \in 0..n : n - k <= p => Found(text, f[p], p)}
<1>1. n \in Nat
  BY LenIs
<1>2. f[n] = <<>>
  BY <1>1 DEF Scans
<1>3. ASSUME NEW p \in 0..(n - 1)
      PROVE  f[p] = IF p \in Protected(text, Default) \/ ~WordChar(Char(text, p)) THEN f[p + 1]
                    ELSE Run(text, p, Default) \o f[EndOf(text, p, Default)]
  <2>1. p \in 0..n /\ p # n
    BY <1>1
  <2> QED
    BY <2>1 DEF Scans
<1> HIDE DEF n
<1>4. 0 \in S
  <2>1. \A p \in 0..n : n - 0 <= p => p = n
    BY <1>1
  <2> QED
    BY <1>2, <2>1, FoundEnd DEF n
<1>5. ASSUME NEW k \in Nat, k \in S PROVE k + 1 \in S
  <2> SUFFICES ASSUME NEW p \in 0..n, n - (k + 1) <= p PROVE Found(text, f[p], p)
    OBVIOUS
  <2>1. CASE n - k <= p
    BY <1>5, <2>1
  <2>2. CASE p = n
    BY <1>2, <2>2, FoundEnd DEF n
  <2>3. CASE ~(n - k <= p) /\ p # n
    <3>1. p \in 0..(n - 1) /\ \A q \in (p + 1)..n : q \in 0..n /\ n - k <= q
      BY <1>1, <2>3
    <3>2. p + 1 \in (p + 1)..n
      BY <1>1, <3>1
    <3>3. \A q \in (p + 1)..n : Found(text, f[q], q)
      BY <1>5, <3>1
    <3>4. CASE p \in Protected(text, Default) \/ ~WordChar(Char(text, p))
      <4>1. f[p] = f[p + 1]
        BY <1>3, <3>1, <3>4
      <4>2. Found(text, f[p + 1], p + 1)
        BY <3>2, <3>3
      <4> QED
        BY <3>1, <3>4, <4>1, <4>2, FoundNothing DEF n
    <3>5. CASE ~(p \in Protected(text, Default) \/ ~WordChar(Char(text, p)))
      <4> DEFINE q == EndOf(text, p, Default)
      <4>1. IsRun(text, p, q)
        BY <3>1, EndOfIs DEF n
      <4>2. q \in (p + 1)..n
        BY <4>1 DEF IsRun, n
      <4>3. Found(text, f[q], q)
        BY <3>3, <4>2
      <4>4. f[p] = Run(text, p, Default) \o f[q]
        BY <1>3, <3>1, <3>5
      <4>5. \/ Run(text, p, Default) = <<Token(text, p, q)>>
            \/ Run(text, p, Default) = <<>> /\ HasDigit(text, p, q)
        BY <3>1, RunIs DEF n
      <4> HIDE DEF q
      <4>6. CASE Run(text, p, Default) = <<Token(text, p, q)>>
        <5>1. IsToken(text, p, q, Token(text, p, q))
          BY <3>5, <4>1 DEF IsToken
        <5> QED
          BY <3>1, <4>3, <4>4, <4>6, <5>1, FoundToken DEF n
      <4>7. CASE Run(text, p, Default) = <<>> /\ HasDigit(text, p, q)
        <5>1. <<>> \o f[q] = f[q]
          BY <4>3 DEF Found
        <5> QED
          BY <3>1, <3>5, <4>1, <4>3, <4>4, <4>7, <5>1, FoundRun DEF n
      <4> QED
        BY <4>5, <4>6, <4>7
    <3> QED
      BY <3>4, <3>5
  <2> QED
    BY <2>1, <2>2, <2>3
<1> HIDE DEF S
<1>6. n \in S
  BY <1>1, <1>4, <1>5, SetInduction
<1>7. \A p \in 0..n : n - n <= p
  BY <1>1
<1> QED
  BY <1>6, <1>7 DEF S, n

LEMMA TokensFound ==
  ASSUME NEW text, IsText(text)
  PROVE  Found(text, Tokens(text, Default), 0)
<1>1. PICK f : Scans(f, text, 0) /\ Tokens(text, Default) = f[0]
  BY TokensAre
<1>2. 0 \in 0..Len(text)
  BY LenIs
<1> QED
  BY <1>1, <1>2, ScanFinds

-----------------------------------------------------------------------------
(* Addresses.                                                               *)

\* Where matches end, if they begin at a position.
Ends(from, n) == from \in [0..n -> SUBSET Int] /\ \A p \in 0..n : from[p] \subseteq (p + 1)..n

\* What the recursive definition of Matches says, for the positions from first.
Finds(f, from, n, first) ==
  f = [p \in first..n |->
         IF p = n THEN {}
         ELSE IF from[p] = {} THEN f[p + 1]
         ELSE p..(Longest(from[p]) - 1) \cup f[Longest(from[p])]]

LEMMA LongestIs ==
  ASSUME NEW n \in Nat, NEW p \in 0..n, NEW ends \in SUBSET ((p + 1)..n), ends # {}
  PROVE  Longest(ends) \in ends
<1>1. ends \in SUBSET Nat /\ IsFiniteSet(ends)
  <2>1. IsFiniteSet((p + 1)..n)
    <3>1. p + 1 \in Int /\ n \in Int
      OBVIOUS
    <3> QED
      BY <3>1, FS_Interval
  <2>2. IsFiniteSet(ends)
    BY <2>1, FS_Subset
  <2>3. \A q \in (p + 1)..n : q \in Nat
    OBVIOUS
  <2>4. ends \in SUBSET Nat
    BY <2>3, Zenon
  <2> QED
    BY <2>2, <2>4
<1>2. \E q \in ends : \A r \in ends : r <= q
  BY <1>1, GreatestExists
<1> QED
  BY <1>2 DEF Longest

LEMMA FindsExist ==
  ASSUME NEW n \in Nat, NEW from, Ends(from, n)
  PROVE  \E f : Finds(f, from, n, 0)
<1> DEFINE S == {k \in Nat : k <= n => \E f : Finds(f, from, n, n - k)}
<1>1. 0 \in S
  <2>1. Finds([p \in n..n |-> {}], from, n, n)
    BY DEF Finds
  <2>2. \E f : Finds(f, from, n, n - 0)
    BY <2>1
  <2> QED
    BY <2>2
<1>2. ASSUME NEW k \in Nat, k \in S PROVE k + 1 \in S
  <2> SUFFICES ASSUME k + 1 <= n PROVE \E f : Finds(f, from, n, n - (k + 1))
    OBVIOUS
  <2> DEFINE a == n - (k + 1)
             b == n - k
  <2>1. PICK f : Finds(f, from, n, b)
    BY <1>2
  <2>2. a \in 0..(n - 1) /\ b \in 0..n /\ b = a + 1
    OBVIOUS
  <2>3. \A p \in 0..(n - 1) : from[p] # {} => Longest(from[p]) \in (p + 1)..n
    <3>1. ASSUME NEW p \in 0..(n - 1), from[p] # {} PROVE Longest(from[p]) \in (p + 1)..n
      <4>1. p \in 0..n /\ from[p] \in SUBSET ((p + 1)..n)
        BY DEF Ends
      <4> QED
        BY <3>1, <4>1, LongestIs
    <3> QED
      BY <3>1
  <2> DEFINE first == IF from[a] = {} THEN f[b]
                      ELSE a..(Longest(from[a]) - 1) \cup f[Longest(from[a])]
             g == [p \in a..n |-> IF p = a THEN first ELSE f[p]]
  <2> HIDE DEF a, b, first
  <2>4. \A p \in b..n : p \in a..n /\ p # a /\ g[p] = f[p]
    BY <2>2
  <2>5. a \in a..n /\ a # n /\ g[a] = first
    BY <2>2
  <2>6. first = IF from[a] = {} THEN g[a + 1]
                ELSE a..(Longest(from[a]) - 1) \cup g[Longest(from[a])]
    <3>1. b \in b..n /\ (from[a] # {} => Longest(from[a]) \in b..n)
      BY <2>2, <2>3
    <3> QED
      BY <2>2, <2>4, <3>1 DEF first
  <2>7. ASSUME NEW p \in b..n
        PROVE  f[p] = IF p = n THEN {}
                      ELSE IF from[p] = {} THEN g[p + 1]
                      ELSE p..(Longest(from[p]) - 1) \cup g[Longest(from[p])]
    <3>1. CASE p = n
      BY <2>1, <3>1 DEF Finds
    <3>2. CASE p # n
      <4>1. p \in 0..(n - 1) /\ p + 1 \in b..n
        BY <2>2, <3>2
      <4>2. from[p] # {} => Longest(from[p]) \in b..n
        BY <2>2, <2>3, <4>1
      <4>3. g[p + 1] = f[p + 1] /\ (from[p] # {} => g[Longest(from[p])] = f[Longest(from[p])])
        BY <2>4, <4>1, <4>2
      <4>4. f[p] = IF from[p] = {} THEN f[p + 1]
                   ELSE p..(Longest(from[p]) - 1) \cup f[Longest(from[p])]
        BY <2>1, <3>2 DEF Finds
      <4> QED
        BY <3>2, <4>3, <4>4
    <3> QED
      BY <3>1, <3>2
  <2>8. g = [p \in a..n |->
               IF p = n THEN {}
               ELSE IF from[p] = {} THEN g[p + 1]
               ELSE p..(Longest(from[p]) - 1) \cup g[Longest(from[p])]]
    <3>1. \A p \in a..n : p = a \/ p \in b..n
      BY <2>2
    <3>2. g = [p \in a..n |-> g[p]]
      OBVIOUS
    <3> HIDE DEF g
    <3> QED
      BY <2>4, <2>5, <2>6, <2>7, <3>1, <3>2
  <2> HIDE DEF g
  <2>9. Finds(g, from, n, a)
    BY <2>8 DEF Finds
  <2> QED
    BY <2>9 DEF a
<1> HIDE DEF S
<1>3. n \in S
  BY <1>1, <1>2, SetInduction
<1>4. \E f : Finds(f, from, n, n - n)
  BY <1>3 DEF S
<1> QED
  BY <1>4

\* A position inside a match either begins one or is behind a position inside one.
LEMMA FindsBegin ==
  ASSUME NEW n \in Nat, NEW from, Ends(from, n), NEW f, Finds(f, from, n, 0)
  PROVE  \A p \in 0..n : \A k \in f[p] : k \in p..(n - 1) /\ (from[k] # {} \/ k - 1 \in f[p])
<1> DEFINE Begin(p) == \A k \in f[p] : k \in p..(n - 1) /\ (from[k] # {} \/ k - 1 \in f[p])
           S == {k \in Nat : \A p \in 0..n : n - k <= p => Begin(p)}
<1>1. f[n] = {}
  BY DEF Finds
<1>2. ASSUME NEW p \in 0..(n - 1)
      PROVE  f[p] = IF from[p] = {} THEN f[p + 1]
                    ELSE p..(Longest(from[p]) - 1) \cup f[Longest(from[p])]
  <2>1. p \in 0..n /\ p # n
    OBVIOUS
  <2> QED
    BY <2>1 DEF Finds
<1>3. 0 \in S
  BY <1>1
<1>4. ASSUME NEW k \in Nat, k \in S PROVE k + 1 \in S
  <2> SUFFICES ASSUME NEW p \in 0..n, n - (k + 1) <= p PROVE Begin(p)
    OBVIOUS
  <2>1. CASE n - k <= p
    BY <1>4, <2>1
  <2>2. CASE p = n
    BY <1>1, <2>2
  <2>3. CASE ~(n - k <= p) /\ p # n
    <3>1. p \in 0..(n - 1) /\ \A q \in (p + 1)..n : q \in 0..n /\ n - k <= q
      BY <2>3
    <3>2. \A q \in (p + 1)..n : Begin(q)
      BY <1>4, <3>1
    <3>3. CASE from[p] = {}
      <4>1. f[p] = f[p + 1]
        BY <1>2, <3>1, <3>3
      <4>2. p + 1 \in (p + 1)..n
        BY <3>1
      <4>3. Begin(p + 1)
        BY <3>2, <4>2
      <4>4. ASSUME NEW i \in f[p]
            PROVE  i \in p..(n - 1) /\ (from[i] # {} \/ i - 1 \in f[p])
        <5>1. i \in (p + 1)..(n - 1) /\ (from[i] # {} \/ i - 1 \in f[p + 1])
          BY <4>1, <4>3
        <5>2. i \in p..(n - 1)
          BY <5>1
        <5> QED
          BY <4>1, <5>1, <5>2
      <4> QED
        BY <4>4
    <3>4. CASE from[p] # {}
      <4> DEFINE q == Longest(from[p])
      <4>1. q \in (p + 1)..n
        <5>1. from[p] \in SUBSET ((p + 1)..n)
          BY DEF Ends
        <5> QED
          BY <3>4, <5>1, LongestIs
      <4>2. f[p] = p..(q - 1) \cup f[q]
        BY <1>2, <3>1, <3>4
      <4>3. Begin(q)
        BY <3>2, <4>1
      <4> HIDE DEF q
      <4>4. ASSUME NEW i \in p..(q - 1)
            PROVE  i \in p..(n - 1) /\ (from[i] # {} \/ i - 1 \in f[p])
        <5>1. i \in p..(n - 1) /\ (i = p \/ i - 1 \in p..(q - 1))
          BY <4>1
        <5> QED
          BY <3>4, <4>2, <5>1
      <4>5. ASSUME NEW i \in f[q]
            PROVE  i \in p..(n - 1) /\ (from[i] # {} \/ i - 1 \in f[p])
        <5>1. i \in q..(n - 1) /\ (from[i] # {} \/ i - 1 \in f[q])
          BY <4>3
        <5> QED
          BY <4>1, <4>2, <5>1
      <4> QED
        BY <4>2, <4>4, <4>5
    <3> QED
      BY <3>3, <3>4
  <2> QED
    BY <2>1, <2>2, <2>3
<1> HIDE DEF S
<1>5. n \in S
  BY <1>3, <1>4, SetInduction
<1>6. \A p \in 0..n : n - n <= p
  OBVIOUS
<1> QED
  BY <1>5, <1>6 DEF S

LEMMA MatchesBegin ==
  ASSUME NEW text, IsText(text), NEW from, Ends(from, Len(text)), NEW k \in Matches(text, from)
  PROVE  k \in 0..(Len(text) - 1) /\ (from[k] # {} \/ k - 1 \in Matches(text, from))
<1> DEFINE n == Len(text)
           found == CHOOSE f : Finds(f, from, n, 0)
<1>1. Matches(text, from) = found[0]
  BY DEF Matches, Finds
<1>2. n \in Nat
  BY LenIs
<1>3. Finds(found, from, n, 0)
  BY <1>2, FindsExist
<1> HIDE DEF found, n
<1>4. 0 \in 0..n
  BY <1>2
<1> QED
  BY <1>1, <1>2, <1>3, <1>4, FindsBegin DEF n

\* No letter or digit stands before an address that begins.
LEMMA AddressesBegin ==
  ASSUME NEW text, IsText(text), NEW k \in Protected(text, Default),
         k - 1 \notin Protected(text, Default)
  PROVE  ~WordChar(Char(text, k - 1))
<1>1. Len(text) \in Nat
  BY LenIs
<1>2. /\ Ends(Urls(text), Len(text)) /\ Ends(Emails(text), Len(text))
  <2>1. \A p \in 0..Len(text) : UrlFrom(text, p) \subseteq (p + 1)..Len(text)
    <3>1. ASSUME NEW p \in 0..Len(text), NEW q \in (p + 3)..Len(text)
          PROVE  q \in (p + 1)..Len(text)
      BY <1>1
    <3>2. ASSUME NEW p \in 0..Len(text), NEW q \in UrlFrom(text, p)
          PROVE  q \in (p + 3)..Len(text)
      BY DEF UrlFrom
    <3> QED
      BY <3>1, <3>2
  <2>2. \A p \in 0..Len(text) : EmailFrom(text, p) \subseteq (p + 1)..Len(text)
    BY <1>1 DEF EmailFrom
  <2> QED
    BY <1>1, <2>1, <2>2 DEF Ends, Urls, Emails
<1>3. Protected(text, Default) = Matches(text, Urls(text)) \cup Matches(text, Emails(text))
  BY DEF Protected, Default
<1>4. CASE k \in Matches(text, Urls(text))
  <2>1. k \in 0..Len(text) /\ Urls(text)[k] # {}
    BY <1>1, <1>2, <1>3, <1>4, MatchesBegin
  <2>2. UrlFrom(text, k) # {}
    BY <2>1 DEF Urls
  <2> QED
    BY <2>2 DEF UrlFrom
<1>5. CASE k \in Matches(text, Emails(text))
  <2>1. k \in 0..Len(text) /\ Emails(text)[k] # {}
    BY <1>1, <1>2, <1>3, <1>5, MatchesBegin
  <2>2. EmailFrom(text, k) # {}
    BY <2>1 DEF Emails
  <2> QED
    BY <2>2 DEF EmailFrom
<1> QED
  BY <1>3, <1>4, <1>5

-----------------------------------------------------------------------------
(* The theorem.                                                             *)

LEMMA TokensAreWellCut ==
  ASSUME NEW text, IsText(text), NEW a, NEW b, NEW token, IsToken(text, a, b, token)
  PROVE  WellCut(text, token, Default)
<1> DEFINE n == Len(text)
           Inside(k) == Char(text, k - 1) \in Letters \cup {"^"} /\ Char(text, k + 1) \in Letters
<1>1. n \in Nat /\ a \in 0..n /\ b \in (a + 1)..n
  BY LenIs DEF IsToken, IsRun
<1>2. b \in 0..n /\ b > a /\ a \in Nat /\ b \in Nat
  BY <1>1
<1>3. WordChar(Char(text, a)) /\ a \notin Protected(text, Default) /\ IsRun(text, a, b)
      /\ token = Token(text, a, b)
  BY DEF IsToken
<1>4. /\ token.text = Slice(text, a, b) /\ UnitOffset(text, a) = token.start
      /\ UnitOffset(text, b) = token.end
  BY <1>3 DEF Token
<1>5. Char(text, b) \notin Letters \cup Digits \cup {"^"}
  BY <1>3, RunEnds
<1>6. Char(text, a) \notin Connectors
  BY <1>3 DEF WordChar, Letters, Digits, Connectors
<1>7. \A k \in a..(b - 1) : k = a \/ k \in (a + 1)..(b - 1)
  BY <1>2
<1>8. ASSUME NEW k \in (a + 1)..(b - 1), Char(text, k) \in Connectors PROVE Inside(k)
  <2>1. Continues(text, k, Default)
    BY <1>3 DEF IsRun
  <2>2. Char(text, k) \notin Letters \cup Digits \cup {"^"}
    BY <1>8 DEF Letters, Digits, Connectors
  <2> QED
    BY <2>1, <2>2 DEF Continues, IsInternalConnector
<1>9. \A k \in a..(b - 1) : Char(text, k) \in Connectors => Inside(k)
  BY <1>6, <1>7, <1>8
<1>10. Char(text, b - 1) \notin Connectors
  <2> SUFFICES ASSUME Char(text, b - 1) \in Connectors PROVE FALSE
    OBVIOUS
  <2>1. b - 1 \in a..(b - 1) /\ (b - 1) + 1 = b
    BY <1>2
  <2>2. Inside(b - 1)
    BY <1>9, <2>1
  <2> QED
    BY <1>5, <2>1, <2>2
<1> HIDE DEF Inside
<1>11. a \in 0..n /\ b \in 0..n
  BY <1>1, <1>2
<1>12. ASSUME NEW k \in (a + 1)..(b - 1), k \in Protected(text, Default),
              k - 1 \notin Protected(text, Default)
       PROVE  Char(text, k - 1) \in Connectors \cup {"^"}
  <2>1. ~WordChar(Char(text, k - 1))
    BY <1>12, AddressesBegin
  <2>2. k - 1 \in (a + 1)..(b - 1)
    <3>1. k - 1 # a
      BY <1>3, <2>1
    <3> QED
      BY <1>2, <3>1
  <2>3. Continues(text, k - 1, Default)
    BY <1>3, <2>2 DEF IsRun
  <2> QED
    BY <2>1, <2>3 DEF Continues, IsInternalConnector, WordChar
<1> QED
  BY <1>2, <1>3, <1>4, <1>5, <1>9, <1>10, <1>11, <1>12 DEF WellCut, Inside

\* Between two characters of a run there is no space.
LEMMA RunHasNoSpace ==
  ASSUME NEW text, IsText(text), NEW a, NEW b, IsRun(text, a, b), WordChar(Char(text, a)),
         NEW j \in a..(b - 1)
  PROVE  Char(text, j) # " "
<1>1. Len(text) \in Nat /\ a \in 0..Len(text) /\ b \in (a + 1)..Len(text)
  BY LenIs DEF IsRun
<1>2. j = a \/ j \in (a + 1)..(b - 1)
  BY <1>1
<1>3. CASE j = a
  BY <1>3 DEF WordChar, Letters, Digits
<1>4. CASE j \in (a + 1)..(b - 1)
  <2>1. Continues(text, j, Default)
    BY <1>4 DEF IsRun
  <2> QED
    BY <2>1 DEF Continues, IsInternalConnector, Letters, Digits, Connectors
<1> QED
  BY <1>2, <1>3, <1>4

LEMMA NothingMistokenized ==
  ASSUME NEW text, IsText(text)
  PROVE  LET tokens == Tokens(text, Default)
         IN  /\ \A i \in DOMAIN tokens : WellCut(text, tokens[i], Default)
             /\ \A i \in 2..Len(tokens) : tokens[i - 1].end < tokens[i].start
             /\ \A i \in 2..Len(tokens) : ~(tokens[i - 1].end >= tokens[i].start)
             /\ \A p \in 0..(Len(text) - 1) :
                  Char(text, p) \in Letters /\ p \notin Protected(text, Default) =>
                    \/ \E i \in DOMAIN tokens : UnitOffset(text, p) \in RangeOf(tokens[i])
                    \/ \E k \in 0..(Len(text) - 1) :
                         /\ Char(text, k) \in Digits
                         /\ \A j \in (IF k < p THEN k ELSE p)..(IF k < p THEN p ELSE k) :
                              Char(text, j) # " "
<1> DEFINE s == Tokens(text, Default)
           n == Len(text)
<1>1. Found(text, s, 0) /\ n \in Nat
  BY TokensFound, LenIs
<1> HIDE DEF s
<1>2. ASSUME NEW i \in DOMAIN s PROVE WellCut(text, s[i], Default)
  <2>1. PICK a, b \in 0..n : IsToken(text, a, b, s[i])
    BY <1>1 DEF Found
  <2> QED
    BY <2>1, TokensAreWellCut
<1>3. ASSUME NEW i \in 2..Len(s)
      PROVE  s[i - 1].end < s[i].start /\ ~(s[i - 1].end >= s[i].start)
  <2>1. s[i - 1].end < s[i].start
    BY <1>1 DEF Found
  <2>2. i - 1 \in DOMAIN s /\ i \in DOMAIN s
    BY <1>1 DEF Found
  <2>3. PICK a, b \in 0..n : s[i - 1] = Token(text, a, b)
    BY <1>1, <2>2 DEF Found, IsToken
  <2>4. PICK c, d \in 0..n : s[i] = Token(text, c, d)
    BY <1>1, <2>2 DEF Found, IsToken
  <2>5. UnitOffset(text, b) \in Nat /\ UnitOffset(text, c) \in Nat
    BY <1>1, OffsetsGrow
  <2>6. s[i - 1].end = UnitOffset(text, b) /\ s[i].start = UnitOffset(text, c)
    BY <2>3, <2>4 DEF Token
  <2> QED
    BY <2>1, <2>5, <2>6
<1>4. ASSUME NEW p \in 0..(n - 1), Char(text, p) \in Letters, p \notin Protected(text, Default),
             ~\E i \in DOMAIN s : UnitOffset(text, p) \in RangeOf(s[i])
      PROVE  \E k \in 0..(n - 1) :
               /\ Char(text, k) \in Digits
               /\ \A j \in (IF k < p THEN k ELSE p)..(IF k < p THEN p ELSE k) : Char(text, j) # " "
  <2>1. Reached(text, s, p)
    BY <1>1, <1>4 DEF Found, WordChar
  <2>2. ASSUME NEW i \in DOMAIN s, NEW a \in 0..n, NEW b \in 0..n,
               a <= p, p < b, IsToken(text, a, b, s[i])
        PROVE  FALSE
    <3>1. s[i].start = UnitOffset(text, a) /\ s[i].end = UnitOffset(text, b)
      BY <2>2 DEF IsToken, Token
    <3>2. p \in 0..n /\ (a = p \/ a < p)
      BY <1>1, <2>2
    <3>3. UnitOffset(text, a) <= UnitOffset(text, p) /\ UnitOffset(text, p) < UnitOffset(text, b)
          /\ UnitOffset(text, a) \in Nat /\ UnitOffset(text, p) \in Nat /\ UnitOffset(text, b) \in Nat
      BY <1>1, <2>2, <3>2, OffsetsGrow
    <3>4. UnitOffset(text, p) \in RangeOf(s[i])
      BY <3>1, <3>3 DEF RangeOf
    <3> QED
      BY <1>4, <3>4
  <2>3. PICK a, b \in 0..n : /\ a <= p /\ p < b /\ IsRun(text, a, b) /\ WordChar(Char(text, a))
                             /\ HasDigit(text, a, b)
    BY <2>1, <2>2 DEF Reached
  <2>4. PICK k \in a..(b - 1) : k < n /\ Char(text, k) \in Digits
    BY <2>3 DEF HasDigit
  <2>5. k \in 0..(n - 1) /\ k \in Nat /\ p \in a..(b - 1)
    BY <1>1, <2>3, <2>4
  <2>6. \A j \in (IF k < p THEN k ELSE p)..(IF k < p THEN p ELSE k) : j \in a..(b - 1)
    BY <2>4, <2>5
  <2>7. \A j \in (IF k < p THEN k ELSE p)..(IF k < p THEN p ELSE k) : Char(text, j) # " "
    BY <2>3, <2>6, RunHasNoSpace
  <2> QED
    BY <2>4, <2>5, <2>7
<1> QED
  BY <1>2, <1>3, <1>4 DEF s

\* Of texts of any characters, number and length none is cut wrong: the tokens come in order
\* without touching, each begins with a letter or digit outside the addresses and ends
\* where it cannot go on, an address that one runs into begins behind a connector or a
\* mark, and no letter outside them is left out unless a digit is in its run
\* (tokenizer.py, iter_tokens).
THEOREM TextsAreWellCut ==
  ASSUME NEW S, NEW texts \in SUBSET Seq(S)
  PROVE  Mistokenized(texts, Default) = {}
<1>1. ASSUME NEW text \in Mistokenized(texts, Default) PROVE FALSE
  <2>1. text \in texts
    BY <1>1 DEF Mistokenized
  <2>2. IsText(text)
    BY <2>1 DEF IsText
  <2> QED
    BY <1>1, <2>2, NothingMistokenized DEF Mistokenized
<1> QED
  BY <1>1

-----------------------------------------------------------------------------
(* What an editor relies on.                                                *)

\* Equal stretches of two texts are equally wide.
SameStretch(a, i, b, j, m) ==
  /\ Len(a) \in Nat /\ Len(b) \in Nat /\ i \in Nat /\ j \in Nat /\ m \in Nat
  /\ i + m <= Len(a) /\ j + m <= Len(b)
  /\ \A k \in 1..m : a[i + k] = b[j + k]

LEMMA SameWidths ==
  ASSUME NEW a, NEW b, NEW i, NEW j, NEW m, SameStretch(a, i, b, j, m)
  PROVE  \A k \in 0..m :
           UnitOffset(a, i + k) = UnitOffset(a, i) + (UnitOffset(b, j + k) - UnitOffset(b, j))
<1> DEFINE oa(k) == UnitOffset(a, k)
           ob(k) == UnitOffset(b, k)
           S == {k \in Nat : k <= m => oa(i + k) = oa(i) + (ob(j + k) - ob(j))}
<1>0. /\ Len(a) \in Nat /\ Len(b) \in Nat /\ i \in Nat /\ j \in Nat /\ m \in Nat
      /\ i + m <= Len(a) /\ j + m <= Len(b)
      /\ \A k \in 1..m : a[i + k] = b[j + k]
  BY DEF SameStretch
<1> USE <1>0
<1>1. /\ \A p \in 1..Len(a) : oa(p) = oa(p - 1) + Width(a[p])
      /\ \A p \in 1..Len(b) : ob(p) = ob(p - 1) + Width(b[p])
      /\ \A p \in 0..Len(a) : oa(p) \in Nat
      /\ \A p \in 0..Len(b) : ob(p) \in Nat
  BY UnitOffsetIs, OffsetsGrow
<1> HIDE DEF oa, ob
<1>2. 0 \in S
  <2>1. oa(i) \in Nat /\ ob(j) \in Nat /\ i + 0 = i /\ j + 0 = j
    BY <1>1
  <2> QED
    BY <2>1
<1>3. ASSUME NEW k \in Nat, k \in S PROVE k + 1 \in S
  <2> SUFFICES ASSUME k + 1 <= m PROVE oa(i + (k + 1)) = oa(i) + (ob(j + (k + 1)) - ob(j))
    OBVIOUS
  <2> DEFINE p == i + (k + 1)
             q == j + (k + 1)
  <2>1. p \in 1..Len(a) /\ q \in 1..Len(b) /\ p - 1 = i + k /\ q - 1 = j + k
    OBVIOUS
  <2>2. i + k \in 0..Len(a) /\ j + k \in 0..Len(b) /\ i \in 0..Len(a) /\ j \in 0..Len(b)
    OBVIOUS
  <2>3. a[p] = b[q]
    OBVIOUS
  <2>4. oa(i + k) = oa(i) + (ob(j + k) - ob(j))
    BY <1>3
  <2> HIDE DEF p, q
  <2>5. oa(p) = oa(i + k) + Width(a[p]) /\ ob(q) = ob(j + k) + Width(b[q])
    BY <1>1, <2>1
  <2>8. Width(a[p]) = Width(b[q]) /\ Width(b[q]) \in Nat
    BY <2>3, WidthIs
  <2>6. oa(i) \in Nat /\ ob(j) \in Nat /\ ob(j + k) \in Nat
    BY <1>1, <2>2
  <2>7. oa(p) = oa(i) + (ob(q) - ob(j))
    BY SMTT(30), <2>4, <2>5, <2>6, <2>8
  <2> QED
    BY <2>7 DEF p, q
<1> HIDE DEF S
<1>4. \A k \in Nat : k \in S
  BY <1>2, <1>3, SetInduction
<1> QED
  BY <1>4 DEF S, oa, ob

\* A token lies in its text.
LEMMA TokenIs ==
  ASSUME NEW text, IsText(text), NEW token \in Range(Tokens(text, Default))
  PROVE  \E a, b \in 0..Len(text) :
           /\ a < b /\ token = Token(text, a, b)
           /\ token.start = UnitOffset(text, a) /\ token.end = UnitOffset(text, b)
           /\ token.start \in Nat /\ token.end \in Nat /\ token.start < token.end
<1>1. Found(text, Tokens(text, Default), 0) /\ Len(text) \in Nat
  BY TokensFound, LenIs
<1>2. PICK i \in DOMAIN Tokens(text, Default) : token = Tokens(text, Default)[i]
  BY DEF Range
<1>3. PICK a, b \in 0..Len(text) : IsToken(text, a, b, token)
  BY <1>1, <1>2 DEF Found
<1>4. token = Token(text, a, b) /\ a < b
  BY <1>1, <1>3 DEF IsToken, IsRun
<1>5. token.start = UnitOffset(text, a) /\ token.end = UnitOffset(text, b)
  BY <1>4 DEF Token
<1> QED
  BY <1>1, <1>4, <1>5, OffsetsGrow

\* Two tokens do not touch.
LEMMA TokensApart ==
  ASSUME NEW text, IsText(text),
         NEW t \in Range(Tokens(text, Default)), NEW u \in Range(Tokens(text, Default)), t # u
  PROVE  t.end < u.start \/ u.end < t.start
<1> DEFINE s == Tokens(text, Default)
           l == Len(s)
           S == {k \in Nat : \A i \in 1..l : i < k /\ k <= l => s[i].end < s[k].start}
<1>1. Found(text, s, 0)
  BY TokensFound
<1>2. l \in Nat /\ DOMAIN s = 1..l /\ \A i \in 2..l : s[i - 1].end < s[i].start
  BY <1>1 DEF Found
<1>3. \A i \in 1..l : s[i].start \in Nat /\ s[i].end \in Nat /\ s[i].start < s[i].end
  <2>1. \A i \in 1..l : s[i] \in Range(s)
    BY <1>2 DEF Range
  <2> QED
    BY <2>1, TokenIs
<1> HIDE DEF s, l
<1>4. 0 \in S
  BY <1>2
<1>5. ASSUME NEW k \in Nat, k \in S PROVE k + 1 \in S
  <2> SUFFICES ASSUME NEW i \in 1..l, i < k + 1, k + 1 <= l PROVE s[i].end < s[k + 1].start
    OBVIOUS
  <2>1. k \in 1..l /\ k + 1 \in 2..l /\ (k + 1) - 1 = k /\ k + 1 \in 1..l
    BY <1>2
  <2>2. s[k].end < s[k + 1].start
    BY <1>2, <2>1
  <2>3. i = k \/ s[i].end < s[k].start
    BY <1>5, <2>1
  <2> QED
    BY <1>3, <2>1, <2>2, <2>3
<1> HIDE DEF S
<1>6. \A i, k \in 1..l : i < k => s[i].end < s[k].start
  <2>1. \A k \in Nat : k \in S
    BY <1>4, <1>5, SetInduction
  <2> QED
    BY <1>2, <2>1 DEF S
<1>7. PICK i, k \in 1..l : t = s[i] /\ u = s[k]
  BY <1>2 DEF Range, s
<1>8. i < k \/ k < i
  BY <1>2, <1>7
<1> QED
  BY <1>6, <1>7, <1>8

=============================================================================
