--------------------------- MODULE EvidenceProofs ----------------------------
(***************************************************************************)
(* Where evidence comes from, for any texts, any lines, any directories    *)
(* and commits, and any number of requests: a log is stored whole, and     *)
(* without the secrets that the redactor knows; an excerpt of a log has    *)
(* whole events; and code is of the revision that it names.                *)
(***************************************************************************)
EXTENDS EvidenceIntake, LogExcerpts, CodeReading, DataLemmas

(***************************************************************************)
(*                           LOGS THAT ARE GIVEN                           *)
(***************************************************************************)

Valuing == INSTANCE FoldLemmas WITH Op <- LAMBDA none, read, part : ReadValue(read, part)
Hiding == INSTANCE FoldLemmas WITH Op <- LAMBDA none, out, part : IF part = "token" THEN out \o Mark ELSE Append(out, part)
Opening == INSTANCE FoldLemmas WITH Op <- LAMBDA none, read, part : ReadLogin(read, part)
Cutting == INSTANCE FoldLemmas WITH Op <- LAMBDA none, pieces, part : Cut(pieces, part)
Storing == INSTANCE FoldLemmas WITH Op <- LAMBDA none, rows, text :
             IF Contains(rows, Strip(text)) THEN rows ELSE Append(rows, Strip(text))
Joining == INSTANCE FoldLemmas WITH Op <- LAMBDA none, all, row : all \o row

NoValue == [out |-> << >>, gap |-> << >>, mode |-> "outside"]
NoLogin == [out |-> << >>, gap |-> << >>, open |-> FALSE]

LEMMA ValuesFold == \A text : ValuesRead(text) = Valuing!Fold(0, NoValue, text)
BY DEF ValuesRead, NoValue, FoldLeft, MapThenFoldSet, Max,
       Valuing!Fold, Valuing!FoldLeft, Valuing!MapThenFoldSet, Valuing!Max
LEMMA TokensFold == \A text : RedactTokens(text) = Hiding!Fold(0, << >>, text)
BY DEF RedactTokens, FoldLeft, MapThenFoldSet, Max,
       Hiding!Fold, Hiding!FoldLeft, Hiding!MapThenFoldSet, Hiding!Max
LEMMA LoginsFold == \A text : LoginsRead(text) = Opening!Fold(0, NoLogin, text)
BY DEF LoginsRead, NoLogin, FoldLeft, MapThenFoldSet, Max,
       Opening!Fold, Opening!FoldLeft, Opening!MapThenFoldSet, Opening!Max
LEMMA SplitFold == \A text : Split(text) = Cutting!Fold(0, << << >> >>, text)
BY DEF Split, FoldLeft, MapThenFoldSet, Max,
       Cutting!Fold, Cutting!FoldLeft, Cutting!MapThenFoldSet, Cutting!Max
LEMMA DistinctFold == \A contents : Distinct(contents) = Storing!Fold(0, << >>, contents)
BY DEF Distinct, FoldLeft, MapThenFoldSet, Max,
       Storing!Fold, Storing!FoldLeft, Storing!MapThenFoldSet, Storing!Max
LEMMA JoinedFold == \A rows : Joined(rows) = Joining!Fold(0, << >>, rows)
BY DEF Joined, FoldLeft, MapThenFoldSet, Max,
       Joining!Fold, Joining!FoldLeft, Joining!MapThenFoldSet, Joining!Max

-----------------------------------------------------------------------------
(* Texts and parts of texts *)

TextPart == Parts \union {"[RED", "ACTED]"}
Texts == Seq(TextPart)

LEMMA PieceIs ==
  ASSUME NEW text \in Texts, NEW m \in Nat, NEW n \in Nat, 1 <= m, m <= n + 1, n <= Len(text)
  PROVE  \E t \in Texts : /\ t = SubSeq(text, m, n) /\ Len(t) = n - m + 1
                          /\ \A i \in 1..n - m + 1 : t[i] = text[m + i - 1]
<1>0. m \in Nat \ {0}
  OBVIOUS
<1>1. PICK t : t = SubSeq(text, m, n)
  OBVIOUS
<1>2. t \in Texts
  BY <1>0, <1>1, PartOf DEF Texts
<1>3. Len(t) = IF m <= n THEN n - m + 1 ELSE 0
  BY <1>0, <1>1, PartOf DEF Texts
<1>4. \A i \in 1..n - m + 1 : t[i] = text[m + i - 1]
  BY <1>0, <1>1, PartOf DEF Texts
<1>5. Len(t) = n - m + 1
  BY <1>3
<1>. QED  BY <1>1, <1>2, <1>4, <1>5

LEMMA MoreIs ==
  ASSUME NEW text \in Texts, NEW part \in TextPart
  PROVE  \E t \in Texts : /\ t = Append(text, part) /\ Len(t) = Len(text) + 1 /\ t[Len(text) + 1] = part
                          /\ \A i \in 1..Len(text) : t[i] = text[i]
<1>1. PICK t : t = Append(text, part)
  OBVIOUS
<1>2. t \in Texts /\ Len(t) = Len(text) + 1
  BY <1>1, AppendProperties DEF Texts
<1>3. t[Len(text) + 1] = part
  BY <1>1, AppendProperties DEF Texts
<1>4. \A i \in 1..Len(text) : t[i] = text[i]
  BY <1>1, AppendProperties DEF Texts
<1>. QED  BY <1>1, <1>2, <1>3, <1>4

\* A part of a text is one of the longer text, and goes on with it.
LEMMA PartOfMore ==
  ASSUME NEW text \in Texts, NEW part \in TextPart, NEW n \in Nat, n = Len(text), NEW a \in 1..n + 1
  PROVE  /\ \A b \in 0..n : SubSeq(Append(text, part), a, b) = SubSeq(text, a, b)
         /\ SubSeq(Append(text, part), a, n + 1) = Append(SubSeq(text, a, n), part)
<1>1. PICK more \in Texts : /\ more = Append(text, part) /\ Len(more) = Len(text) + 1 /\ more[Len(text) + 1] = part
                            /\ \A i \in 1..Len(text) : more[i] = text[i]
  BY MoreIs
<1>2. ASSUME NEW b \in 0..n PROVE SubSeq(more, a, b) = SubSeq(text, a, b)
  <2>1. CASE a <= b
    <3>1. a \in Nat /\ b \in Nat /\ 1 <= a /\ a <= b + 1 /\ b <= Len(more) /\ b <= Len(text)
      BY <1>1, <2>1
    <3>2. PICK s \in Texts : /\ s = SubSeq(more, a, b) /\ Len(s) = b - a + 1
                             /\ \A i \in 1..b - a + 1 : s[i] = more[a + i - 1]
      BY <3>1, PieceIs
    <3>3. PICK t \in Texts : /\ t = SubSeq(text, a, b) /\ Len(t) = b - a + 1
                             /\ \A i \in 1..b - a + 1 : t[i] = text[a + i - 1]
      BY <3>1, PieceIs
    <3>4. \A i \in 1..Len(s) : s[i] = t[i]
      BY <1>1, <3>2, <3>3
    <3>. QED  BY <3>2, <3>3, <3>4, SeqEqual DEF Texts
  <2>2. CASE b < a
    BY <2>2, SubSeqEmpty
  <2>. QED  BY <2>1, <2>2
<1>3. SubSeq(more, a, n + 1) = Append(SubSeq(text, a, n), part)
  <2>1. PICK s \in Texts : /\ s = SubSeq(more, a, n + 1) /\ Len(s) = n - a + 2
                           /\ \A i \in 1..n - a + 2 : s[i] = more[a + i - 1]
    <3>1. PICK m \in Nat : m = n + 1
      OBVIOUS
    <3>2. a \in Nat /\ 1 <= a /\ a <= m + 1 /\ m <= Len(more)
      BY <1>1, <3>1
    <3>3. PICK s \in Texts : /\ s = SubSeq(more, a, m) /\ Len(s) = m - a + 1
                             /\ \A i \in 1..m - a + 1 : s[i] = more[a + i - 1]
      BY <3>2, PieceIs
    <3>4. m - a + 1 = n - a + 2
      BY <3>1
    <3>. QED  BY <3>1, <3>3, <3>4
  <2>2. PICK t \in Texts : /\ t = SubSeq(text, a, n) /\ Len(t) = n - a + 1
                           /\ \A i \in 1..n - a + 1 : t[i] = text[a + i - 1]
    <3>1. a \in Nat /\ 1 <= a /\ a <= n + 1 /\ n <= Len(text)
      OBVIOUS
    <3>. QED  BY <3>1, PieceIs
  <2>3. PICK u \in Texts : /\ u = Append(t, part) /\ Len(u) = Len(t) + 1 /\ u[Len(t) + 1] = part
                           /\ \A i \in 1..Len(t) : u[i] = t[i]
    BY MoreIs
  <2>4. \A i \in 1..Len(s) : s[i] = u[i]
    <3>1. Len(s) = Len(t) + 1 /\ Len(t) \in Nat
      BY <2>1, <2>2
    <3>2. \A i \in 1..Len(t) : s[i] = u[i]
      BY <1>1, <2>1, <2>2, <2>3
    <3>3. s[Len(t) + 1] = u[Len(t) + 1]
      BY <1>1, <2>1, <2>2, <2>3
    <3>. QED  BY <3>1, <3>2, <3>3
  <2>5. Len(s) = Len(u)
    BY <2>1, <2>2, <2>3
  <2>. QED  BY <2>1, <2>2, <2>3, <2>4, <2>5, SeqEqual DEF Texts
<1>. QED  BY <1>1, <1>2, <1>3

\* Without the blanks around it, a part of a text is a part of it that still
\* has what is not blank.
LEMMA StripIs ==
  ASSUME NEW x \in Texts, NEW i \in 1..Len(x), x[i] # "blank"
  PROVE  \E a \in 1..i, b \in i..Len(x) : Strip(x) = SubSeq(x, a, b)
<1>1. PICK words : words = { k \in DOMAIN x : x[k] # "blank" }
  OBVIOUS
<1>2. words \in SUBSET Nat /\ words # {} /\ i \in words /\ \A k \in words : k <= Len(x) /\ k >= 1
  BY <1>1 DEF Texts
<1>3. Len(x) \in Nat
  BY DEF Texts
<1>4. Min(words) \in words /\ \A k \in words : Min(words) <= k
  BY <1>2, MinIsLeast
<1>5. Max(words) \in words /\ \A k \in words : k <= Max(words)
  BY <1>2, <1>3, MaxIsGreatest
<1>6. Min(words) \in 1..i /\ Max(words) \in i..Len(x)
  <2>1. Min(words) \in Nat /\ Max(words) \in Nat /\ Min(words) >= 1 /\ Max(words) <= Len(x)
    BY <1>2, <1>4, <1>5
  <2>2. Min(words) <= i /\ i <= Max(words)
    BY <1>2, <1>4, <1>5
  <2>. QED  BY <1>3, <2>1, <2>2
<1>7. Strip(x) = SubSeq(x, Min(words), Max(words))
  BY <1>1, <1>2 DEF Strip
<1>. QED  BY <1>6, <1>7

LEMMA StripOfPart ==
  ASSUME NEW text \in Texts, NEW i \in 1..Len(text), text[i] # "blank",
         NEW c \in 1..i, NEW d \in i..Len(text)
  PROVE  \E j \in 1..i, k \in i..Len(text) : Strip(SubSeq(text, c, d)) = SubSeq(text, j, k)
<1>0. PICK n \in Nat : n = Len(text)
  BY DEF Texts
<1>1. PICK x \in Texts : /\ x = SubSeq(text, c, d) /\ Len(x) = d - c + 1
                         /\ \A k \in 1..d - c + 1 : x[k] = text[c + k - 1]
  <2>1. c \in Nat /\ d \in Nat /\ 1 <= c /\ c <= d + 1 /\ d <= Len(text)
    BY <1>0
  <2>. QED  BY <2>1, PieceIs
<1>2. PICK m \in 1..Len(x) : m = i - c + 1 /\ x[m] # "blank"
  BY <1>0, <1>1
<1>3. PICK a \in 1..m, b \in m..Len(x) : Strip(x) = SubSeq(x, a, b)
  BY <1>2, StripIs
<1>4. SubSeq(x, a, b) = SubSeq(text, c + a - 1, c + b - 1)
  <2>1. c \in 1..Len(text) /\ d \in 1..Len(text) /\ a \in 1..d - c + 1 /\ b \in 1..d - c + 1
    BY <1>0, <1>1, <1>2, <1>3
  <2>2. SubSeq(SubSeq(text, c, d), a, b) = SubSeq(text, c + a - 1, c + b - 1)
    BY <2>1, SubSeqOfSubSeq DEF Texts
  <2>. QED  BY <1>1, <2>2
<1>5. c + a - 1 \in 1..i /\ c + b - 1 \in i..Len(text)
  BY <1>0, <1>1, <1>2, <1>3
<1>. QED  BY <1>1, <1>3, <1>4, <1>5

-----------------------------------------------------------------------------
(* The log *)

LEMMA MarkIsText == Mark \in Texts
BY DEF Mark, Texts, TextPart

LEMMA ThreeTexts == \A x, y, z \in Texts : (x \o y) \o z = x \o (y \o z)
BY ConcatAssociative, SMTT(30) DEF Texts

LEMMA BothAreText == \A x, y \in Texts : x \o y \in Texts
BY ConcatProperties DEF Texts

\* The states that the rules for values and for logins pass through.
ValueState == [out : Texts, gap : Texts, mode : {"outside", "key", "value"}]
LoginState == [out : Texts, gap : Texts, open : BOOLEAN]

\* What a step of the rule for values puts out is nothing, the mark, or what has
\* waited and the part.
LEMMA ReadValueIs ==
  ASSUME NEW read \in ValueState, NEW part \in TextPart
  PROVE  /\ ReadValue(read, part) \in ValueState
         /\ \/ ReadValue(read, part) = read
            \/ ReadValue(read, part) = [read EXCEPT !.gap = Append(@, part)] /\ part = "blank"
            \/ ReadValue(read, part) = [out |-> read.out \o Mark, gap |-> << >>, mode |-> "value"]
            \/ \E mode \in {"outside", "key"} :
                 ReadValue(read, part) = [out |-> Append(read.out \o read.gap, part), gap |-> << >>, mode |-> mode]
<1>1. read.out \in Texts /\ read.gap \in Texts
  BY DEF ValueState
<1>2. Append(read.out \o read.gap, part) \in Texts
  BY <1>1 DEF Texts
<1>3. Append(read.gap, part) \in Texts
  BY <1>1 DEF Texts
<1>4. read.out \o Mark \in Texts
  BY <1>1, MarkIsText DEF Texts
<1>5. << >> \in Texts
  BY DEF Texts
<1>6. [read EXCEPT !.gap = Append(@, part)] \in ValueState
  BY <1>3 DEF ValueState
<1>7. [out |-> read.out \o Mark, gap |-> << >>, mode |-> "value"] \in ValueState
  BY <1>4, <1>5 DEF ValueState
<1>8. \A mode \in {"outside", "key"} :
        [out |-> Append(read.out \o read.gap, part), gap |-> << >>, mode |-> mode] \in ValueState
  BY <1>2, <1>5 DEF ValueState
<1>. DEFINE next == ReadValue(read, part)
            text == Append(read.out \o read.gap, part)
<1>9. \/ \E mode \in {"outside", "key"} : next = [out |-> text, gap |-> << >>, mode |-> mode]
      \/ next = [read EXCEPT !.gap = Append(@, part)] /\ part = "blank"
      \/ next = [out |-> read.out \o Mark, gap |-> << >>, mode |-> "value"]
      \/ next = read
  <2>1. CASE read.mode = "outside" \/ (read.mode = "value" /\ part \in {"blank", "comma"})
    BY <2>1 DEF ReadValue
  <2>2. CASE read.mode = "key" /\ part = "blank"
    BY <2>2 DEF ReadValue
  <2>0. Head(Mark) = "[RED"
    BY DEF Mark
  <2>3. CASE read.mode = "key" /\ part \in {"comma", Head(Mark)}
    BY <2>0, <2>3 DEF ReadValue
  <2>4. CASE read.mode = "key" /\ part \notin {"blank", "comma", Head(Mark)}
    BY <2>4 DEF ReadValue
  <2>5. CASE read.mode = "value" /\ part \notin {"blank", "comma"}
    BY <2>5 DEF ReadValue
  <2>. QED  BY <2>1, <2>2, <2>3, <2>4, <2>5 DEF ValueState
<1>. QED  BY <1>6, <1>7, <1>8, <1>9

LEMMA ReadLoginIs ==
  ASSUME NEW read \in LoginState, NEW part \in TextPart
  PROVE  /\ ReadLogin(read, part) \in LoginState
         /\ \/ ReadLogin(read, part) = [read EXCEPT !.gap = Append(@, part)]
            \/ ReadLogin(read, part) = [out |-> read.out \o Mark \o <<part>>, gap |-> << >>, open |-> FALSE]
            \/ \E open \in BOOLEAN :
                 ReadLogin(read, part) = [out |-> Append(read.out \o read.gap, part), gap |-> << >>, open |-> open]
<1>1. read.out \in Texts /\ read.gap \in Texts
  BY DEF LoginState
<1>2. Append(read.out \o read.gap, part) \in Texts
  BY <1>1 DEF Texts
<1>3. Append(read.gap, part) \in Texts
  BY <1>1 DEF Texts
<1>4. read.out \o Mark \o <<part>> \in Texts
  BY <1>1, MarkIsText DEF Texts
<1>5. << >> \in Texts
  BY DEF Texts
<1>6. [read EXCEPT !.gap = Append(@, part)] \in LoginState
  BY <1>3 DEF LoginState
<1>7. [out |-> read.out \o Mark \o <<part>>, gap |-> << >>, open |-> FALSE] \in LoginState
  BY <1>4, <1>5 DEF LoginState
<1>8. \A open \in BOOLEAN :
        [out |-> Append(read.out \o read.gap, part), gap |-> << >>, open |-> open] \in LoginState
  BY <1>2, <1>5 DEF LoginState
<1>. QED  BY <1>6, <1>7, <1>8 DEF ReadLogin

LEMMA ValuesReadIs ==
  /\ ValuesRead(<< >>) = NoValue
  /\ \A text \in Texts : ValuesRead(text) \in ValueState
  /\ \A text \in Texts, part \in TextPart : ValuesRead(Append(text, part)) = ReadValue(ValuesRead(text), part)
<1>1. ValuesRead(<< >>) = NoValue
  BY ValuesFold, Valuing!FoldOfNothing
<1>2. \A text \in Texts : ValuesRead(text) \in ValueState
  <2>1. NoValue \in ValueState
    BY DEF NoValue, Texts, ValueState
  <2>2. \A read \in ValueState, part \in TextPart : ReadValue(read, part) \in ValueState
    BY ReadValueIs
  <2>3. \A text \in Seq(TextPart) : Valuing!Fold(0, NoValue, text) \in ValueState
    BY <2>1, <2>2, Valuing!FoldIn
  <2>. QED  BY <2>3, ValuesFold DEF Texts
<1>3. ASSUME NEW text \in Texts, NEW part \in TextPart
      PROVE  ValuesRead(Append(text, part)) = ReadValue(ValuesRead(text), part)
  <2>1. Valuing!Fold(0, NoValue, Append(text, part)) = ReadValue(Valuing!Fold(0, NoValue, text), part)
    BY Valuing!FoldOfMore DEF Texts
  <2>. QED  BY <2>1, ValuesFold
<1>. QED  BY <1>1, <1>2, <1>3

LEMMA LoginsReadIs ==
  /\ LoginsRead(<< >>) = NoLogin
  /\ \A text \in Texts : LoginsRead(text) \in LoginState
  /\ \A text \in Texts, part \in TextPart : LoginsRead(Append(text, part)) = ReadLogin(LoginsRead(text), part)
<1>1. LoginsRead(<< >>) = NoLogin
  BY LoginsFold, Opening!FoldOfNothing
<1>2. \A text \in Texts : LoginsRead(text) \in LoginState
  <2>1. NoLogin \in LoginState
    BY DEF NoLogin, Texts, LoginState
  <2>2. \A read \in LoginState, part \in TextPart : ReadLogin(read, part) \in LoginState
    BY ReadLoginIs
  <2>3. \A text \in Seq(TextPart) : Opening!Fold(0, NoLogin, text) \in LoginState
    BY <2>1, <2>2, Opening!FoldIn
  <2>. QED  BY <2>3, LoginsFold DEF Texts
<1>3. ASSUME NEW text \in Texts, NEW part \in TextPart
      PROVE  LoginsRead(Append(text, part)) = ReadLogin(LoginsRead(text), part)
  <2>1. Opening!Fold(0, NoLogin, Append(text, part)) = ReadLogin(Opening!Fold(0, NoLogin, text), part)
    BY Opening!FoldOfMore DEF Texts
  <2>. QED  BY <2>1, LoginsFold
<1>. QED  BY <1>1, <1>2, <1>3

LEMMA TokensReadIs ==
  /\ RedactTokens(<< >>) = << >>
  /\ \A text \in Texts : RedactTokens(text) \in Texts
  /\ \A text \in Texts, part \in TextPart :
       RedactTokens(Append(text, part)) =
         IF part = "token" THEN RedactTokens(text) \o Mark ELSE Append(RedactTokens(text), part)
<1>1. RedactTokens(<< >>) = << >>
  BY TokensFold, Hiding!FoldOfNothing
<1>2. \A text \in Texts : RedactTokens(text) \in Texts
  <2>1. << >> \in Texts
    BY DEF Texts
  <2>2. \A text \in Texts, part \in TextPart : (IF part = "token" THEN text \o Mark ELSE Append(text, part)) \in Texts
    BY MarkIsText DEF Texts
  <2>3. \A text \in Seq(TextPart) : Hiding!Fold(0, << >>, text) \in Texts
    BY <2>1, <2>2, Hiding!FoldIn
  <2>. QED  BY <2>3, TokensFold DEF Texts
<1>3. ASSUME NEW text \in Texts, NEW part \in TextPart
      PROVE  RedactTokens(Append(text, part)) =
               IF part = "token" THEN RedactTokens(text) \o Mark ELSE Append(RedactTokens(text), part)
  <2>1. Hiding!Fold(0, << >>, Append(text, part)) =
          IF part = "token" THEN Hiding!Fold(0, << >>, text) \o Mark ELSE Append(Hiding!Fold(0, << >>, text), part)
    BY Hiding!FoldOfMore DEF Texts
  <2>. QED  BY <2>1, TokensFold
<1>. QED  BY <1>1, <1>2, <1>3

\* What the redactor returns is a text.
LEMMA RedactIsText == \A text \in Texts : Redact(text) \in Texts
<1>1. \A text \in Texts : RedactValues(text) \in Texts
  BY ValuesReadIs, BothAreText DEF RedactValues, ValueState
<1>2. \A text \in Texts : RedactLogins(text) \in Texts
  BY LoginsReadIs, BothAreText DEF RedactLogins, LoginState
<1>. QED  BY <1>1, <1>2, TokensReadIs DEF Redact

\* The last piece is the end of the text, and what comes before it is in the others.
EarlierIn(text, pieces, a) ==
  \A i \in 1..a - 1 : \E q \in 1..Len(pieces) - 1 : \E c \in 1..i, d \in i..Len(text) :
    pieces[q] = SubSeq(text, c, d)
Covered(text, pieces) ==
  /\ pieces \in Seq(Texts) /\ pieces # << >>
  /\ \E a \in 1..Len(text) + 1 : pieces[Len(pieces)] = SubSeq(text, a, Len(text)) /\ EarlierIn(text, pieces, a)

LEMMA CutCovers ==
  ASSUME NEW text \in Texts, NEW part \in TextPart, NEW pieces, Covered(text, pieces)
  PROVE  Covered(Append(text, part), Cut(pieces, part))
<1>1. PICK n \in Nat, m \in Nat \ {0} : n = Len(text) /\ m = Len(pieces) /\ pieces \in Seq(Texts)
  BY EmptySeq DEF Texts, Covered
<1>2. PICK a \in 1..n + 1 : pieces[m] = SubSeq(text, a, n) /\ EarlierIn(text, pieces, a)
  BY <1>1 DEF Covered
<1>3. PICK more \in Texts : more = Append(text, part) /\ Len(more) = n + 1
  BY <1>1, MoreIs
<1>4. /\ \A c \in 1..n + 1, b \in 0..n : SubSeq(more, c, b) = SubSeq(text, c, b)
      /\ \A c \in 1..n + 1 : SubSeq(more, c, n + 1) = Append(SubSeq(text, c, n), part)
  BY <1>1, <1>3, PartOfMore, SMTT(30)
<1>5. PICK last \in Texts : last = pieces[m]
  BY <1>1, ElementOfSeq
<1>6. PICK q : q = Cut(pieces, part)
  OBVIOUS
<1>7. CASE q = Append(pieces, <<part>>)
  <2>1. <<part>> \in Texts
    BY DEF Texts
  <2>2. q \in Seq(Texts) /\ q # << >> /\ Len(q) = m + 1
    BY <1>1, <1>7, <2>1, AppendProperties
  <2>3. q[m + 1] = <<part>>
    BY <1>1, <1>7, <2>1, AppendProperties
  <2>4. \A i \in 1..m : q[i] = pieces[i]
    BY <1>1, <1>7, <2>1, AppendProperties
  <2>5. q[m + 1] = SubSeq(more, n + 1, n + 1)
    <3>1. PICK k \in 1..n + 1 : k = n + 1 /\ n < k
      OBVIOUS
    <3>2. SubSeq(text, k, n) = << >>
      BY <3>1, SubSeqEmpty
    <3>3. SubSeq(more, k, n + 1) = Append(<< >>, part)
      BY <1>4, <3>2
    <3>4. Append(<< >>, part) = <<part>>
      OBVIOUS
    <3>. QED  BY <2>3, <3>1, <3>3, <3>4
  <2>6. ASSUME NEW i \in 1..n
        PROVE  \E p \in 1..m : \E c \in 1..i, d \in i..n + 1 : q[p] = SubSeq(more, c, d)
    <3>1. CASE i < a
      <4>0. i \in 1..a - 1
        BY <3>1
      <4>1. PICK p \in 1..m - 1 : \E c \in 1..i, d \in i..n : pieces[p] = SubSeq(text, c, d)
        BY <1>1, <1>2, <4>0 DEF EarlierIn
      <4>2. PICK c \in 1..i, d \in i..n : pieces[p] = SubSeq(text, c, d)
        BY <4>1
      <4>3. p \in 1..m /\ d \in i..n + 1 /\ c \in 1..n + 1 /\ d \in 0..n
        OBVIOUS
      <4>4. q[p] = SubSeq(more, c, d)
        BY <1>4, <2>4, <4>2, <4>3
      <4>. QED  BY <4>3, <4>4
    <3>2. CASE a <= i
      <4>1. a \in 1..i /\ n \in i..n + 1 /\ m \in 1..m /\ n \in 0..n
        BY <3>2
      <4>2. q[m] = SubSeq(more, a, n)
        BY <1>2, <1>4, <2>4, <4>1
      <4>. QED  BY <4>1, <4>2
    <3>3. i < a \/ a <= i
      OBVIOUS
    <3>. QED  BY <3>1, <3>2, <3>3
  <2>7. EarlierIn(more, q, n + 1)
    <3>1. ASSUME NEW i \in 1..(n + 1) - 1
          PROVE  \E p \in 1..Len(q) - 1 : \E c \in 1..i, d \in i..Len(more) : q[p] = SubSeq(more, c, d)
      <4>1. i \in 1..n /\ Len(q) - 1 = m
        BY <2>2
      <4>2. \E p \in 1..m : \E c \in 1..i, d \in i..n + 1 : q[p] = SubSeq(more, c, d)
        BY <2>6, <4>1
      <4>. QED  BY <1>3, <4>1, <4>2
    <3>. QED  BY <3>1 DEF EarlierIn
  <2>8. n + 1 \in 1..Len(more) + 1
    BY <1>3
  <2>9. Covered(more, q)
    BY <1>3, <2>2, <2>5, <2>7, <2>8 DEF Covered
  <2>. QED  BY <1>3, <1>6, <2>9
<1>8. CASE q = Append(Front(pieces), Append(last, part))
  <2>1. PICK longer \in Texts : longer = Append(last, part)
    BY MoreIs
  <2>2. PICK front : front = Front(pieces)
    OBVIOUS
  <2>3. m - 1 \in Nat /\ m - 1 <= Len(pieces)
    BY <1>1
  <2>4. front \in Seq(Texts) /\ Len(front) = m - 1
    <3>1. PICK k \in Nat : k = m - 1 /\ k <= Len(pieces)
      BY <2>3
    <3>2. front = SubSeq(pieces, 1, k)
      BY <1>1, <2>2, <3>1 DEF Front
    <3>. QED  BY <1>1, <3>1, <3>2, FirstOf
  <2>5. \A i \in 1..m - 1 : front[i] = pieces[i]
    <3>1. PICK k \in Nat : k = m - 1 /\ k <= Len(pieces)
      BY <2>3
    <3>2. front = SubSeq(pieces, 1, k)
      BY <1>1, <2>2, <3>1 DEF Front
    <3>. QED  BY <1>1, <3>1, <3>2, FirstOf
  <2>6. q \in Seq(Texts) /\ q # << >> /\ Len(q) = m
    <3>1. q = Append(front, longer)
      BY <1>8, <2>1, <2>2
    <3>2. q \in Seq(Texts) /\ q # << >> /\ Len(q) = Len(front) + 1
      BY <2>4, <3>1, AppendProperties
    <3>. QED  BY <2>4, <3>2
  <2>7. q[m] = longer
    <3>1. q = Append(front, longer)
      BY <1>8, <2>1, <2>2
    <3>2. q[Len(front) + 1] = longer
      BY <2>4, <3>1, AppendProperties
    <3>. QED  BY <2>4, <3>2
  <2>8. \A i \in 1..m - 1 : q[i] = pieces[i]
    <3>1. q = Append(front, longer)
      BY <1>8, <2>1, <2>2
    <3>2. \A i \in 1..Len(front) : q[i] = front[i]
      BY <2>4, <3>1, AppendProperties
    <3>. QED  BY <2>4, <2>5, <3>2
  <2>9. q[m] = SubSeq(more, a, n + 1)
    BY <1>2, <1>4, <1>5, <2>1, <2>7
  <2>10. ASSUME NEW i \in 1..a - 1
        PROVE  \E p \in 1..m - 1 : \E c \in 1..i, d \in i..n + 1 : q[p] = SubSeq(more, c, d)
    <3>1. PICK p \in 1..m - 1 : \E c \in 1..i, d \in i..n : pieces[p] = SubSeq(text, c, d)
      BY <1>1, <1>2 DEF EarlierIn
    <3>2. PICK c \in 1..i, d \in i..n : pieces[p] = SubSeq(text, c, d)
      BY <3>1
    <3>3. d \in i..n + 1 /\ c \in 1..n + 1 /\ d \in 0..n
      OBVIOUS
    <3>4. q[p] = SubSeq(more, c, d)
      BY <1>4, <2>8, <3>2, <3>3
    <3>. QED  BY <3>3, <3>4
  <2>11. EarlierIn(more, q, a)
    <3>1. \A i \in 1..a - 1 : \E p \in 1..m - 1 : \E c \in 1..i, d \in i..n + 1 : q[p] = SubSeq(more, c, d)
      BY <2>10
    <3>2. Len(q) = m /\ Len(more) = n + 1
      BY <1>3, <2>6
    <3>. QED  BY <3>1, <3>2 DEF EarlierIn
  <2>12. a \in 1..Len(more) + 1
    BY <1>3
  <2>13. Covered(more, q)
    BY <1>3, <2>6, <2>9, <2>11, <2>12 DEF Covered
  <2>. QED  BY <1>3, <1>6, <2>13
<1>9. q = Append(pieces, <<part>>) \/ q = Append(Front(pieces), Append(last, part))
  BY <1>1, <1>5, <1>6 DEF Cut, Last
<1>. QED  BY <1>7, <1>8, <1>9

LEMMA SplitCovers == \A text \in Texts : Covered(text, Split(text))
<1>. DEFINE T == { text \in Texts : Covered(text, Cutting!Fold(0, << << >> >>, text)) }
<1>1. << >> \in T
  <2>1. << >> \in Texts /\ << << >> >> \in Seq(Texts) /\ Len(<< >>) = 0 /\ Len(<< << >> >>) = 1
    BY DEF Texts
  <2>2. SubSeq(<< >>, 1, 0) = << >>
    BY SubSeqEmpty
  <2>3. EarlierIn(<< >>, << << >> >>, 1)
    BY DEF EarlierIn
  <2>4. Covered(<< >>, << << >> >>)
    BY <2>1, <2>2, <2>3 DEF Covered
  <2>. QED  BY <2>1, <2>4, Cutting!FoldOfNothing
<1>2. ASSUME NEW text \in Seq(TextPart), NEW part \in TextPart, text \in T PROVE Append(text, part) \in T
  <2>1. PICK pieces : pieces = Cutting!Fold(0, << << >> >>, text) /\ Covered(text, pieces)
    BY <1>2
  <2>2. Cutting!Fold(0, << << >> >>, Append(text, part)) = Cut(pieces, part)
    BY <2>1, Cutting!FoldOfMore
  <2>3. Covered(Append(text, part), Cut(pieces, part))
    BY <2>1, CutCovers DEF Texts
  <2>4. Append(text, part) \in Texts
    BY AppendProperties DEF Texts
  <2>. QED  BY <2>2, <2>3, <2>4
<1>3. \A text \in Seq(TextPart) : text \in T
  <2>. HIDE DEF T
  <2>. QED  BY <1>1, <1>2, AllSequences
<1>. QED  BY <1>3, SplitFold DEF Texts

\* Each part of a text is in a piece.
LEMMA SplitIsWhole ==
  ASSUME NEW text \in Texts, NEW i \in 1..Len(text)
  PROVE  \E q \in 1..Len(Split(text)) : \E c \in 1..i, d \in i..Len(text) : Split(text)[q] = SubSeq(text, c, d)
<1>1. PICK pieces : pieces = Split(text) /\ Covered(text, pieces)
  BY SplitCovers
<1>2. PICK n \in Nat, m \in Nat \ {0} : n = Len(text) /\ m = Len(pieces) /\ pieces \in Seq(Texts)
  BY <1>1, EmptySeq DEF Texts, Covered
<1>3. PICK a \in 1..n + 1 : pieces[m] = SubSeq(text, a, n) /\ EarlierIn(text, pieces, a)
  BY <1>1, <1>2 DEF Covered
<1>4. CASE i < a
  <2>1. i \in 1..a - 1
    BY <1>2, <1>4
  <2>2. PICK q \in 1..m - 1 : \E c \in 1..i, d \in i..n : pieces[q] = SubSeq(text, c, d)
    BY <1>2, <1>3, <2>1 DEF EarlierIn
  <2>3. q \in 1..m
    OBVIOUS
  <2>. QED  BY <1>1, <1>2, <2>2, <2>3
<1>5. CASE a <= i
  <2>1. a \in 1..i /\ n \in i..n /\ m \in 1..m
    BY <1>2, <1>5
  <2>. QED  BY <1>1, <1>2, <1>3, <2>1
<1>6. i < a \/ a <= i
  BY <1>2
<1>. QED  BY <1>4, <1>5, <1>6

\* Every content is stored, once.
LEMMA StripIsText == \A x \in Texts : Strip(x) \in Texts
<1>. SUFFICES ASSUME NEW x \in Texts PROVE Strip(x) \in Texts
  OBVIOUS
<1>1. CASE \E i \in 1..Len(x) : x[i] # "blank"
  <2>1. PICK i \in 1..Len(x) : x[i] # "blank"
    BY <1>1
  <2>2. PICK a \in 1..i, b \in i..Len(x) : Strip(x) = SubSeq(x, a, b)
    BY <2>1, StripIs
  <2>3. Len(x) \in Nat
    BY DEF Texts
  <2>4. a \in Nat /\ b \in Nat /\ 1 <= a /\ a <= b + 1 /\ b <= Len(x)
    BY <2>3
  <2>. QED  BY <2>2, <2>4, PieceIs
<1>2. CASE \A i \in 1..Len(x) : x[i] = "blank"
  <2>1. DOMAIN x = 1..Len(x)
    BY DEF Texts
  <2>2. { i \in DOMAIN x : x[i] # "blank" } = {}
    BY <1>2, <2>1
  <2>3. Strip(x) = << >>
    BY <2>2 DEF Strip
  <2>. QED  BY <2>3 DEF Texts
<1>. QED  BY <1>1, <1>2

HasAll(contents, rows) == rows \in Seq(Texts) /\ \A i \in 1..Len(contents) : Contains(rows, Strip(contents[i]))

LEMMA DistinctHasAll == \A contents \in Seq(Texts) : HasAll(contents, Distinct(contents))
<1>. DEFINE T == { contents \in Seq(Texts) : HasAll(contents, Storing!Fold(0, << >>, contents)) }
<1>1. << >> \in T
  <2>1. << >> \in Seq(Texts) /\ Len(<< >>) = 0
    OBVIOUS
  <2>2. HasAll(<< >>, << >>)
    BY <2>1 DEF HasAll
  <2>. QED  BY <2>1, <2>2, Storing!FoldOfNothing
<1>2. ASSUME NEW contents \in Seq(Texts), NEW text \in Texts, contents \in T PROVE Append(contents, text) \in T
  <2>1. PICK rows : rows = Storing!Fold(0, << >>, contents) /\ HasAll(contents, rows)
    BY <1>2
  <2>2. PICK more : more = Storing!Fold(0, << >>, Append(contents, text))
    OBVIOUS
  <2>3. more = IF Contains(rows, Strip(text)) THEN rows ELSE Append(rows, Strip(text))
    BY <2>1, <2>2, Storing!FoldOfMore
  <2>4. PICK all : /\ all = Append(contents, text) /\ all \in Seq(Texts) /\ Len(all) = Len(contents) + 1
                   /\ all[Len(contents) + 1] = text /\ \A i \in 1..Len(contents) : all[i] = contents[i]
    <3>1. PICK all : all = Append(contents, text)
      OBVIOUS
    <3>2. all \in Seq(Texts) /\ Len(all) = Len(contents) + 1
      BY <3>1, AppendProperties
    <3>3. all[Len(contents) + 1] = text
      BY <3>1, AppendProperties
    <3>4. \A i \in 1..Len(contents) : all[i] = contents[i]
      BY <3>1, AppendProperties
    <3>. QED  BY <3>1, <3>2, <3>3, <3>4
  <2>5. PICK row \in Texts : row = Strip(text)
    BY StripIsText
  <2>6. more \in Seq(Texts) /\ Contains(more, row) /\ \A e : Contains(rows, e) => Contains(more, e)
    <3>0. rows \in Seq(Texts)
      BY <2>1 DEF HasAll
    <3>1. CASE Contains(rows, row)
      BY <2>3, <2>5, <3>0, <3>1
    <3>2. CASE more = Append(rows, row)
      <4>1. more \in Seq(Texts) /\ Len(more) = Len(rows) + 1 /\ Len(rows) \in Nat
        BY <3>0, <3>2, AppendProperties
      <4>2. more[Len(rows) + 1] = row
        BY <3>0, <3>2, AppendProperties
      <4>3. \A i \in 1..Len(rows) : more[i] = rows[i]
        BY <3>0, <3>2, AppendProperties
      <4>4. Contains(more, row)
        BY <4>1, <4>2 DEF Contains
      <4>5. ASSUME NEW e, Contains(rows, e) PROVE Contains(more, e)
        <5>1. PICK i \in 1..Len(rows) : rows[i] = e
          BY <4>5 DEF Contains
        <5>2. i \in 1..Len(more) /\ more[i] = e
          BY <4>1, <4>3, <5>1
        <5>. QED  BY <5>2 DEF Contains
      <4>. QED  BY <4>1, <4>4, <4>5
    <3>. QED  BY <2>3, <2>5, <3>1, <3>2
  <2>7. ASSUME NEW i \in 1..Len(all) PROVE Contains(more, Strip(all[i]))
    <3>1. CASE i = Len(contents) + 1
      BY <2>4, <2>5, <2>6, <3>1
    <3>2. CASE i \in 1..Len(contents)
      BY <2>1, <2>4, <2>6, <3>2 DEF HasAll
    <3>3. i = Len(contents) + 1 \/ i \in 1..Len(contents)
      BY <2>4
    <3>. QED  BY <3>1, <3>2, <3>3
  <2>8. HasAll(all, more)
    BY <2>6, <2>7 DEF HasAll
  <2>. QED  BY <2>2, <2>4, <2>8
<1>3. \A contents \in Seq(Texts) : contents \in T
  <2>. HIDE DEF T
  <2>. QED  BY <1>1, <1>2, AllSequences
<1>. QED  BY <1>3, DistinctFold

\* A log that is accepted is stored whole.
IntakeInv ==
  /\ typed \in Seq(Parts) /\ kept \in Seq(Texts)
  /\ taken = "no" => kept = << >>
  /\ LogIsStoredWhole

LEMMA TypedIsText == typed \in Seq(Parts) => typed \in Texts /\ Redact(typed) \in Texts
BY RedactIsText DEF Texts, TextPart

LEMMA LogIsKept ==
  ASSUME IntakeInv, CreateWithLog
  PROVE  IntakeInv'
<1>1. PICK text \in Texts : text = Redact(typed)
  BY TypedIsText DEF IntakeInv
<1>2. PICK contents : contents = <<Symptom>> \o LogContents(typed)
  OBVIOUS
<1>3. /\ taken = "no" /\ typed' = typed
      /\ \/ kept' = Distinct(kept \o contents) /\ taken' = "log" /\ \A i \in DOMAIN contents : Acceptable(contents[i])
         \/ kept' = kept /\ taken' = "refused"
  BY <1>2 DEF CreateWithLog, Keep
<1>4. CASE taken' = "refused"
  BY <1>3, <1>4 DEF IntakeInv, LogIsStoredWhole
<1>5. CASE taken' = "log"
  <2>1. LogContents(typed) \in Seq(Texts) /\ (~AllBlank(text) => LogContents(typed) = Split(text))
    BY <1>1, SplitCovers DEF LogContents, Covered
  <2>2. PICK cut \in Seq(Texts) : cut = LogContents(typed) /\ (~AllBlank(text) => cut = Split(text))
    BY <2>1
  <2>3. <<Symptom>> \in Seq(Texts) /\ Len(<<Symptom>>) = 1
    BY DEF Symptom, Texts, TextPart, Parts
  <2>4. contents \in Seq(Texts) /\ Len(contents) = Len(cut) + 1
    BY <1>2, <2>2, <2>3, ConcatProperties
  <2>5. \A i \in 1..Len(cut) : contents[i + 1] = cut[i]
    <3>1. \A i \in 1..1 + Len(cut) : (<<Symptom>> \o cut)[i] = IF i <= 1 THEN <<Symptom>>[i] ELSE cut[i - 1]
      BY <2>2, <2>3, ConcatProperties
    <3>2. ASSUME NEW i \in 1..Len(cut) PROVE contents[i + 1] = cut[i]
      <4>1. PICK j \in Int : j = i + 1 /\ j \in 1..1 + Len(cut) /\ ~(j <= 1) /\ j - 1 = i
        OBVIOUS
      <4>. QED  BY <1>2, <2>2, <3>1, <4>1
    <3>. QED  BY <3>2
  <2>6. kept \o contents = contents
    BY <1>3, <2>4, ConcatEmptySeq DEF IntakeInv
  <2>7. kept' = Distinct(contents) /\ \A i \in DOMAIN contents : Acceptable(contents[i])
    BY <1>3, <1>5, <2>6
  <2>8. HasAll(contents, kept')
    BY <2>4, <2>7, DistinctHasAll
  <2>9. ASSUME NEW i \in 1..Len(text), text[i] # "blank"
        PROVE  \E j \in 1..i, k \in i..Len(text) :
                 Contains(kept', SubSeq(text, j, k)) /\ Size(SubSeq(text, j, k)) <= MaxContent
    <3>1. cut = Split(text)
      BY <2>2, <2>9 DEF AllBlank, Texts
    <3>2. PICK q \in 1..Len(cut) : \E c \in 1..i, d \in i..Len(text) : cut[q] = SubSeq(text, c, d)
      BY <3>1, SplitIsWhole
    <3>3. PICK c \in 1..i, d \in i..Len(text) : cut[q] = SubSeq(text, c, d)
      BY <3>2
    <3>4. PICK p \in 1..Len(contents) : contents[p] = cut[q]
      <4>1. q + 1 \in 1..Len(contents)
        BY <2>2, <2>4
      <4>. QED  BY <2>5, <4>1
    <3>5. PICK j \in 1..i, k \in i..Len(text) : Strip(contents[p]) = SubSeq(text, j, k)
      <4>1. \E j \in 1..i, k \in i..Len(text) : Strip(SubSeq(text, c, d)) = SubSeq(text, j, k)
        BY <2>9, StripOfPart
      <4>. QED  BY <3>3, <3>4, <4>1
    <3>6. Contains(kept', SubSeq(text, j, k))
      BY <2>8, <3>5 DEF HasAll
    <3>7. Size(SubSeq(text, j, k)) <= MaxContent
      <4>1. Acceptable(contents[p])
        BY <2>4, <2>7
      <4>. QED  BY <3>5, <4>1 DEF Acceptable
    <3>. QED  BY <3>6, <3>7
  <2>10. Redact(typed') = text /\ DOMAIN text = 1..Len(text)
    BY <1>1, <1>3 DEF Texts
  <2>11. LogIsStoredWhole'
    BY <2>9, <2>10 DEF LogIsStoredWhole
  <2>. QED  BY <1>3, <1>5, <2>8, <2>11 DEF IntakeInv, HasAll
<1>. QED  BY <1>3, <1>4, <1>5

LEMMA OtherIsKept ==
  ASSUME IntakeInv, NEW how, how # "log", how # "no", NEW content \in Texts, Keep(how, <<content>>)
  PROVE  IntakeInv'
<1>1. kept \o <<content>> \in Seq(Texts)
  <2>1. <<content>> \in Seq(Texts)
    OBVIOUS
  <2>. QED  BY <2>1, ConcatProperties DEF IntakeInv
<1>2. Distinct(kept \o <<content>>) \in Seq(Texts)
  BY <1>1, DistinctHasAll DEF HasAll
<1>. QED  BY <1>2 DEF IntakeInv, Keep, LogIsStoredWhole

\* The rows of a log that is accepted have every line of it, redacted, whichever way
\* it comes in and wherever it is cut, for every limit of a row.
THEOREM LogIsStoredWholeHolds == IntakeSpec => []LogIsStoredWhole
<1>1. IntakeInit => IntakeInv
  BY DEF IntakeInit, IntakeInv, LogIsStoredWhole, Texts
<1>2. IntakeInv /\ [IntakeNext]_intakeVars => IntakeInv'
  <2>. SUFFICES ASSUME IntakeInv, [IntakeNext]_intakeVars PROVE IntakeInv'
    OBVIOUS
  <2>1. Redact(typed) \in Texts /\ typed \in Texts
    BY TypedIsText DEF IntakeInv
  <2>2. ASSUME Supplement PROVE IntakeInv'
    BY <2>1, <2>2, OtherIsKept DEF Supplement
  <2>3. ASSUME AddCandidate PROVE IntakeInv'
    <3>1. PICK raw \in {typed, Redact(typed)} : Keep("candidate", <<Redact(raw)>>)
      BY <2>3 DEF AddCandidate
    <3>2. Redact(raw) \in Texts
      BY <2>1, RedactIsText
    <3>. QED  BY <3>1, <3>2, OtherIsKept
  <2>4. ASSUME NEW part \in Parts, Type(part) PROVE IntakeInv'
    <3>1. typed' \in Seq(Parts) /\ taken' = "no" /\ kept' = kept
      BY <2>4, AppendProperties DEF Type, IntakeInv
    <3>. QED  BY <2>4, <3>1 DEF Type, IntakeInv, LogIsStoredWhole
  <2>5. ASSUME UNCHANGED intakeVars PROVE IntakeInv'
    BY <2>5 DEF intakeVars, IntakeInv, LogIsStoredWhole
  <2>. QED  BY LogIsKept, <2>2, <2>3, <2>4, <2>5 DEF IntakeNext
<1>3. IntakeInv => LogIsStoredWhole
  BY DEF IntakeInv
<1>. QED  BY <1>1, <1>2, <1>3, PTL DEF IntakeSpec

-----------------------------------------------------------------------------
(* How often something is in a text *)

Hidden == {"secret", "token"}
Where(what, x) == { i \in DOMAIN x : x[i] = what }
Count(what, x) == Cardinality(Where(what, x))
One(what, part) == IF part = what THEN 1 ELSE 0

LEMMA WhereIsFinite ==
  ASSUME NEW what, NEW x \in Texts
  PROVE  IsFiniteSet(Where(what, x)) /\ Count(what, x) \in Nat
<1>1. IsFiniteSet(1..Len(x)) /\ DOMAIN x = 1..Len(x)
  BY FS_Interval DEF Texts
<1>2. Where(what, x) \in SUBSET (1..Len(x))
  BY <1>1 DEF Where
<1>3. IsFiniteSet(Where(what, x))
  BY <1>1, <1>2, FS_Subset
<1>. QED  BY <1>3, FS_CardinalityType DEF Count

LEMMA CountOfNothing == \A what : Count(what, << >>) = 0
<1>1. \A what : Where(what, << >>) = {}
  BY DEF Where
<1>. QED  BY <1>1, FS_EmptySet DEF Count

LEMMA CountOfMore ==
  ASSUME NEW what, NEW x \in Texts, NEW part \in TextPart
  PROVE  Count(what, Append(x, part)) = Count(what, x) + One(what, part)
<1>1. PICK n \in Nat : n = Len(x)
  BY DEF Texts
<1>2. PICK t \in Texts : /\ t = Append(x, part) /\ Len(t) = Len(x) + 1 /\ t[Len(x) + 1] = part
                         /\ \A i \in 1..Len(x) : t[i] = x[i]
  BY MoreIs
<1>3. DOMAIN t = 1..n + 1 /\ DOMAIN x = 1..n
  BY <1>1, <1>2 DEF Texts
<1>4. CASE part = what
  <2>1. Where(what, t) = Where(what, x) \union {n + 1}
    BY <1>1, <1>2, <1>3, <1>4 DEF Where
  <2>2. n + 1 \notin Where(what, x)
    BY <1>3 DEF Where
  <2>3. Cardinality(Where(what, x) \union {n + 1}) = Cardinality(Where(what, x)) + 1
    BY <2>2, WhereIsFinite, FS_AddElement
  <2>. QED  BY <1>2, <1>4, <2>1, <2>3 DEF Count, One
<1>5. CASE part # what
  <2>1. Where(what, t) = Where(what, x)
    BY <1>1, <1>2, <1>3, <1>5 DEF Where
  <2>2. Count(what, x) \in Nat
    BY WhereIsFinite
  <2>. QED  BY <1>2, <1>5, <2>1, <2>2 DEF Count, One
<1>. QED  BY <1>4, <1>5

\* A text after another, part by part.
LEMMA MoreOfBoth ==
  ASSUME NEW S, NEW x \in Seq(S), NEW y \in Seq(S), NEW e \in S
  PROVE  x \o Append(y, e) = Append(x \o y, e)
<1>1. x \o y \in Seq(S) /\ <<e>> \in Seq(S)
  BY ConcatProperties
<1>2. Append(y, e) = y \o <<e>>
  BY AppendIsConcat
<1>3. PICK z \in Seq(S) : z = x \o y
  BY <1>1
<1>4. Append(z, e) = z \o <<e>>
  BY AppendIsConcat
<1>5. PICK u \in Seq(S) : u = <<e>>
  BY <1>1
<1>6. (x \o y) \o u = x \o (y \o u)
  BY ConcatAssociative, SMTT(30)
<1>. QED  BY <1>2, <1>3, <1>4, <1>5, <1>6

LEMMA CountOfBoth ==
  ASSUME NEW what, NEW x \in Texts
  PROVE  \A y \in Texts : Count(what, x \o y) = Count(what, x) + Count(what, y)
<1>. DEFINE T == { y \in Texts : Count(what, x \o y) = Count(what, x) + Count(what, y) }
<1>0. Count(what, x) \in Nat
  BY WhereIsFinite
<1>1. << >> \in T
  <2>1. x \o << >> = x /\ << >> \in Texts
    BY ConcatEmptySeq DEF Texts
  <2>. QED  BY <1>0, <2>1, CountOfNothing
<1>2. ASSUME NEW y \in Seq(TextPart), NEW part \in TextPart, y \in T PROVE Append(y, part) \in T
  <2>1. x \o Append(y, part) = Append(x \o y, part)
    BY MoreOfBoth DEF Texts
  <2>2. PICK z \in Texts : z = x \o y
    BY <1>2, BothAreText
  <2>3. Count(what, Append(z, part)) = Count(what, z) + One(what, part)
    BY CountOfMore
  <2>4. Count(what, Append(y, part)) = Count(what, y) + One(what, part)
    BY <1>2, CountOfMore
  <2>5. Count(what, y) \in Nat /\ One(what, part) \in Nat
    BY <1>2, WhereIsFinite DEF One
  <2>6. Append(y, part) \in Texts
    BY AppendProperties DEF Texts
  <2>7. Count(what, z) = Count(what, x) + Count(what, y)
    BY <1>2, <2>2
  <2>8. Count(what, x \o Append(y, part)) = Count(what, x) + Count(what, Append(y, part))
    BY <1>0, <2>1, <2>2, <2>3, <2>4, <2>5, <2>7
  <2>. QED  BY <2>6, <2>8
<1>3. \A y \in Seq(TextPart) : y \in T
  <2>. HIDE DEF T
  <2>. QED  BY <1>1, <1>2, AllSequences
<1>. QED  BY <1>3 DEF Texts

LEMMA CountOfMark == \A what \in Hidden : Count(what, Mark) = 0
<1>1. \A what \in Hidden : Where(what, Mark) = {}
  BY DEF Where, Mark, Hidden
<1>. QED  BY <1>1, FS_EmptySet DEF Count

\* A part of a text has no more of it.
LEMMA CountOfPart ==
  ASSUME NEW what, NEW x \in Texts, NEW a \in 1..Len(x), NEW b \in a..Len(x)
  PROVE  Count(what, SubSeq(x, a, b)) <= Count(what, x)
<1>1. PICK n \in Nat : n = Len(x)
  BY DEF Texts
<1>2. PICK before \in Texts : before = SubSeq(x, 1, a - 1)
  <2>1. PICK k \in Nat : k = a - 1
    BY <1>1
  <2>2. 1 \in Nat /\ 1 <= 1 /\ 1 <= k + 1 /\ k <= Len(x)
    BY <1>1, <2>1
  <2>. QED  BY <2>1, <2>2, PieceIs
<1>3. PICK mid \in Texts : mid = SubSeq(x, a, b)
  <2>1. a \in Nat /\ b \in Nat /\ 1 <= a /\ a <= b + 1 /\ b <= Len(x)
    BY <1>1
  <2>. QED  BY <2>1, PieceIs
<1>4. PICK after \in Texts : after = SubSeq(x, b + 1, n)
  <2>1. PICK k \in Nat : k = b + 1
    BY <1>1
  <2>2. k \in Nat /\ 1 <= k /\ k <= n + 1 /\ n <= Len(x)
    BY <1>1, <2>1
  <2>. QED  BY <2>1, <2>2, PieceIs
<1>5. before \o SubSeq(x, a, n) = x
  <2>1. PICK k \in 0..n, c \in 1..n + 1 : k = a - 1 /\ c = 1
    BY <1>1
  <2>2. c \in 1..Len(x) + 1 /\ k \in c - 1..Len(x) /\ n \in k..Len(x) /\ k + 1 = a
    BY <1>1, <2>1
  <2>3. SubSeq(x, c, k) \o SubSeq(x, k + 1, n) = SubSeq(x, c, n)
    BY <2>2, ConcatAdjacentSubSeq DEF Texts
  <2>4. SubSeq(x, 1, n) = x
    BY <1>1, SubSeqFull DEF Texts
  <2>. QED  BY <1>2, <2>1, <2>2, <2>3, <2>4
<1>6. mid \o after = SubSeq(x, a, n)
  <2>1. a \in 1..Len(x) + 1 /\ b \in a - 1..Len(x) /\ n \in b..Len(x)
    BY <1>1
  <2>2. SubSeq(x, a, b) \o SubSeq(x, b + 1, n) = SubSeq(x, a, n)
    BY <2>1, ConcatAdjacentSubSeq DEF Texts
  <2>. QED  BY <1>3, <1>4, <2>2
<1>7. PICK rest \in Texts : rest = mid \o after
  BY BothAreText
<1>8. Count(what, x) = Count(what, before) + Count(what, rest)
  <2>1. x = before \o rest
    BY <1>5, <1>6, <1>7
  <2>2. Count(what, before \o rest) = Count(what, before) + Count(what, rest)
    BY CountOfBoth
  <2>. QED  BY <2>1, <2>2
<1>9. Count(what, rest) = Count(what, mid) + Count(what, after)
  BY <1>7, CountOfBoth
<1>10. Count(what, before) \in Nat /\ Count(what, mid) \in Nat /\ Count(what, after) \in Nat
  BY WhereIsFinite
<1>. QED  BY <1>3, <1>8, <1>9, <1>10

LEMMA CountOfStrip == \A what : \A x \in Texts : Count(what, Strip(x)) <= Count(what, x)
<1>. SUFFICES ASSUME NEW what, NEW x \in Texts PROVE Count(what, Strip(x)) <= Count(what, x)
  OBVIOUS
<1>1. CASE \E i \in 1..Len(x) : x[i] # "blank"
  <2>1. PICK i \in 1..Len(x) : x[i] # "blank"
    BY <1>1
  <2>2. PICK a \in 1..i, b \in i..Len(x) : Strip(x) = SubSeq(x, a, b)
    BY <2>1, StripIs
  <2>3. Len(x) \in Nat
    BY DEF Texts
  <2>4. a \in 1..Len(x) /\ b \in a..Len(x)
    BY <2>3
  <2>. QED  BY <2>2, <2>4, CountOfPart
<1>2. CASE \A i \in 1..Len(x) : x[i] = "blank"
  <2>1. DOMAIN x = 1..Len(x)
    BY DEF Texts
  <2>2. { i \in DOMAIN x : x[i] # "blank" } = {}
    BY <1>2, <2>1
  <2>3. Strip(x) = << >>
    BY <2>2 DEF Strip
  <2>. QED  BY <2>3, CountOfNothing, WhereIsFinite
<1>. QED  BY <1>1, <1>2

-----------------------------------------------------------------------------
(* Nothing that is hidden becomes more *)

Total(what, rows) == Count(what, Joined(rows))

LEMMA JoinedIs ==
  /\ Joined(<< >>) = << >>
  /\ \A rows \in Seq(Texts) : Joined(rows) \in Texts
  /\ \A rows \in Seq(Texts), x \in Texts : Joined(Append(rows, x)) = Joined(rows) \o x
<1>1. Joined(<< >>) = << >>
  BY JoinedFold, Joining!FoldOfNothing
<1>2. \A rows \in Seq(Texts) : Joined(rows) \in Texts
  <2>1. << >> \in Texts /\ \A all \in Texts, row \in Texts : all \o row \in Texts
    BY BothAreText DEF Texts
  <2>2. \A rows \in Seq(Texts) : Joining!Fold(0, << >>, rows) \in Texts
    BY <2>1, Joining!FoldIn
  <2>. QED  BY <2>2, JoinedFold
<1>3. \A rows \in Seq(Texts), x \in Texts : Joined(Append(rows, x)) = Joined(rows) \o x
  <2>. SUFFICES ASSUME NEW rows \in Seq(Texts), NEW x \in Texts PROVE Joined(Append(rows, x)) = Joined(rows) \o x
    OBVIOUS
  <2>1. Joining!Fold(0, << >>, Append(rows, x)) = Joining!Fold(0, << >>, rows) \o x
    BY Joining!FoldOfMore
  <2>. QED  BY <2>1, JoinedFold
<1>. QED  BY <1>1, <1>2, <1>3

LEMMA TotalOfMore ==
  ASSUME NEW what, NEW rows \in Seq(Texts), NEW x \in Texts
  PROVE  /\ Total(what, rows) \in Nat /\ Count(what, x) \in Nat
         /\ Total(what, Append(rows, x)) = Total(what, rows) + Count(what, x)
<1>1. PICK all \in Texts : all = Joined(rows)
  BY JoinedIs
<1>2. Joined(Append(rows, x)) = all \o x
  BY <1>1, JoinedIs
<1>3. Count(what, all \o x) = Count(what, all) + Count(what, x)
  BY CountOfBoth
<1>. QED  BY <1>1, <1>2, <1>3, WhereIsFinite DEF Total

LEMMA TotalOfBoth ==
  ASSUME NEW what, NEW rows \in Seq(Texts)
  PROVE  \A others \in Seq(Texts) : Total(what, rows \o others) = Total(what, rows) + Total(what, others)
<1>. DEFINE T == { y \in Seq(Texts) : Total(what, rows \o y) = Total(what, rows) + Total(what, y) }
<1>0. Total(what, rows) \in Nat
  BY JoinedIs, WhereIsFinite DEF Total
<1>1. << >> \in T
  <2>1. rows \o << >> = rows
    BY ConcatEmptySeq
  <2>2. Total(what, << >>) = 0
    BY JoinedIs, CountOfNothing DEF Total
  <2>. QED  BY <1>0, <2>1, <2>2
<1>2. ASSUME NEW y \in Seq(Texts), NEW x \in Texts, y \in T PROVE Append(y, x) \in T
  <2>1. rows \o Append(y, x) = Append(rows \o y, x)
    BY MoreOfBoth
  <2>2. PICK z \in Seq(Texts) : z = rows \o y
    BY ConcatProperties
  <2>3. Total(what, Append(z, x)) = Total(what, z) + Count(what, x)
    BY TotalOfMore
  <2>4. /\ Total(what, y) \in Nat /\ Count(what, x) \in Nat
        /\ Total(what, Append(y, x)) = Total(what, y) + Count(what, x)
    BY TotalOfMore
  <2>5. Append(y, x) \in Seq(Texts)
    BY AppendProperties
  <2>6. Total(what, z) = Total(what, rows) + Total(what, y)
    BY <1>2, <2>2
  <2>7. Total(what, rows \o Append(y, x)) = Total(what, rows) + Total(what, Append(y, x))
    BY <1>0, <2>1, <2>2, <2>3, <2>4, <2>6
  <2>. QED  BY <2>5, <2>7
<1>3. \A y \in Seq(Texts) : y \in T
  <2>. HIDE DEF T
  <2>. QED  BY <1>1, <1>2, AllSequences
<1>. QED  BY <1>3

\* What is stored has no more of it than the contents.
LEMMA TotalOfDistinct ==
  ASSUME NEW what
  PROVE  \A contents \in Seq(Texts) : Distinct(contents) \in Seq(Texts) /\ Total(what, Distinct(contents)) <= Total(what, contents)
<1>. DEFINE rows(contents) == Storing!Fold(0, << >>, contents)
            T == { contents \in Seq(Texts) : rows(contents) \in Seq(Texts) /\ Total(what, rows(contents)) <= Total(what, contents) }
<1>1. << >> \in T
  <2>1. Total(what, << >>) = 0 /\ << >> \in Seq(Texts)
    BY JoinedIs, CountOfNothing DEF Total
  <2>2. rows(<< >>) = << >>
    BY Storing!FoldOfNothing
  <2>3. PICK none : none = << >>
    OBVIOUS
  <2>4. none \in Seq(Texts) /\ rows(none) = none /\ Total(what, none) <= Total(what, none)
    BY <2>1, <2>2, <2>3
  <2>5. none \in T
    <3>. HIDE DEF rows
    <3>. QED  BY <2>4
  <2>. QED  BY <2>3, <2>5
<1>2. ASSUME NEW contents \in Seq(Texts), NEW text \in Texts, contents \in T PROVE Append(contents, text) \in T
  <2>1. PICK had \in Seq(Texts) : had = rows(contents) /\ Total(what, had) <= Total(what, contents)
    BY <1>2
  <2>2. PICK more : more = rows(Append(contents, text))
    OBVIOUS
  <2>3. more = IF Contains(had, Strip(text)) THEN had ELSE Append(had, Strip(text))
    BY <2>1, <2>2, Storing!FoldOfMore
  <2>4. PICK row \in Texts : row = Strip(text) /\ Count(what, row) <= Count(what, text)
    BY StripIsText, CountOfStrip
  <2>5. /\ Total(what, contents) \in Nat /\ Count(what, text) \in Nat
        /\ Total(what, Append(contents, text)) = Total(what, contents) + Count(what, text)
    BY TotalOfMore
  <2>6. /\ Total(what, had) \in Nat /\ Count(what, row) \in Nat
        /\ Total(what, Append(had, row)) = Total(what, had) + Count(what, row)
    BY TotalOfMore
  <2>7. more \in Seq(Texts) /\ Total(what, more) <= Total(what, Append(contents, text))
    <3>1. Append(had, row) \in Seq(Texts)
      BY AppendProperties
    <3>. QED  BY <2>1, <2>3, <2>4, <2>5, <2>6, <3>1
  <2>8. Append(contents, text) \in Seq(Texts)
    BY AppendProperties
  <2>. QED  BY <2>2, <2>7, <2>8
<1>3. \A contents \in Seq(Texts) : contents \in T
  <2>. HIDE DEF T
  <2>. QED  BY <1>1, <1>2, AllSequences
<1>. QED  BY <1>3, DistinctFold

LEMMA FrontLast ==
  ASSUME NEW pieces \in Seq(Texts), pieces # << >>
  PROVE  /\ Front(pieces) \in Seq(Texts) /\ Last(pieces) \in Texts
         /\ pieces = Append(Front(pieces), Last(pieces))
<1>1. PICK r \in Seq(Texts), x \in Texts : pieces = Append(r, x)
  BY SequenceEmptyOrAppend
<1>2. PICK n \in Nat : n = Len(r)
  OBVIOUS
<1>3. Len(pieces) = n + 1
  BY <1>1, <1>2, AppendProperties
<1>4. Last(pieces) = x
  <2>1. pieces[Len(r) + 1] = x
    BY <1>1, AppendProperties
  <2>. QED  BY <1>2, <1>3, <2>1 DEF Last
<1>5. Front(pieces) = r
  <2>1. Front(pieces) = SubSeq(pieces, 1, n)
    BY <1>2, <1>3 DEF Front
  <2>2. PICK f : f = SubSeq(pieces, 1, n)
    OBVIOUS
  <2>3. n <= Len(pieces)
    BY <1>3
  <2>4. f \in Seq(Texts) /\ Len(f) = n
    BY <2>2, <2>3, FirstOf
  <2>5. \A i \in 1..n : f[i] = pieces[i]
    BY <2>2, <2>3, FirstOf
  <2>6. \A i \in 1..n : pieces[i] = r[i]
    BY <1>1, <1>2, AppendProperties
  <2>7. \A i \in 1..Len(f) : f[i] = r[i]
    BY <2>4, <2>5, <2>6
  <2>8. f = r
    BY <1>2, <2>4, <2>7, SeqEqual
  <2>. QED  BY <2>1, <2>2, <2>8
<1>. QED  BY <1>1, <1>4, <1>5

LEMMA TotalOfSplit ==
  ASSUME NEW what
  PROVE  \A text \in Texts : Split(text) \in Seq(Texts) /\ Total(what, Split(text)) <= Count(what, text)
<1>. DEFINE pieces(text) == Cutting!Fold(0, << << >> >>, text)
            T == { text \in Texts : /\ pieces(text) \in Seq(Texts) /\ pieces(text) # << >>
                                    /\ Total(what, pieces(text)) <= Count(what, text) }
<1>1. << >> \in T
  <2>1. << >> \in Texts /\ << >> \in Seq(Texts) /\ << << >> >> \in Seq(Texts) /\ << << >> >> # << >>
    BY DEF Texts
  <2>2. << << >> >> = Append(<< >>, << >>)
    OBVIOUS
  <2>3. Total(what, << << >> >>) = 0
    <3>1. Total(what, Append(<< >>, << >>)) = Total(what, << >>) + Count(what, << >>)
      BY <2>1, TotalOfMore
    <3>. QED  BY <2>2, <3>1, JoinedIs, CountOfNothing DEF Total
  <2>4. Count(what, << >>) = 0
    BY CountOfNothing
  <2>5. pieces(<< >>) = << << >> >>
    BY Cutting!FoldOfNothing
  <2>. QED  BY <2>1, <2>3, <2>4, <2>5
<1>2. ASSUME NEW text \in Seq(TextPart), NEW part \in TextPart, text \in T PROVE Append(text, part) \in T
  <2>1. PICK had \in Seq(Texts) : had = pieces(text) /\ had # << >> /\ Total(what, had) <= Count(what, text)
    BY <1>2
  <2>2. pieces(Append(text, part)) = Cut(had, part)
    BY <2>1, Cutting!FoldOfMore
  <2>3. PICK front \in Seq(Texts), last \in Texts :
          front = Front(had) /\ last = Last(had) /\ had = Append(front, last)
    BY <2>1, FrontLast
  <2>4. PICK longer \in Texts : longer = Append(last, part)
    BY MoreIs
  <2>5. PICK new \in Texts : new = <<part>> /\ new = Append(<< >>, part)
    <3>1. <<part>> \in Texts
      BY DEF Texts
    <3>2. <<part>> = Append(<< >>, part)
      OBVIOUS
    <3>. QED  BY <3>1, <3>2
  <2>6. Cut(had, part) = Append(had, new) \/ Cut(had, part) = Append(front, longer)
    BY <2>3, <2>4, <2>5 DEF Cut
  <2>7. Count(what, text) \in Nat /\ One(what, part) \in Nat
    BY <1>2, WhereIsFinite DEF One
  <2>8. Count(what, Append(text, part)) = Count(what, text) + One(what, part)
    BY <1>2, CountOfMore
  <2>9. Count(what, longer) = Count(what, last) + One(what, part)
    BY <2>4, CountOfMore
  <2>10. Count(what, new) = One(what, part)
    <3>1. << >> \in Texts
      BY DEF Texts
    <3>2. Count(what, Append(<< >>, part)) = Count(what, << >>) + One(what, part)
      BY <3>1, CountOfMore
    <3>. QED  BY <2>5, <2>7, <3>2, CountOfNothing
  <2>11. Total(what, Append(had, new)) = Total(what, had) + Count(what, new) /\ Total(what, had) \in Nat
    BY TotalOfMore
  <2>12. Total(what, Append(front, longer)) = Total(what, front) + Count(what, longer)
    BY TotalOfMore
  <2>13. Total(what, had) = Total(what, front) + Count(what, last) /\ Total(what, front) \in Nat /\ Count(what, last) \in Nat
    BY <2>3, TotalOfMore
  <2>14. /\ Append(had, new) \in Seq(Texts) /\ Append(had, new) # << >>
         /\ Append(front, longer) \in Seq(Texts) /\ Append(front, longer) # << >>
    BY AppendProperties
  <2>15. PICK next : next = pieces(Append(text, part))
    OBVIOUS
  <2>16. next \in Seq(Texts) /\ next # << >>
    BY <2>2, <2>6, <2>14, <2>15
  <2>17. Total(what, next) <= Count(what, Append(text, part))
    <3>1. CASE next = Append(had, new)
      BY <2>1, <2>7, <2>8, <2>10, <2>11, <3>1
    <3>2. CASE next = Append(front, longer)
      BY <2>1, <2>7, <2>8, <2>9, <2>12, <2>13, <3>2
    <3>. QED  BY <2>2, <2>6, <2>15, <3>1, <3>2
  <2>18. Append(text, part) \in Texts
    BY AppendProperties DEF Texts
  <2>. QED  BY <2>15, <2>16, <2>17, <2>18
<1>3. \A text \in Seq(TextPart) : text \in T
  <2>. HIDE DEF T
  <2>. QED  BY <1>1, <1>2, AllSequences
<1>. QED  BY <1>3, SplitFold DEF Texts

-----------------------------------------------------------------------------
(* The redactor makes nothing that is hidden more *)

Weight(what, read) == Count(what, read.out) + Count(what, read.gap)

LEMMA CountOfWaiting ==
  ASSUME NEW what \in Hidden, NEW out \in Texts, NEW gap \in Texts, NEW part \in TextPart
  PROVE  /\ Count(what, out) \in Nat /\ Count(what, gap) \in Nat /\ One(what, part) \in Nat
         /\ Count(what, Append(out \o gap, part)) = Count(what, out) + Count(what, gap) + One(what, part)
         /\ Count(what, Append(gap, part)) = Count(what, gap) + One(what, part)
         /\ Count(what, out \o Mark) = Count(what, out)
         /\ Count(what, out \o Mark \o <<part>>) = Count(what, out) + One(what, part)
<1>1. /\ Count(what, out) \in Nat /\ Count(what, gap) \in Nat /\ One(what, part) \in Nat
      /\ Count(what, << >>) = 0 /\ << >> \in Texts
  BY WhereIsFinite, CountOfNothing DEF One, Texts
<1>2. PICK both \in Texts : both = out \o gap /\ Count(what, both) = Count(what, out) + Count(what, gap)
  BY BothAreText, CountOfBoth
<1>3. Count(what, Append(both, part)) = Count(what, both) + One(what, part)
  BY CountOfMore
<1>4. Count(what, Append(gap, part)) = Count(what, gap) + One(what, part)
  BY CountOfMore
<1>5. PICK mark \in Texts : mark = Mark /\ Count(what, mark) = 0
  BY MarkIsText, CountOfMark
<1>6. PICK hidden \in Texts : hidden = out \o mark /\ Count(what, hidden) = Count(what, out) + Count(what, mark)
  BY BothAreText, CountOfBoth
<1>7. PICK more \in Texts : more = Append(hidden, part) /\ Count(what, more) = Count(what, hidden) + One(what, part)
  <2>1. Append(hidden, part) \in Texts
    BY AppendProperties DEF Texts
  <2>. QED  BY <2>1, CountOfMore
<1>8. more = hidden \o <<part>>
  BY <1>7, AppendIsConcat DEF Texts
<1>9. Count(what, out \o Mark) = Count(what, out)
  BY <1>1, <1>5, <1>6
<1>10. Count(what, out \o Mark \o <<part>>) = Count(what, out) + One(what, part)
  BY <1>5, <1>6, <1>7, <1>8, <1>9
<1>. QED  BY <1>1, <1>2, <1>3, <1>4, <1>9, <1>10

LEMMA WeightOfValue ==
  ASSUME NEW what \in Hidden, NEW read \in ValueState, NEW part \in TextPart
  PROVE  Weight(what, ReadValue(read, part)) <= Weight(what, read) + One(what, part)
<1>0. PICK next : next = ReadValue(read, part)
  OBVIOUS
<1>1. PICK out \in Texts, gap \in Texts : out = read.out /\ gap = read.gap
  BY DEF ValueState
<1>2. /\ Count(what, out) \in Nat /\ Count(what, gap) \in Nat /\ One(what, part) \in Nat
      /\ Count(what, Append(out \o gap, part)) = Count(what, out) + Count(what, gap) + One(what, part)
      /\ Count(what, Append(gap, part)) = Count(what, gap) + One(what, part)
      /\ Count(what, out \o Mark) = Count(what, out)
      /\ Count(what, << >>) = 0
  BY CountOfWaiting, CountOfNothing
<1>3. \/ next.out = out /\ next.gap = gap
      \/ next.out = out /\ next.gap = Append(gap, part)
      \/ next.out = out \o Mark /\ next.gap = << >>
      \/ next.out = Append(out \o gap, part) /\ next.gap = << >>
  <2>1. CASE next = read
    BY <1>1, <2>1
  <2>2. CASE next = [read EXCEPT !.gap = Append(@, part)]
    BY <1>1, <2>2 DEF ValueState
  <2>3. CASE next = [out |-> read.out \o Mark, gap |-> << >>, mode |-> "value"]
    BY <1>1, <2>3
  <2>4. ASSUME NEW mode, next = [out |-> Append(read.out \o read.gap, part), gap |-> << >>, mode |-> mode]
        PROVE  next.out = Append(out \o gap, part) /\ next.gap = << >>
    BY <1>1, <2>4
  <2>5. \/ next = read \/ next = [read EXCEPT !.gap = Append(@, part)]
        \/ next = [out |-> read.out \o Mark, gap |-> << >>, mode |-> "value"]
        \/ \E mode \in {"outside", "key"} :
             next = [out |-> Append(read.out \o read.gap, part), gap |-> << >>, mode |-> mode]
    BY <1>0, ReadValueIs
  <2>. QED  BY <2>1, <2>2, <2>3, <2>4, <2>5
<1>4. Count(what, next.out) + Count(what, next.gap) <= Count(what, out) + Count(what, gap) + One(what, part)
  <2>1. CASE next.out = out /\ next.gap = gap
    BY <1>2, <2>1
  <2>2. CASE next.out = out /\ next.gap = Append(gap, part)
    BY <1>2, <2>2
  <2>3. CASE next.out = out \o Mark /\ next.gap = << >>
    BY <1>2, <2>3
  <2>4. CASE next.out = Append(out \o gap, part) /\ next.gap = << >>
    BY <1>2, <2>4
  <2>. QED  BY <1>3, <2>1, <2>2, <2>3, <2>4
<1>. QED  BY <1>0, <1>1, <1>4 DEF Weight

LEMMA WeightOfLogin ==
  ASSUME NEW what \in Hidden, NEW read \in LoginState, NEW part \in TextPart
  PROVE  Weight(what, ReadLogin(read, part)) <= Weight(what, read) + One(what, part)
<1>0. PICK next : next = ReadLogin(read, part)
  OBVIOUS
<1>1. PICK out \in Texts, gap \in Texts : out = read.out /\ gap = read.gap
  BY DEF LoginState
<1>2. /\ Count(what, out) \in Nat /\ Count(what, gap) \in Nat /\ One(what, part) \in Nat
      /\ Count(what, Append(out \o gap, part)) = Count(what, out) + Count(what, gap) + One(what, part)
      /\ Count(what, Append(gap, part)) = Count(what, gap) + One(what, part)
      /\ Count(what, out \o Mark \o <<part>>) = Count(what, out) + One(what, part)
      /\ Count(what, << >>) = 0
  BY CountOfWaiting, CountOfNothing
<1>3. \/ next.out = out /\ next.gap = Append(gap, part)
      \/ next.out = out \o Mark \o <<part>> /\ next.gap = << >>
      \/ next.out = Append(out \o gap, part) /\ next.gap = << >>
  <2>1. CASE next = [read EXCEPT !.gap = Append(@, part)]
    BY <1>1, <2>1 DEF LoginState
  <2>2. CASE next = [out |-> read.out \o Mark \o <<part>>, gap |-> << >>, open |-> FALSE]
    BY <1>1, <2>2
  <2>3. ASSUME NEW open, next = [out |-> Append(read.out \o read.gap, part), gap |-> << >>, open |-> open]
        PROVE  next.out = Append(out \o gap, part) /\ next.gap = << >>
    BY <1>1, <2>3
  <2>4. \/ next = [read EXCEPT !.gap = Append(@, part)]
        \/ next = [out |-> read.out \o Mark \o <<part>>, gap |-> << >>, open |-> FALSE]
        \/ \E open \in BOOLEAN :
             next = [out |-> Append(read.out \o read.gap, part), gap |-> << >>, open |-> open]
    BY <1>0, ReadLoginIs
  <2>. QED  BY <2>1, <2>2, <2>3, <2>4
<1>4. Count(what, next.out) + Count(what, next.gap) <= Count(what, out) + Count(what, gap) + One(what, part)
  <2>1. CASE next.out = out /\ next.gap = Append(gap, part)
    BY <1>2, <2>1
  <2>2. CASE next.out = out \o Mark \o <<part>> /\ next.gap = << >>
    BY <1>2, <2>2
  <2>3. CASE next.out = Append(out \o gap, part) /\ next.gap = << >>
    BY <1>2, <2>3
  <2>. QED  BY <1>3, <2>1, <2>2, <2>3
<1>. QED  BY <1>0, <1>1, <1>4 DEF Weight

LEMMA WeightIsNumber ==
  ASSUME NEW what, NEW read, read.out \in Texts, read.gap \in Texts
  PROVE  Weight(what, read) \in Nat /\ Weight(what, read) = Count(what, read.out \o read.gap)
<1>1. PICK out \in Texts, gap \in Texts : out = read.out /\ gap = read.gap
  OBVIOUS
<1>. QED  BY <1>1, WhereIsFinite, CountOfBoth DEF Weight

LEMMA ValuesCount ==
  ASSUME NEW what \in Hidden
  PROVE  \A text \in Texts : Count(what, RedactValues(text)) <= Count(what, text)
<1>. DEFINE T == { text \in Texts : Weight(what, ValuesRead(text)) <= Count(what, text) }
<1>1. << >> \in T
  <2>1. << >> \in Texts /\ Weight(what, NoValue) = 0 /\ Count(what, << >>) = 0
    BY CountOfNothing DEF Weight, NoValue, Texts
  <2>2. ValuesRead(<< >>) = NoValue
    BY ValuesReadIs
  <2>. QED  BY <2>1, <2>2
<1>2. ASSUME NEW text \in Seq(TextPart), NEW part \in TextPart, text \in T PROVE Append(text, part) \in T
  <2>1. PICK read \in ValueState : read = ValuesRead(text)
    BY <1>2, ValuesReadIs
  <2>2. ValuesRead(Append(text, part)) = ReadValue(read, part)
    BY <1>2, <2>1, ValuesReadIs
  <2>3. PICK next \in ValueState : next = ReadValue(read, part)
    BY ReadValueIs
  <2>4. Weight(what, next) <= Weight(what, read) + One(what, part)
    BY <2>3, WeightOfValue
  <2>5. Count(what, Append(text, part)) = Count(what, text) + One(what, part)
    BY <1>2, CountOfMore
  <2>6. Weight(what, next) \in Nat /\ Weight(what, read) \in Nat /\ Count(what, text) \in Nat /\ One(what, part) \in Nat
    BY <1>2, WeightIsNumber, WhereIsFinite DEF ValueState, One
  <2>7. Weight(what, read) <= Count(what, text)
    BY <1>2, <2>1
  <2>8. Append(text, part) \in Texts
    BY AppendProperties DEF Texts
  <2>9. Weight(what, ValuesRead(Append(text, part))) <= Count(what, Append(text, part))
    BY <2>2, <2>3, <2>4, <2>5, <2>6, <2>7
  <2>. QED  BY <2>8, <2>9
<1>3. \A text \in Seq(TextPart) : text \in T
  <2>. HIDE DEF T
  <2>. QED  BY <1>1, <1>2, AllSequences
<1>4. \A text \in Texts : ValuesRead(text).out \in Texts /\ ValuesRead(text).gap \in Texts
  BY ValuesReadIs DEF ValueState
<1>. QED  BY <1>3, <1>4, WeightIsNumber DEF RedactValues, Texts

\* The rule for logins, from some text on.
LEMMA LoginsCount ==
  ASSUME NEW what \in Hidden, NEW before \in Texts
  PROVE  \A text \in Texts : Weight(what, LoginsRead(before \o text)) <= Weight(what, LoginsRead(before)) + Count(what, text)
<1>. DEFINE T == { text \in Texts : Weight(what, LoginsRead(before \o text)) <= Weight(what, LoginsRead(before)) + Count(what, text) }
<1>0. Weight(what, LoginsRead(before)) \in Nat
  BY LoginsReadIs, WeightIsNumber DEF LoginState
<1>1. << >> \in T
  <2>1. << >> \in Texts /\ before \o << >> = before /\ Count(what, << >>) = 0
    BY CountOfNothing, ConcatEmptySeq DEF Texts
  <2>2. Weight(what, LoginsRead(before \o << >>)) <= Weight(what, LoginsRead(before)) + Count(what, << >>)
    BY <1>0, <2>1
  <2>. QED  BY <2>1, <2>2
<1>2. ASSUME NEW text \in Seq(TextPart), NEW part \in TextPart, text \in T PROVE Append(text, part) \in T
  <2>0. PICK all \in Texts : all = before \o text
    BY <1>2, BothAreText
  <2>1. PICK read \in LoginState : read = LoginsRead(all)
    BY LoginsReadIs
  <2>2. before \o Append(text, part) = Append(all, part)
    BY <2>0, MoreOfBoth DEF Texts
  <2>3. PICK next \in LoginState : next = LoginsRead(before \o Append(text, part)) /\ next = ReadLogin(read, part)
    BY <2>1, <2>2, ReadLoginIs, LoginsReadIs
  <2>4. Weight(what, next) <= Weight(what, read) + One(what, part)
    BY <2>3, WeightOfLogin
  <2>5. Count(what, Append(text, part)) = Count(what, text) + One(what, part)
    BY <1>2, CountOfMore
  <2>6. Weight(what, next) \in Nat /\ Weight(what, read) \in Nat /\ Count(what, text) \in Nat /\ One(what, part) \in Nat
    BY <1>2, WeightIsNumber, WhereIsFinite DEF LoginState, One
  <2>7. Weight(what, read) <= Weight(what, LoginsRead(before)) + Count(what, text)
    BY <1>2, <2>0, <2>1
  <2>8. Append(text, part) \in Texts
    BY AppendProperties DEF Texts
  <2>9. Weight(what, LoginsRead(before \o Append(text, part))) <= Weight(what, LoginsRead(before)) + Count(what, Append(text, part))
    BY <1>0, <2>3, <2>4, <2>5, <2>6, <2>7
  <2>. QED  BY <2>8, <2>9
<1>3. \A text \in Seq(TextPart) : text \in T
  <2>. HIDE DEF T
  <2>. QED  BY <1>1, <1>2, AllSequences
<1>. QED  BY <1>3 DEF Texts

\* The rule for tokens.
LEMMA TokensCount ==
  ASSUME NEW what \in Hidden
  PROVE  \A text \in Texts : /\ Count(what, RedactTokens(text)) <= Count(what, text)
                             /\ what = "token" => Count(what, RedactTokens(text)) = 0
<1>. DEFINE T == { text \in Texts : /\ Count(what, RedactTokens(text)) <= Count(what, text)
                                    /\ what = "token" => Count(what, RedactTokens(text)) = 0 }
<1>1. << >> \in T
  <2>1. << >> \in Texts /\ RedactTokens(<< >>) = << >> /\ Count(what, << >>) = 0
    BY TokensReadIs, CountOfNothing DEF Texts
  <2>2. Count(what, RedactTokens(<< >>)) = 0
    BY <2>1
  <2>. QED  BY <2>1, <2>2
<1>2. ASSUME NEW text \in Seq(TextPart), NEW part \in TextPart, text \in T PROVE Append(text, part) \in T
  <2>1. PICK out \in Texts : out = RedactTokens(text)
    BY <1>2, TokensReadIs
  <2>2. PICK next : next = RedactTokens(Append(text, part))
                    /\ next = IF part = "token" THEN out \o Mark ELSE Append(out, part)
    BY <1>2, <2>1, TokensReadIs
  <2>3. Count(what, out \o Mark) = Count(what, out)
    BY CountOfWaiting
  <2>4. Count(what, Append(out, part)) = Count(what, out) + One(what, part)
    BY CountOfMore
  <2>5. Count(what, Append(text, part)) = Count(what, text) + One(what, part)
    BY <1>2, CountOfMore
  <2>6. Count(what, out) \in Nat /\ Count(what, text) \in Nat /\ One(what, part) \in Nat /\ (part # what => One(what, part) = 0)
    BY <1>2, WhereIsFinite DEF One
  <2>7. Count(what, out) <= Count(what, text) /\ (what = "token" => Count(what, out) = 0)
    BY <1>2, <2>1
  <2>8. Count(what, next) <= Count(what, Append(text, part)) /\ (what = "token" => Count(what, next) = 0)
    BY <2>2, <2>3, <2>4, <2>5, <2>6, <2>7
  <2>9. Append(text, part) \in Texts
    BY AppendProperties DEF Texts
  <2>. QED  BY <2>2, <2>8, <2>9
<1>3. \A text \in Seq(TextPart) : text \in T
  <2>. HIDE DEF T
  <2>. QED  BY <1>1, <1>2, AllSequences
<1>. QED  BY <1>3 DEF Texts

LEMMA TokensOfBoth ==
  ASSUME NEW before \in Texts
  PROVE  \A text \in Texts : RedactTokens(before \o text) = RedactTokens(before) \o RedactTokens(text)
<1>. DEFINE T == { text \in Texts : RedactTokens(before \o text) = RedactTokens(before) \o RedactTokens(text) }
<1>0. PICK first \in Texts : first = RedactTokens(before)
  BY TokensReadIs
<1>1. << >> \in T
  <2>1. << >> \in Texts /\ before \o << >> = before /\ first \o << >> = first /\ RedactTokens(<< >>) = << >>
    BY TokensReadIs, ConcatEmptySeq DEF Texts
  <2>2. RedactTokens(before \o << >>) = first \o RedactTokens(<< >>)
    BY <1>0, <2>1
  <2>. QED  BY <1>0, <2>1, <2>2
<1>2. ASSUME NEW text \in Seq(TextPart), NEW part \in TextPart, text \in T PROVE Append(text, part) \in T
  <2>1. PICK all \in Texts : all = before \o text
    BY <1>2, BothAreText
  <2>2. PICK out \in Texts : out = RedactTokens(text)
    BY <1>2, TokensReadIs
  <2>3. RedactTokens(all) = first \o out
    BY <1>0, <1>2, <2>1, <2>2
  <2>4. before \o Append(text, part) = Append(all, part)
    BY <2>1, MoreOfBoth DEF Texts
  <2>5. RedactTokens(Append(all, part)) = IF part = "token" THEN (first \o out) \o Mark ELSE Append(first \o out, part)
    BY <2>3, TokensReadIs
  <2>6. RedactTokens(Append(text, part)) = IF part = "token" THEN out \o Mark ELSE Append(out, part)
    BY <1>2, <2>2, TokensReadIs
  <2>7. (first \o out) \o Mark = first \o (out \o Mark)
    BY MarkIsText, ThreeTexts, SMTT(30)
  <2>8. Append(first \o out, part) = first \o Append(out, part)
    BY MoreOfBoth DEF Texts
  <2>9. RedactTokens(before \o Append(text, part)) = first \o RedactTokens(Append(text, part))
    BY <2>4, <2>5, <2>6, <2>7, <2>8
  <2>10. Append(text, part) \in Texts
    BY AppendProperties DEF Texts
  <2>. QED  BY <1>0, <2>9, <2>10
<1>3. \A text \in Seq(TextPart) : text \in T
  <2>. HIDE DEF T
  <2>. QED  BY <1>1, <1>2, AllSequences
<1>. QED  BY <1>3 DEF Texts

LEMMA RedactCount ==
  ASSUME NEW what \in Hidden
  PROVE  \A text \in Texts : /\ Count(what, Redact(text)) <= Count(what, text)
                             /\ what = "token" => Count(what, Redact(text)) = 0
<1>. SUFFICES ASSUME NEW text \in Texts
              PROVE  /\ Count(what, Redact(text)) <= Count(what, text)
                     /\ what = "token" => Count(what, Redact(text)) = 0
  OBVIOUS
<1>1. PICK first \in Texts : first = RedactValues(text) /\ Count(what, first) <= Count(what, text)
  BY ValuesReadIs, BothAreText, ValuesCount DEF RedactValues, ValueState
<1>2. PICK second \in Texts : /\ second = RedactTokens(first) /\ Count(what, second) <= Count(what, first)
                              /\ what = "token" => Count(what, second) = 0
  BY TokensReadIs, TokensCount
<1>3. PICK none \in Texts : none = << >> /\ none \o second = second
  <2>1. << >> \in Texts /\ << >> \o second = second
    BY ConcatEmptySeq DEF Texts
  <2>. QED  BY <2>1
<1>4. Weight(what, LoginsRead(none \o second)) <= Weight(what, LoginsRead(none)) + Count(what, second)
  BY LoginsCount
<1>5. Weight(what, LoginsRead(none)) = 0
  BY <1>3, LoginsReadIs, CountOfNothing DEF Weight, NoLogin
<1>6. PICK third \in LoginState : third = LoginsRead(second) /\ Redact(text) = third.out \o third.gap
  BY <1>1, <1>2, LoginsReadIs DEF Redact, RedactLogins
<1>7. Weight(what, third) \in Nat /\ Count(what, Redact(text)) = Weight(what, third)
  BY <1>6, WeightIsNumber DEF LoginState
<1>8. Count(what, text) \in Nat /\ Count(what, first) \in Nat /\ Count(what, second) \in Nat
  BY WhereIsFinite
<1>. QED  BY <1>1, <1>2, <1>3, <1>4, <1>5, <1>6, <1>7, <1>8

-----------------------------------------------------------------------------
(* What the rule for values knows of the text *)

IsMore(s, part, t) ==
  /\ s \in Texts /\ t \in Texts /\ t = Append(s, part) /\ Len(t) = Len(s) + 1 /\ Len(s) \in Nat
  /\ t[Len(s) + 1] = part /\ \A i \in 1..Len(s) : t[i] = s[i]

LEMMA MoreExists ==
  ASSUME NEW s \in Texts, NEW part \in TextPart
  PROVE  \E t \in Texts : IsMore(s, part, t)
<1>1. Len(s) \in Nat
  BY DEF Texts
<1>. QED  BY <1>1, MoreIs DEF IsMore

LEMMA FreshIs ==
  ASSUME NEW s \in Texts, NEW k \in 1..Len(s)
  PROVE  FreshKey(s, k) <=>
           /\ s[k] = "key"
           /\ k > 1 => /\ s[k - 1] \in {"blank", "comma"}
                       /\ \A h \in 1..k - 1 : s[h] = "key" => \E m \in h + 1..k - 1 : s[m] # "blank"
<1>1. \A h \in 1..k - 1 : ~(Between(s, h, k) \subseteq {"blank"}) <=> \E m \in h + 1..k - 1 : s[m] # "blank"
  BY DEF Between
<1>. QED  BY <1>1 DEF FreshKey

LEMMA FreshStays ==
  ASSUME NEW s, NEW part, NEW t, IsMore(s, part, t)
  PROVE  \A k \in 1..Len(s) : FreshKey(t, k) <=> FreshKey(s, k)
<1>. SUFFICES ASSUME NEW k \in 1..Len(s) PROVE FreshKey(t, k) <=> FreshKey(s, k)
  OBVIOUS
<1>1. /\ Len(s) \in Nat /\ k \in 1..Len(t) /\ \A i \in 1..k : t[i] = s[i]
  BY DEF IsMore
<1>2. s[k] = t[k] /\ (k > 1 => s[k - 1] = t[k - 1])
  <2>1. k \in 1..k /\ (k > 1 => k - 1 \in 1..k)
    BY <1>1
  <2>. QED  BY <1>1, <2>1
<1>3. ASSUME NEW h \in 1..k - 1
      PROVE  /\ s[h] = t[h]
             /\ (\E m \in h + 1..k - 1 : s[m] # "blank") <=> (\E m \in h + 1..k - 1 : t[m] # "blank")
  <2>1. h \in 1..k /\ \A m \in h + 1..k - 1 : m \in 1..k
    BY <1>1
  <2>. QED  BY <1>1, <2>1
<1>4. s \in Texts /\ t \in Texts
  BY DEF IsMore
<1>5. FreshKey(s, k) <=>
        /\ s[k] = "key"
        /\ k > 1 => /\ s[k - 1] \in {"blank", "comma"}
                    /\ \A h \in 1..k - 1 : s[h] = "key" => \E m \in h + 1..k - 1 : s[m] # "blank"
  BY <1>4, FreshIs
<1>6. FreshKey(t, k) <=>
        /\ t[k] = "key"
        /\ k > 1 => /\ t[k - 1] \in {"blank", "comma"}
                    /\ \A h \in 1..k - 1 : t[h] = "key" => \E m \in h + 1..k - 1 : t[m] # "blank"
  BY <1>1, <1>4, FreshIs
<1>. QED  BY <1>2, <1>3, <1>5, <1>6

BlankAfter(s, k) == \A m \in k + 1..Len(s) : s[m] = "blank"

\* The next part belongs to the value of a key.
Valued(s) ==
  \E k \in 1..Len(s) : FreshKey(s, k) /\ \E j \in k..Len(s) :
    (\A m \in k + 1..j : s[m] = "blank") /\ (\A m \in j + 1..Len(s) : s[m] \notin {"blank", "comma"})

KeyIsThere(s, mode) == mode = "key" => \E h \in 1..Len(s) : s[h] = "key" /\ BlankAfter(s, h)
ValueIsThere(s, mode) == mode = "value" => Len(s) > 0 /\ s[Len(s)] \notin {"blank", "comma"}
FreshIsSeen(s, mode) == \A k \in 1..Len(s) : FreshKey(s, k) /\ BlankAfter(s, k) => mode = "key"
ValuedIsSeen(s, mode) == Valued(s) => mode \in {"key", "value"}

LEMMA NextMode ==
  ASSUME NEW read \in ValueState, NEW part \in Parts, NEW mode, mode = ReadValue(read, part).mode
  PROVE  /\ read.mode = "outside" => mode = IF part = "key" THEN "key" ELSE "outside"
         /\ read.mode = "value" => mode = IF part \in {"blank", "comma"} THEN "outside" ELSE "value"
         /\ read.mode = "key" => mode = IF part = "blank" THEN "key" ELSE IF part = "comma" THEN "outside" ELSE "value"
<1>1. Head(Mark) = "[RED"
  BY DEF Mark
<1>2. part # "[RED"
  BY DEF Parts
<1>. DEFINE next == ReadValue(read, part)
            text == Append(read.out \o read.gap, part)
<1>3. CASE read.mode = "outside" \/ (read.mode = "value" /\ part \in {"blank", "comma"})
  <2>1. next = [out |-> text, gap |-> << >>, mode |-> IF part = "key" THEN "key" ELSE "outside"]
    BY <1>3 DEF ReadValue
  <2>2. mode = IF part = "key" THEN "key" ELSE "outside"
    <3>. HIDE DEF text
    <3>. QED  BY <2>1
  <2>. QED  BY <1>3, <2>2
<1>4. CASE read.mode = "key" /\ part = "blank"
  <2>1. next = [read EXCEPT !.gap = Append(@, part)]
    BY <1>1, <1>4 DEF ReadValue
  <2>2. next.mode = read.mode
    BY <2>1 DEF ValueState
  <2>. QED  BY <1>4, <2>2
<1>5. CASE read.mode = "key" /\ part = "comma"
  <2>1. next = [out |-> text, gap |-> << >>, mode |-> "outside"]
    BY <1>5 DEF ReadValue
  <2>2. mode = "outside"
    <3>. HIDE DEF text
    <3>. QED  BY <2>1
  <2>. QED  BY <1>5, <2>2
<1>6. CASE read.mode = "key" /\ part \notin {"blank", "comma"}
  <2>. DEFINE out == read.out \o Mark
  <2>1. next = [out |-> out, gap |-> << >>, mode |-> "value"]
    BY <1>1, <1>2, <1>6 DEF ReadValue
  <2>2. mode = "value"
    <3>. HIDE DEF out
    <3>. QED  BY <2>1
  <2>. QED  BY <1>6, <2>2
<1>7. CASE read.mode = "value" /\ part \notin {"blank", "comma"}
  BY <1>7 DEF ReadValue
<1>. QED  BY <1>3, <1>4, <1>5, <1>6, <1>7 DEF ValueState

LEMMA ModeGoesOn ==
  ASSUME NEW s, NEW part \in Parts, NEW t, IsMore(s, part, t), NEW read \in ValueState,
         KeyIsThere(s, read.mode), ValueIsThere(s, read.mode), FreshIsSeen(s, read.mode), ValuedIsSeen(s, read.mode),
         NEW mode, mode = ReadValue(read, part).mode
  PROVE  KeyIsThere(t, mode) /\ ValueIsThere(t, mode) /\ FreshIsSeen(t, mode) /\ ValuedIsSeen(t, mode)
<1>0. PICK n \in Nat : n = Len(s) /\ Len(t) = n + 1 /\ t[n + 1] = part /\ (\A i \in 1..n : t[i] = s[i]) /\ t \in Texts
  BY DEF IsMore
<1>1. /\ read.mode = "outside" => mode = IF part = "key" THEN "key" ELSE "outside"
      /\ read.mode = "value" => mode = IF part \in {"blank", "comma"} THEN "outside" ELSE "value"
      /\ read.mode = "key" => mode = IF part = "blank" THEN "key" ELSE IF part = "comma" THEN "outside" ELSE "value"
      /\ read.mode \in {"outside", "key", "value"}
  BY NextMode DEF ValueState
<1>2. \A k \in 1..n : (BlankAfter(t, k) <=> part = "blank" /\ BlankAfter(s, k)) /\ (FreshKey(t, k) <=> FreshKey(s, k))
  <2>1. \A k \in 1..n : BlankAfter(t, k) <=> (part = "blank" /\ BlankAfter(s, k))
    BY <1>0 DEF BlankAfter
  <2>. QED  BY <1>0, <2>1, FreshStays
<1>3. KeyIsThere(t, mode)
  <2>. SUFFICES ASSUME mode = "key" PROVE \E h \in 1..n + 1 : t[h] = "key" /\ BlankAfter(t, h)
    BY <1>0 DEF KeyIsThere
  <2>1. CASE part = "key"
    <3>1. n + 1 \in 1..n + 1 /\ BlankAfter(t, n + 1)
      BY <1>0 DEF BlankAfter
    <3>. QED  BY <1>0, <2>1, <3>1
  <2>2. CASE part = "blank" /\ read.mode = "key"
    <3>1. PICK h \in 1..n : s[h] = "key" /\ BlankAfter(s, h)
      BY <1>0, <2>2 DEF KeyIsThere
    <3>2. t[h] = "key" /\ BlankAfter(t, h) /\ h \in 1..n + 1
      BY <1>0, <1>2, <2>2, <3>1
    <3>. QED  BY <3>2
  <2>. QED  BY <1>1, <2>1, <2>2
<1>4. ValueIsThere(t, mode)
  BY <1>0, <1>1 DEF ValueIsThere
<1>5. FreshIsSeen(t, mode)
  <2>. SUFFICES ASSUME NEW k \in 1..n + 1, FreshKey(t, k), BlankAfter(t, k) PROVE mode = "key"
    BY <1>0 DEF FreshIsSeen
  <2>1. CASE k \in 1..n
    BY <1>0, <1>1, <1>2, <2>1 DEF FreshIsSeen
  <2>2. CASE k = n + 1
    <3>1. /\ part = "key"
          /\ n > 0 => /\ t[n] \in {"blank", "comma"}
                      /\ \A h \in 1..n : t[h] = "key" => \E m \in h + 1..n : t[m] # "blank"
      <4>1. /\ t[k] = "key"
            /\ k > 1 => /\ t[k - 1] \in {"blank", "comma"}
                        /\ \A h \in 1..k - 1 : t[h] = "key" => \E m \in h + 1..k - 1 : t[m] # "blank"
        BY <1>0, FreshIs
      <4>2. k - 1 = n /\ (n > 0 => k > 1)
        BY <2>2
      <4>. QED  BY <1>0, <2>2, <4>1, <4>2
    <3>2. read.mode # "value"
      BY <1>0, <3>1 DEF ValueIsThere
    <3>3. read.mode # "key"
      <4>. SUFFICES ASSUME read.mode = "key" PROVE FALSE
        OBVIOUS
      <4>1. PICK h \in 1..n : s[h] = "key" /\ BlankAfter(s, h)
        BY <1>0 DEF KeyIsThere
      <4>2. PICK m \in h + 1..n : t[m] # "blank"
        BY <1>0, <3>1, <4>1
      <4>3. t[m] = "blank"
        BY <1>0, <4>1 DEF BlankAfter
      <4>. QED  BY <4>2, <4>3
    <3>. QED  BY <1>1, <3>1, <3>2, <3>3
  <2>. QED  BY <2>1, <2>2
<1>6. ValuedIsSeen(t, mode)
  <2>. SUFFICES ASSUME Valued(t) PROVE mode \in {"key", "value"}
    BY DEF ValuedIsSeen
  <2>1. PICK k \in 1..n + 1 : FreshKey(t, k) /\ \E j \in k..n + 1 :
          (\A m \in k + 1..j : t[m] = "blank") /\ (\A m \in j + 1..n + 1 : t[m] \notin {"blank", "comma"})
    BY <1>0 DEF Valued
  <2>2. PICK j \in k..n + 1 : (\A m \in k + 1..j : t[m] = "blank") /\ (\A m \in j + 1..n + 1 : t[m] \notin {"blank", "comma"})
    BY <2>1
  <2>3. CASE j = n + 1
    <3>1. BlankAfter(t, k)
      BY <1>0, <2>2, <2>3 DEF BlankAfter
    <3>. QED  BY <1>0, <1>5, <2>1, <3>1 DEF FreshIsSeen
  <2>4. CASE j <= n
    <3>1. k \in 1..n /\ j \in k..n /\ n + 1 \in j + 1..n + 1
      BY <2>4
    <3>2. part \notin {"blank", "comma"}
      BY <1>0, <2>2, <3>1
    <3>3. FreshKey(s, k)
      BY <1>2, <2>1, <3>1
    <3>4. ASSUME NEW m \in k + 1..j PROVE s[m] = "blank"
      <4>1. m \in 1..n
        BY <3>1
      <4>. QED  BY <1>0, <2>2, <4>1
    <3>5. ASSUME NEW m \in j + 1..n PROVE s[m] \notin {"blank", "comma"}
      <4>1. m \in 1..n /\ m \in j + 1..n + 1
        BY <3>1
      <4>. QED  BY <1>0, <2>2, <4>1
    <3>6. Valued(s)
      BY <1>0, <3>1, <3>3, <3>4, <3>5 DEF Valued
    <3>. QED  BY <1>1, <3>2, <3>6 DEF ValuedIsSeen
  <2>. QED  BY <2>3, <2>4
<1>. QED  BY <1>3, <1>4, <1>5, <1>6

-----------------------------------------------------------------------------
(* What is left to be found, as the text goes on *)

ByKey(s, i) ==
  \E k \in 1..i - 1 : FreshKey(s, k) /\ \E j \in k..i - 1 :
    (\A m \in k + 1..j : s[m] = "blank") /\ (\A m \in j + 1..i : s[m] \notin {"blank", "comma"})
ByLogin(s, i) ==
  \E k \in 1..i - 1, j \in i + 1..Len(s) :
    /\ s[k] = "login" /\ s[j] = "at" /\ \A m \in k + 1..j - 1 : s[m] \notin {"at", "blank"}
    /\ \A m \in 1..j - 1 : s[m] # "key"

LEMMA SensitiveIs ==
  ASSUME NEW s \in Texts, NEW i \in 1..Len(s)
  PROVE  i \in Sensitive(s) <=> (ByKey(s, i) \/ ByLogin(s, i))
<1>1. Len(s) \in Nat /\ DOMAIN s = 1..Len(s)
  BY DEF Texts
<1>2. \A k \in 1..i - 1, j \in 1..i - 1 :
        /\ Between(s, k, j + 1) \subseteq {"blank"} <=> \A m \in k + 1..j : s[m] = "blank"
        /\ Between(s, j, i + 1) \cap {"blank", "comma"} = {} <=> \A m \in j + 1..i : s[m] \notin {"blank", "comma"}
  <2>. SUFFICES ASSUME NEW k \in 1..i - 1, NEW j \in 1..i - 1
                PROVE  /\ Between(s, k, j + 1) \subseteq {"blank"} <=> \A m \in k + 1..j : s[m] = "blank"
                       /\ Between(s, j, i + 1) \cap {"blank", "comma"} = {} <=> \A m \in j + 1..i : s[m] \notin {"blank", "comma"}
    OBVIOUS
  <2>1. (j + 1) - 1 = j /\ (i + 1) - 1 = i
    BY <1>1
  <2>2. Between(s, k, j + 1) = { s[m] : m \in k + 1..j }
    BY <2>1 DEF Between
  <2>3. Between(s, j, i + 1) = { s[m] : m \in j + 1..i }
    BY <2>1 DEF Between
  <2>. QED  BY <2>2, <2>3
<1>3. ASSUME NEW k \in 1..i - 1, NEW j \in i + 1..Len(s)
      PROVE  /\ Between(s, k, j) \cap {"at", "blank"} = {} <=> \A m \in k + 1..j - 1 : s[m] \notin {"at", "blank"}
             /\ "key" \notin Between(s, 0, j) <=> \A m \in 1..j - 1 : s[m] # "key"
  <2>1. 0 + 1 = 1
    OBVIOUS
  <2>2. Between(s, k, j) = { s[m] : m \in k + 1..j - 1 } /\ Between(s, 0, j) = { s[m] : m \in 1..j - 1 }
    BY <2>1 DEF Between
  <2>. QED  BY <2>2
<1>4. ByKey(s, i) <=> \E k \in 1..i - 1 : FreshKey(s, k) /\ \E j \in k..i - 1 :
        Between(s, k, j + 1) \subseteq {"blank"} /\ Between(s, j, i + 1) \cap {"blank", "comma"} = {}
  <2>1. \A k \in 1..i - 1 : \A j \in k..i - 1 : j \in 1..i - 1
    BY <1>1
  <2>. QED  BY <1>2, <2>1 DEF ByKey
<1>5. ByLogin(s, i) <=> \E k \in 1..i - 1, j \in i + 1..Len(s) :
        s[k] = "login" /\ s[j] = "at" /\ Between(s, k, j) \cap {"at", "blank"} = {} /\ "key" \notin Between(s, 0, j)
  BY <1>3 DEF ByLogin
<1>. QED  BY <1>1, <1>4, <1>5 DEF Sensitive

NoKey(s) == \A i \in 1..Len(s) : s[i] # "key"
OpenAt(s, k) == s[k] = "login" /\ \A m \in k + 1..Len(s) : s[m] \notin {"at", "blank"}
Opened(s) == { i \in Where("secret", s) : \E k \in 1..i - 1 : OpenAt(s, k) }
Unhidden(s) == Secrets(s) \ Sensitive(s)

LEMMA SensitiveGoesOn ==
  ASSUME NEW s, NEW part, NEW t, IsMore(s, part, t)
  PROVE  /\ \A i \in 1..Len(s) : i \in Sensitive(t) =>
              \/ i \in Sensitive(s)
              \/ part = "at" /\ NoKey(s) /\ \E k \in 1..i - 1 : OpenAt(s, k)
         /\ Len(s) + 1 \in Sensitive(t) => Valued(s)
<1>0. PICK n \in Nat : /\ n = Len(s) /\ Len(t) = n + 1 /\ t[n + 1] = part /\ \A i \in 1..n : t[i] = s[i]
                       /\ t \in Texts /\ s \in Texts
  BY DEF IsMore
<1>1. ASSUME NEW i \in 1..n, ByKey(t, i) PROVE ByKey(s, i)
  <2>1. PICK k \in 1..i - 1 : FreshKey(t, k) /\ \E j \in k..i - 1 :
          (\A m \in k + 1..j : t[m] = "blank") /\ (\A m \in j + 1..i : t[m] \notin {"blank", "comma"})
    BY <1>1 DEF ByKey
  <2>2. PICK j \in k..i - 1 : (\A m \in k + 1..j : t[m] = "blank") /\ (\A m \in j + 1..i : t[m] \notin {"blank", "comma"})
    BY <2>1
  <2>3. k \in 1..n /\ (\A m \in k + 1..j : m \in 1..n) /\ (\A m \in j + 1..i : m \in 1..n)
    OBVIOUS
  <2>4. FreshKey(s, k)
    BY <1>0, <2>1, <2>3, FreshStays
  <2>5. (\A m \in k + 1..j : s[m] = "blank") /\ (\A m \in j + 1..i : s[m] \notin {"blank", "comma"})
    BY <1>0, <2>2, <2>3
  <2>. QED  BY <2>4, <2>5 DEF ByKey
<1>2. ASSUME NEW i \in 1..n, ByLogin(t, i)
      PROVE  ByLogin(s, i) \/ (part = "at" /\ NoKey(s) /\ \E k \in 1..i - 1 : OpenAt(s, k))
  <2>1. PICK k \in 1..i - 1, j \in i + 1..n + 1 :
          /\ t[k] = "login" /\ t[j] = "at" /\ \A m \in k + 1..j - 1 : t[m] \notin {"at", "blank"}
          /\ \A m \in 1..j - 1 : t[m] # "key"
    BY <1>0, <1>2 DEF ByLogin
  <2>2. k \in 1..n /\ (\A m \in 1..j - 1 : m \in 1..n) /\ (\A m \in k + 1..j - 1 : m \in 1..n)
    OBVIOUS
  <2>3. s[k] = "login" /\ (\A m \in k + 1..j - 1 : s[m] \notin {"at", "blank"}) /\ (\A m \in 1..j - 1 : s[m] # "key")
    BY <1>0, <2>1, <2>2
  <2>4. CASE j \in i + 1..n
    <3>1. j \in 1..n /\ s[j] = "at"
      BY <1>0, <2>1, <2>4
    <3>. QED  BY <1>0, <2>3, <2>4, <3>1 DEF ByLogin
  <2>5. CASE j = n + 1
    <3>1. j - 1 = n
      BY <2>5
    <3>2. part = "at" /\ NoKey(s) /\ OpenAt(s, k)
      BY <1>0, <2>1, <2>3, <2>5, <3>1 DEF NoKey, OpenAt
    <3>. QED  BY <3>2
  <2>. QED  BY <2>4, <2>5
<1>3. ASSUME NEW i \in 1..n, i \in Sensitive(t)
      PROVE  i \in Sensitive(s) \/ (part = "at" /\ NoKey(s) /\ \E k \in 1..i - 1 : OpenAt(s, k))
  <2>1. i \in 1..Len(t) /\ i \in 1..Len(s)
    BY <1>0
  <2>2. ByKey(t, i) \/ ByLogin(t, i)
    BY <1>0, <1>3, <2>1, SensitiveIs
  <2>3. ByKey(s, i) \/ ByLogin(s, i) => i \in Sensitive(s)
    BY <1>0, <2>1, SensitiveIs
  <2>. QED  BY <1>1, <1>2, <2>2, <2>3
<1>4. ASSUME n + 1 \in Sensitive(t) PROVE Valued(s)
  <2>1. PICK i \in 1..Len(t) : i = n + 1
    BY <1>0
  <2>2. ByKey(t, i) \/ ByLogin(t, i)
    BY <1>0, <1>4, <2>1, SensitiveIs
  <2>3. ~ByLogin(t, i)
    BY <1>0, <2>1 DEF ByLogin
  <2>4. i - 1 = n
    BY <2>1
  <2>5. PICK k \in 1..n : FreshKey(t, k) /\ \E j \in k..n :
          (\A m \in k + 1..j : t[m] = "blank") /\ (\A m \in j + 1..i : t[m] \notin {"blank", "comma"})
    BY <2>2, <2>3, <2>4 DEF ByKey
  <2>6. PICK j \in k..n : (\A m \in k + 1..j : t[m] = "blank") /\ (\A m \in j + 1..i : t[m] \notin {"blank", "comma"})
    BY <2>5
  <2>7. (\A m \in k + 1..j : m \in 1..n) /\ (\A m \in j + 1..n : m \in 1..n /\ m \in j + 1..i)
    BY <2>1
  <2>8. FreshKey(s, k)
    BY <1>0, <2>5, FreshStays
  <2>9. (\A m \in k + 1..j : s[m] = "blank") /\ (\A m \in j + 1..n : s[m] \notin {"blank", "comma"})
    BY <1>0, <2>6, <2>7
  <2>. QED  BY <1>0, <2>8, <2>9 DEF Valued
<1>. QED  BY <1>0, <1>3, <1>4

LEMMA UnhiddenGoesOn ==
  ASSUME NEW s, NEW part, NEW t, IsMore(s, part, t)
  PROVE  /\ Cardinality(Unhidden(s)) \in Nat /\ Cardinality(Unhidden(t)) \in Nat /\ Cardinality(Opened(s)) \in Nat
         /\ part # "at" \/ ~NoKey(s) => Cardinality(Unhidden(s)) <= Cardinality(Unhidden(t))
         /\ part = "secret" /\ ~Valued(s) => Cardinality(Unhidden(s)) + 1 <= Cardinality(Unhidden(t))
         /\ Cardinality(Unhidden(s)) <= Cardinality(Unhidden(t)) + Cardinality(Opened(s))
<1>0. PICK n \in Nat : /\ n = Len(s) /\ Len(t) = n + 1 /\ t[n + 1] = part /\ \A i \in 1..n : t[i] = s[i]
                       /\ t \in Texts /\ s \in Texts /\ DOMAIN s = 1..n /\ DOMAIN t = 1..n + 1
  BY DEF IsMore, Texts
<1>1. PICK old, new, opened : old = Unhidden(s) /\ new = Unhidden(t) /\ opened = Opened(s)
  OBVIOUS
<1>2. IsFiniteSet(old) /\ IsFiniteSet(new) /\ IsFiniteSet(opened)
  <2>1. IsFiniteSet(1..n) /\ IsFiniteSet(1..n + 1)
    BY FS_Interval
  <2>2. old \in SUBSET (1..n) /\ new \in SUBSET (1..n + 1) /\ opened \in SUBSET (1..n)
    BY <1>0, <1>1 DEF Unhidden, Secrets, Opened, Where
  <2>. QED  BY <2>1, <2>2, FS_Subset
<1>3. Cardinality(old) \in Nat /\ Cardinality(new) \in Nat /\ Cardinality(opened) \in Nat
  BY <1>2, FS_CardinalityType
<1>4. \A i \in 1..n : i \in Sensitive(t) => i \in Sensitive(s) \/ (part = "at" /\ NoKey(s) /\ \E k \in 1..i - 1 : OpenAt(s, k))
  BY <1>0, SensitiveGoesOn
<1>5. n + 1 \in Sensitive(t) => Valued(s)
  BY <1>0, SensitiveGoesOn
<1>6. ASSUME NEW i \in old PROVE i \in 1..n /\ (i \in new \/ (part = "at" /\ NoKey(s) /\ i \in opened))
  <2>1. i \in 1..n /\ s[i] = "secret" /\ i \notin Sensitive(s) /\ t[i] = "secret"
    BY <1>0, <1>1, <1>6 DEF Unhidden, Secrets
  <2>2. i \in new \/ i \in Sensitive(t)
    BY <1>0, <1>1, <2>1 DEF Unhidden, Secrets
  <2>3. (\E k \in 1..i - 1 : OpenAt(s, k)) => i \in opened
    BY <1>0, <1>1, <2>1 DEF Opened, Where
  <2>. QED  BY <1>4, <2>1, <2>2, <2>3
<1>7. ASSUME part # "at" \/ ~NoKey(s) PROVE Cardinality(old) <= Cardinality(new)
  <2>1. old \subseteq new
    BY <1>6, <1>7
  <2>. QED  BY <1>2, <2>1, FS_Subset
<1>8. ASSUME part = "secret", ~Valued(s) PROVE Cardinality(old) + 1 <= Cardinality(new)
  <2>1. n + 1 \in new
    BY <1>0, <1>1, <1>5, <1>8 DEF Unhidden, Secrets
  <2>2. n + 1 \notin old /\ old \union {n + 1} \subseteq new
    BY <1>6, <1>8, <2>1
  <2>3. Cardinality(old \union {n + 1}) = Cardinality(old) + 1
    BY <1>2, <2>2, FS_AddElement
  <2>4. Cardinality(old \union {n + 1}) <= Cardinality(new)
    BY <1>2, <2>2, FS_Subset
  <2>. QED  BY <2>3, <2>4
<1>9. Cardinality(old) <= Cardinality(new) + Cardinality(opened)
  <2>1. old \subseteq new \union opened
    BY <1>6
  <2>2. IsFiniteSet(new \union opened) /\ Cardinality(new \union opened) = Cardinality(new) + Cardinality(opened) - Cardinality(new \cap opened)
    BY <1>2, FS_Union
  <2>3. Cardinality(new \cap opened) \in Nat
    <3>1. IsFiniteSet(new \cap opened)
      BY <1>2, FS_Subset
    <3>. QED  BY <3>1, FS_CardinalityType
  <2>4. Cardinality(old) <= Cardinality(new \union opened)
    BY <2>1, <2>2, FS_Subset
  <2>. QED  BY <1>3, <2>2, <2>3, <2>4
<1>. QED  BY <1>1, <1>3, <1>7, <1>8, <1>9

-----------------------------------------------------------------------------
(* What the rule for logins knows of a text without a key *)

\* The read after a part, for which the rule for tokens may have put the mark.
AfterPart(read, part) ==
  IF part = "token" THEN ReadLogin(ReadLogin(read, "[RED"), "ACTED]") ELSE ReadLogin(read, part)

LEMMA NextLogin ==
  ASSUME NEW read \in LoginState, NEW part \in TextPart, NEW next, next = ReadLogin(read, part)
  PROVE  /\ next \in LoginState
         /\ part \in {"at", "blank"} => next.open = FALSE
         /\ part \notin {"at", "blank"} /\ read.open =>
              next.open = TRUE /\ Count("secret", next.gap) = Count("secret", read.gap) + One("secret", part)
         /\ part \notin {"at", "blank"} /\ ~read.open => next.open = IF part = "login" THEN TRUE ELSE FALSE
<1>1. next \in LoginState
  BY ReadLoginIs
<1>. DEFINE text == Append(read.out \o read.gap, part)
            all == read.out \o Mark \o <<part>>
<1>2. CASE part = "at" /\ read.open /\ read.gap # << >>
  <2>1. next = [out |-> all, gap |-> << >>, open |-> FALSE]
    BY <1>2 DEF ReadLogin
  <2>2. next.open = FALSE
    <3>. HIDE DEF all
    <3>. QED  BY <2>1
  <2>. QED  BY <1>1, <1>2, <2>2
<1>3. CASE part \notin {"at", "blank"} /\ read.open
  <2>1. next = [read EXCEPT !.gap = Append(@, part)]
    BY <1>3 DEF ReadLogin
  <2>2. next.open = read.open /\ next.gap = Append(read.gap, part) /\ read.gap \in Texts /\ read.open \in BOOLEAN
    BY <2>1 DEF LoginState
  <2>3. Count("secret", Append(read.gap, part)) = Count("secret", read.gap) + One("secret", part)
    <3>1. PICK gap \in Texts : gap = read.gap
      BY <2>2
    <3>2. Count("secret", Append(gap, part)) = Count("secret", gap) + One("secret", part)
      BY CountOfMore
    <3>. QED  BY <3>1, <3>2
  <2>. QED  BY <1>1, <1>3, <2>2, <2>3
<1>4. CASE ~(part = "at" /\ read.open /\ read.gap # << >>) /\ ~(part \notin {"at", "blank"} /\ read.open)
  <2>1. next = [out |-> text, gap |-> << >>, open |-> part = "login"]
    BY <1>4 DEF ReadLogin
  <2>2. next.open = (part = "login")
    <3>. HIDE DEF text
    <3>. QED  BY <2>1
  <2>. QED  BY <1>1, <1>4, <2>2
<1>. QED  BY <1>2, <1>3, <1>4

LEMMA NextPart ==
  ASSUME NEW read \in LoginState, NEW part \in Parts, NEW next, next = AfterPart(read, part)
  PROVE  /\ next \in LoginState
         /\ part \in {"at", "blank"} => next.open = FALSE
         /\ part \notin {"at", "blank"} /\ read.open =>
              next.open = TRUE /\ Count("secret", next.gap) = Count("secret", read.gap) + One("secret", part)
         /\ part \notin {"at", "blank"} /\ ~read.open => next.open = IF part = "login" THEN TRUE ELSE FALSE
<1>1. CASE part # "token"
  BY <1>1, NextLogin DEF AfterPart, TextPart
<1>2. CASE part = "token"
  <2>1. "[RED" \in TextPart /\ "ACTED]" \in TextPart
    BY DEF TextPart
  <2>2. PICK mid \in LoginState : mid = ReadLogin(read, "[RED")
    BY <2>1, ReadLoginIs
  <2>3. next = ReadLogin(mid, "ACTED]")
    BY <1>2, <2>2 DEF AfterPart
  <2>4. next \in LoginState
    BY <2>1, <2>3, NextLogin
  <2>5. Count("secret", read.gap) \in Nat /\ One("secret", "[RED") = 0 /\ One("secret", "ACTED]") = 0 /\ One("secret", part) = 0
    BY <1>2, WhereIsFinite DEF LoginState, One
  <2>6. CASE read.open
    <3>0. PICK first \in TextPart : first = "[RED" /\ first \notin {"at", "blank"}
      BY <2>1
    <3>1. mid.open = TRUE /\ Count("secret", mid.gap) = Count("secret", read.gap) + One("secret", "[RED")
      <4>1. mid.open = TRUE /\ Count("secret", mid.gap) = Count("secret", read.gap) + One("secret", first)
        BY <2>2, <2>6, <3>0, NextLogin
      <4>. QED  BY <3>0, <4>1
    <3>2. next.open = TRUE /\ Count("secret", next.gap) = Count("secret", mid.gap) + One("secret", "ACTED]")
      BY <2>1, <2>3, <3>1, NextLogin
    <3>. QED  BY <1>2, <2>4, <2>5, <2>6, <3>1, <3>2
  <2>7. CASE ~read.open
    <3>1. mid.open = FALSE
      BY <2>1, <2>2, <2>7, NextLogin
    <3>2. next.open = FALSE
      <4>1. PICK last \in TextPart : last = "ACTED]" /\ last \notin {"at", "blank", "login"}
        BY <2>1
      <4>2. next = ReadLogin(mid, last)
        BY <2>3, <4>1
      <4>3. ~mid.open
        BY <3>1
      <4>4. next.open = IF last = "login" THEN TRUE ELSE FALSE
        BY <4>1, <4>2, <4>3, NextLogin
      <4>. QED  BY <4>1, <4>4
    <3>. QED  BY <1>2, <2>4, <2>7, <3>2
  <2>. QED  BY <2>6, <2>7
<1>. QED  BY <1>1, <1>2

\* An open login is seen, and what is between it and the end of the text waits.
LoginIsSeen(s, read) ==
  /\ ~read.open => \A k \in 1..Len(s) : ~OpenAt(s, k)
  /\ Cardinality(Opened(s)) <= Count("secret", read.gap)

LEMMA LoginGoesOn ==
  ASSUME NEW s, NEW part \in Parts, NEW t, IsMore(s, part, t), NEW read \in LoginState, LoginIsSeen(s, read),
         NEW next, next = AfterPart(read, part)
  PROVE  LoginIsSeen(t, next)
<1>0. PICK n \in Nat : /\ n = Len(s) /\ Len(t) = n + 1 /\ t[n + 1] = part /\ \A i \in 1..n : t[i] = s[i]
                       /\ t \in Texts /\ s \in Texts /\ DOMAIN s = 1..n /\ DOMAIN t = 1..n + 1
  BY DEF IsMore, Texts
<1>1. /\ next \in LoginState
      /\ part \in {"at", "blank"} => next.open = FALSE
      /\ part \notin {"at", "blank"} /\ read.open =>
           next.open = TRUE /\ Count("secret", next.gap) = Count("secret", read.gap) + One("secret", part)
      /\ part \notin {"at", "blank"} /\ ~read.open => next.open = IF part = "login" THEN TRUE ELSE FALSE
  BY NextPart
<1>2. Count("secret", next.gap) \in Nat /\ Count("secret", read.gap) \in Nat
  BY <1>1, WhereIsFinite DEF LoginState
<1>3. \A k \in 1..n : OpenAt(t, k) <=> (part \notin {"at", "blank"} /\ OpenAt(s, k))
  BY <1>0 DEF OpenAt
<1>4. OpenAt(t, n + 1) <=> part = "login"
  BY <1>0 DEF OpenAt
<1>5. ASSUME ~next.open PROVE \A k \in 1..n + 1 : ~OpenAt(t, k)
  <2>1. CASE part \in {"at", "blank"}
    <3>1. \A k \in 1..n : ~OpenAt(t, k)
      BY <1>3, <2>1
    <3>2. ~OpenAt(t, n + 1)
      BY <1>4, <2>1
    <3>. QED  BY <3>1, <3>2
  <2>2. CASE part \notin {"at", "blank"}
    <3>1. ~read.open /\ part # "login"
      BY <1>1, <1>5, <2>2 DEF LoginState
    <3>2. \A k \in 1..n : ~OpenAt(t, k)
      BY <1>0, <1>3, <3>1 DEF LoginIsSeen
    <3>. QED  BY <1>4, <3>1, <3>2
  <2>. QED  BY <2>1, <2>2
<1>6. PICK old, new : old = Opened(s) /\ new = Opened(t)
  OBVIOUS
<1>7. ASSUME \A k \in 1..n : ~OpenAt(t, k) PROVE Cardinality(new) = 0
  <2>1. \A i \in 1..n + 1 : \A k \in 1..i - 1 : k \in 1..n
    OBVIOUS
  <2>2. new = {}
    BY <1>0, <1>6, <1>7, <2>1 DEF Opened, Where
  <2>. QED  BY <2>2, FS_EmptySet
<1>8. CASE part \in {"at", "blank"} \/ ~read.open
  <2>1. \A k \in 1..n : ~OpenAt(t, k)
    BY <1>0, <1>3, <1>8 DEF LoginIsSeen
  <2>. QED  BY <1>0, <1>2, <1>5, <1>6, <1>7, <2>1 DEF LoginIsSeen
<1>9. CASE part \notin {"at", "blank"} /\ read.open
  <2>1. Count("secret", next.gap) = Count("secret", read.gap) + One("secret", part)
    BY <1>1, <1>9
  <2>2. IsFiniteSet(old) /\ old \in SUBSET (1..n)
    <3>1. old \in SUBSET (1..n) /\ IsFiniteSet(1..n)
      BY <1>0, <1>6, FS_Interval DEF Opened, Where
    <3>. QED  BY <3>1, FS_Subset
  <2>3. Cardinality(old) \in Nat
    BY <2>2, FS_CardinalityType
  <2>4. ASSUME NEW i \in new PROVE i \in old \/ (i = n + 1 /\ part = "secret")
    <3>1. i \in 1..n + 1 /\ t[i] = "secret" /\ \E k \in 1..i - 1 : OpenAt(t, k)
      BY <1>0, <1>6 DEF Opened, Where
    <3>2. PICK k \in 1..i - 1 : OpenAt(t, k)
      BY <3>1
    <3>3. k \in 1..n /\ OpenAt(s, k)
      BY <1>3, <3>1, <3>2
    <3>4. CASE i \in 1..n
      BY <1>0, <1>6, <3>1, <3>3, <3>4 DEF Opened, Where
    <3>5. CASE i = n + 1
      BY <1>0, <3>1, <3>5
    <3>. QED  BY <3>1, <3>4, <3>5
  <2>5. CASE part = "secret"
    <3>1. new \subseteq old \union {n + 1} /\ n + 1 \notin old
      BY <2>2, <2>4
    <3>2. IsFiniteSet(old \union {n + 1}) /\ Cardinality(old \union {n + 1}) = Cardinality(old) + 1
      BY <2>2, <3>1, FS_AddElement
    <3>3. Cardinality(new) <= Cardinality(old) + 1
      BY <3>1, <3>2, FS_Subset
    <3>4. IsFiniteSet(new)
      BY <3>1, <3>2, FS_Subset
    <3>5. Cardinality(new) \in Nat
      BY <3>4, FS_CardinalityType
    <3>6. Cardinality(new) <= Count("secret", next.gap)
      BY <1>2, <1>6, <2>1, <2>3, <2>5, <3>3, <3>5 DEF LoginIsSeen, One
    <3>. QED  BY <1>0, <1>5, <1>6, <3>6 DEF LoginIsSeen
  <2>6. CASE part # "secret"
    <3>1. new \subseteq old
      BY <2>4, <2>6
    <3>2. Cardinality(new) <= Cardinality(old) /\ IsFiniteSet(new)
      BY <2>2, <3>1, FS_Subset
    <3>3. Cardinality(new) \in Nat
      BY <3>2, FS_CardinalityType
    <3>4. Cardinality(new) <= Count("secret", next.gap)
      BY <1>2, <1>6, <2>1, <2>3, <2>6, <3>2, <3>3 DEF LoginIsSeen, One
    <3>. QED  BY <1>0, <1>5, <1>6, <3>4 DEF LoginIsSeen
  <2>. QED  BY <2>5, <2>6
<1>. QED  BY <1>8, <1>9 DEF LoginState

-----------------------------------------------------------------------------
(* The redactor leaves no more of the secrets than those that nothing marks *)

LEMMA ValueStep ==
  ASSUME NEW read \in ValueState, Count("secret", read.gap) = 0, NEW part \in Parts,
         NEW next, next = ReadValue(read, part)
  PROVE  /\ next \in ValueState /\ Count("secret", next.gap) = 0
         /\ \E more \in Texts : /\ next.out = read.out \o more /\ Count("secret", more) <= One("secret", part)
                                /\ read.mode # "outside" => Count("secret", more) = 0
<1>0. PICK out \in Texts, gap \in Texts : out = read.out /\ gap = read.gap /\ Count("secret", gap) = 0
  BY DEF ValueState
<1>1. part \in TextPart /\ Head(Mark) = "[RED" /\ part # "[RED" /\ "secret" \in Hidden
  BY DEF TextPart, Mark, Parts, Hidden
<1>2. next \in ValueState
  BY <1>1, ReadValueIs
<1>3. PICK waiting \in Texts : waiting = Append(gap, part) /\ Count("secret", waiting) = One("secret", part)
  <2>1. Count("secret", Append(gap, part)) = Count("secret", gap) + One("secret", part) /\ One("secret", part) \in Nat
    BY <1>1, CountOfMore DEF One
  <2>2. Append(gap, part) \in Texts
    BY <1>1, AppendProperties DEF Texts
  <2>3. Count("secret", Append(gap, part)) = One("secret", part)
    BY <1>0, <2>1
  <2>. QED  BY <2>2, <2>3
<1>4. Append(out \o gap, part) = out \o waiting
  <2>1. out \o Append(gap, part) = Append(out \o gap, part)
    BY <1>1, MoreOfBoth DEF Texts
  <2>. QED  BY <1>3, <2>1
<1>5. PICK none \in Texts : none = << >> /\ out \o none = out /\ Count("secret", none) = 0
  <2>1. << >> \in Texts /\ out \o << >> = out /\ Count("secret", << >>) = 0
    BY ConcatEmptySeq, CountOfNothing DEF Texts
  <2>. QED  BY <2>1
<1>6. Mark \in Texts /\ Count("secret", Mark) = 0 /\ One("secret", part) \in Nat
  BY <1>1, MarkIsText, CountOfMark DEF One
<1>. DEFINE text == Append(read.out \o read.gap, part)
            hidden == read.out \o Mark
<1>7. CASE read.mode = "outside" \/ (read.mode = "value" /\ part \in {"blank", "comma"})
  <2>1. next = [out |-> text, gap |-> << >>, mode |-> IF part = "key" THEN "key" ELSE "outside"]
    BY <1>7 DEF ReadValue
  <2>2. next.out = text /\ next.gap = << >>
    <3>. HIDE DEF text
    <3>. QED  BY <2>1
  <2>3. next.out = out \o waiting /\ Count("secret", next.gap) = 0
    BY <1>0, <1>4, <1>5, <2>2
  <2>4. read.mode # "outside" => Count("secret", waiting) = 0
    BY <1>3, <1>7 DEF One
  <2>5. Count("secret", waiting) <= One("secret", part)
    BY <1>3, <1>6
  <2>. QED  BY <1>0, <1>2, <2>3, <2>4, <2>5
<1>8. CASE read.mode = "key" /\ part = "blank"
  <2>1. next = [read EXCEPT !.gap = Append(@, part)]
    BY <1>1, <1>8 DEF ReadValue
  <2>2. next.gap = waiting /\ next.out = out
    BY <1>0, <1>3, <2>1 DEF ValueState
  <2>3. One("secret", part) = 0
    BY <1>8 DEF One
  <2>4. next.out = out \o none /\ Count("secret", next.gap) = 0 /\ Count("secret", none) <= One("secret", part)
    BY <1>3, <1>5, <2>2, <2>3
  <2>. QED  BY <1>0, <1>2, <1>5, <2>4
<1>9. CASE read.mode = "key" /\ part = "comma"
  <2>1. next = [out |-> text, gap |-> << >>, mode |-> "outside"]
    BY <1>9 DEF ReadValue
  <2>2. next.out = text /\ next.gap = << >>
    <3>. HIDE DEF text
    <3>. QED  BY <2>1
  <2>3. next.out = out \o waiting /\ Count("secret", next.gap) = 0
    BY <1>0, <1>4, <1>5, <2>2
  <2>4. Count("secret", waiting) = 0 /\ One("secret", part) = 0
    BY <1>3, <1>9 DEF One
  <2>. QED  BY <1>0, <1>2, <2>3, <2>4
<1>10. CASE read.mode = "key" /\ part \notin {"blank", "comma"}
  <2>1. next = [out |-> hidden, gap |-> << >>, mode |-> "value"]
    BY <1>1, <1>10 DEF ReadValue
  <2>2. next.out = hidden /\ next.gap = << >>
    <3>. HIDE DEF hidden
    <3>. QED  BY <2>1
  <2>3. next.out = out \o Mark /\ Count("secret", next.gap) = 0
    BY <1>0, <1>5, <2>2
  <2>. QED  BY <1>0, <1>2, <1>6, <2>3
<1>11. CASE read.mode = "value" /\ part \notin {"blank", "comma"}
  <2>1. next = read
    BY <1>11 DEF ReadValue
  <2>2. next.out = out \o none /\ Count("secret", next.gap) = 0 /\ Count("secret", none) <= One("secret", part)
    BY <1>0, <1>5, <1>6, <2>1
  <2>. QED  BY <1>0, <1>2, <1>5, <2>2
<1>. QED  BY <1>7, <1>8, <1>9, <1>10, <1>11 DEF ValueState

\* After the rule for values and that for tokens.
LoginsOf(s) == LoginsRead(RedactTokens(ValuesRead(s).out))

RedactInv(s) ==
  /\ Count("secret", ValuesRead(s).gap) = 0
  /\ KeyIsThere(s, ValuesRead(s).mode) /\ ValueIsThere(s, ValuesRead(s).mode)
  /\ FreshIsSeen(s, ValuesRead(s).mode) /\ ValuedIsSeen(s, ValuesRead(s).mode)
  /\ NoKey(s) => /\ ValuesRead(s).out = s /\ ValuesRead(s).gap = << >> /\ ValuesRead(s).mode = "outside"
                 /\ LoginIsSeen(s, LoginsOf(s))
  /\ Weight("secret", LoginsOf(s)) <= Cardinality(Unhidden(s))

LEMMA LoginsOfIs == \A s \in Texts : LoginsOf(s) \in LoginState
BY ValuesReadIs, TokensReadIs, LoginsReadIs DEF LoginsOf, ValueState

LEMMA WithoutKey ==
  ASSUME NEW s, NEW part \in Parts, NEW t, IsMore(s, part, t), RedactInv(s), NoKey(t)
  PROVE  /\ ValuesRead(t).out = t /\ ValuesRead(t).gap = << >> /\ ValuesRead(t).mode = "outside"
         /\ LoginsOf(t) = AfterPart(LoginsOf(s), part) /\ LoginIsSeen(t, LoginsOf(t)) /\ NoKey(s)
<1>0. PICK n \in Nat : /\ n = Len(s) /\ Len(t) = n + 1 /\ t[n + 1] = part /\ \A i \in 1..n : t[i] = s[i]
                       /\ t \in Texts /\ s \in Texts /\ t = Append(s, part)
  BY DEF IsMore
<1>1. part \in TextPart
  BY DEF TextPart
<1>2. NoKey(s) /\ part # "key"
  BY <1>0 DEF NoKey
<1>3. PICK read \in ValueState : read = ValuesRead(s) /\ read.out = s /\ read.gap = << >> /\ read.mode = "outside"
  BY <1>0, <1>2, ValuesReadIs DEF RedactInv
<1>4. ValuesRead(t) = ReadValue(read, part)
  BY <1>0, <1>1, <1>3, ValuesReadIs
<1>5. s \o << >> = s
  BY <1>0, ConcatEmptySeq DEF Texts
<1>6. ValuesRead(t) = [out |-> t, gap |-> << >>, mode |-> "outside"]
  BY <1>0, <1>2, <1>3, <1>4, <1>5 DEF ReadValue
<1>7. PICK out \in Texts : out = RedactTokens(s) /\ LoginsOf(s) = LoginsRead(out)
  BY <1>0, <1>3, TokensReadIs DEF LoginsOf
<1>8. RedactTokens(t) = IF part = "token" THEN out \o Mark ELSE Append(out, part)
  BY <1>0, <1>1, <1>7, TokensReadIs
<1>9. LoginsRead(RedactTokens(t)) = AfterPart(LoginsOf(s), part)
  <2>1. CASE part # "token"
    BY <1>1, <1>7, <1>8, <2>1, LoginsReadIs DEF AfterPart
  <2>2. CASE part = "token"
    <3>1. PICK first \in TextPart, last \in TextPart : first = "[RED" /\ last = "ACTED]"
      BY DEF TextPart
    <3>2. out \o Mark = Append(Append(out, first), last)
      <4>1. Append(<<first>>, last) = Mark /\ <<first>> \in Texts
        <5>1. PICK one \in Texts : one = <<first>> /\ Len(one) = 1 /\ one[1] = first
          <6>1. <<first>> \in Texts /\ Len(<<first>>) = 1 /\ <<first>>[1] = first
            BY DEF Texts
          <6>. QED  BY <6>1
        <5>2. PICK two \in Texts : /\ two = Append(one, last) /\ Len(two) = Len(one) + 1 /\ two[Len(one) + 1] = last
                                   /\ \A i \in 1..Len(one) : two[i] = one[i]
          BY MoreIs
        <5>3. Len(two) = 2 /\ two[1] = first /\ two[2] = last
          BY <5>1, <5>2
        <5>4. Mark \in Texts /\ Len(Mark) = 2 /\ Mark[1] = first /\ Mark[2] = last
          BY <3>1, MarkIsText DEF Mark
        <5>5. \A i \in 1..Len(two) : two[i] = Mark[i]
          BY <5>3, <5>4
        <5>6. two = Mark
          BY <5>3, <5>4, <5>5, SeqEqual DEF Texts
        <5>. QED  BY <5>1, <5>2, <5>6
      <4>2. out \o Append(<<first>>, last) = Append(out \o <<first>>, last)
        BY <4>1, MoreOfBoth DEF Texts
      <4>3. Append(out, first) = out \o <<first>>
        BY AppendIsConcat DEF Texts
      <4>. QED  BY <4>1, <4>2, <4>3
    <3>3. PICK mid \in Texts : mid = Append(out, first)
      BY MoreIs
    <3>4. LoginsRead(mid) = ReadLogin(LoginsRead(out), first)
      BY <3>3, LoginsReadIs
    <3>5. LoginsRead(Append(mid, last)) = ReadLogin(LoginsRead(mid), last)
      BY LoginsReadIs
    <3>. QED  BY <1>7, <1>8, <2>2, <3>1, <3>2, <3>3, <3>4, <3>5 DEF AfterPart
  <2>. QED  BY <2>1, <2>2
<1>10. LoginsOf(t) = AfterPart(LoginsOf(s), part)
  BY <1>6, <1>9 DEF LoginsOf
<1>11. LoginIsSeen(t, LoginsOf(t))
  <2>1. PICK logins \in LoginState : logins = LoginsOf(s) /\ LoginIsSeen(s, logins)
    BY <1>0, <1>2, LoginsOfIs DEF RedactInv
  <2>. QED  BY <1>10, <2>1, LoginGoesOn
<1>. QED  BY <1>2, <1>6, <1>10, <1>11

LEMMA RedactGoesOn ==
  ASSUME NEW s, NEW part \in Parts, NEW t, IsMore(s, part, t), RedactInv(s)
  PROVE  RedactInv(t)
<1>0. t \in Texts /\ s \in Texts /\ t = Append(s, part) /\ part \in TextPart /\ "secret" \in Hidden
  BY DEF IsMore, TextPart, Hidden
<1>1. PICK read \in ValueState : read = ValuesRead(s) /\ Count("secret", read.gap) = 0
  BY <1>0, ValuesReadIs DEF RedactInv
<1>2. PICK next : next = ReadValue(read, part) /\ ValuesRead(t) = next
  BY <1>0, <1>1, ValuesReadIs
<1>3. /\ next \in ValueState /\ Count("secret", next.gap) = 0
      /\ \E more \in Texts : /\ next.out = read.out \o more /\ Count("secret", more) <= One("secret", part)
                             /\ read.mode # "outside" => Count("secret", more) = 0
  BY <1>1, <1>2, ValueStep
<1>4. PICK more \in Texts : /\ next.out = read.out \o more /\ Count("secret", more) <= One("secret", part)
                            /\ read.mode # "outside" => Count("secret", more) = 0
  BY <1>3
<1>5. /\ KeyIsThere(t, next.mode) /\ ValueIsThere(t, next.mode)
      /\ FreshIsSeen(t, next.mode) /\ ValuedIsSeen(t, next.mode)
  BY <1>1, <1>2, ModeGoesOn DEF RedactInv
<1>6. PICK before \in Texts, rest \in Texts : /\ before = RedactTokens(read.out) /\ rest = RedactTokens(more)
                                              /\ RedactTokens(next.out) = before \o rest
  <2>1. PICK out \in Texts : out = read.out
    BY DEF ValueState
  <2>2. RedactTokens(out) \in Texts /\ RedactTokens(more) \in Texts
    BY TokensReadIs
  <2>3. RedactTokens(out \o more) = RedactTokens(out) \o RedactTokens(more)
    BY TokensOfBoth
  <2>. QED  BY <1>4, <2>1, <2>2, <2>3
<1>7. PICK old \in LoginState, new \in LoginState : /\ old = LoginsOf(s) /\ old = LoginsRead(before)
                                                    /\ new = LoginsOf(t) /\ new = LoginsRead(before \o rest)
  BY <1>0, <1>1, <1>2, <1>6, LoginsOfIs DEF LoginsOf
<1>8. Weight("secret", old) \in Nat /\ Weight("secret", new) \in Nat /\ Count("secret", more) \in Nat /\ Count("secret", rest) \in Nat
  BY WeightIsNumber, WhereIsFinite DEF LoginState
<1>9. Weight("secret", new) <= Weight("secret", old) + Count("secret", more)
  <2>1. Weight("secret", LoginsRead(before \o rest)) <= Weight("secret", LoginsRead(before)) + Count("secret", rest)
    BY <1>0, LoginsCount
  <2>2. Count("secret", rest) <= Count("secret", more)
    BY <1>0, <1>6, TokensCount
  <2>. QED  BY <1>7, <1>8, <2>1, <2>2
<1>10. PICK a \in Nat, b \in Nat, c \in Nat :
         /\ a = Cardinality(Unhidden(s)) /\ b = Cardinality(Unhidden(t)) /\ c = Cardinality(Opened(s))
         /\ part # "at" \/ ~NoKey(s) => a <= b
         /\ part = "secret" /\ ~Valued(s) => a + 1 <= b
         /\ a <= b + c
  BY UnhiddenGoesOn
<1>11. Weight("secret", old) <= a
  BY <1>7, <1>10 DEF RedactInv
<1>12. Weight("secret", new) <= b
  <2>1. CASE part = "secret"
    <3>1. CASE read.mode = "outside"
      <4>1. ~Valued(s)
        BY <1>1, <3>1 DEF RedactInv, ValuedIsSeen
      <4>2. Count("secret", more) <= 1
        BY <1>4, <2>1 DEF One
      <4>. QED  BY <1>8, <1>9, <1>10, <1>11, <2>1, <4>1, <4>2
    <3>2. CASE read.mode # "outside"
      BY <1>4, <1>8, <1>9, <1>10, <1>11, <2>1, <3>2
    <3>. QED  BY <3>1, <3>2
  <2>2. CASE part # "secret" /\ (part # "at" \/ ~NoKey(s))
    <3>1. Count("secret", more) <= 0
      BY <1>4, <2>2 DEF One
    <3>. QED  BY <1>8, <1>9, <1>10, <1>11, <2>2, <3>1
  <2>3. CASE part = "at" /\ NoKey(s)
    <3>1. NoKey(t)
      BY <2>3 DEF NoKey, IsMore
    <3>2. new = ReadLogin(old, part)
      <4>1. LoginsOf(t) = AfterPart(LoginsOf(s), part)
        BY <3>1, WithoutKey
      <4>. QED  BY <1>7, <2>3, <4>1 DEF AfterPart
    <3>3. LoginIsSeen(s, old)
      BY <1>7, <2>3 DEF RedactInv
    <3>4. PICK out \in Texts, gap \in Texts : out = old.out /\ gap = old.gap
      BY DEF LoginState
    <3>5. Count("secret", out) \in Nat /\ Count("secret", gap) \in Nat
      BY WhereIsFinite
    <3>6. c <= Count("secret", gap)
      BY <1>10, <3>3, <3>4 DEF LoginIsSeen
    <3>7. CASE old.open /\ gap # << >>
      <4>. DEFINE all == old.out \o Mark \o <<part>>
      <4>1. new = [out |-> all, gap |-> << >>, open |-> FALSE]
        BY <2>3, <3>2, <3>4, <3>7 DEF ReadLogin
      <4>2. new.out = all /\ new.gap = << >>
        <5>. HIDE DEF all
        <5>. QED  BY <4>1
      <4>3. Count("secret", all) = Count("secret", out)
        <5>1. Count("secret", out \o Mark \o <<part>>) = Count("secret", out) + One("secret", part)
          BY <1>0, CountOfWaiting
        <5>2. One("secret", part) = 0
          BY <2>3 DEF One
        <5>. QED  BY <3>4, <3>5, <5>1, <5>2
      <4>4. Weight("secret", new) = Count("secret", out)
        <5>. HIDE DEF all
        <5>. QED  BY <3>5, <4>2, <4>3, CountOfNothing DEF Weight
      <4>5. Weight("secret", old) = Count("secret", out) + Count("secret", gap)
        BY <3>4 DEF Weight
      <4>. QED  BY <1>8, <1>10, <1>11, <3>5, <3>6, <4>4, <4>5
    <3>8. CASE ~(old.open /\ gap # << >>)
      <4>1. c = 0
        <5>1. CASE gap = << >>
          BY <3>6, <5>1, CountOfNothing
        <5>2. CASE ~old.open
          <6>1. \A k \in 1..Len(s) : ~OpenAt(s, k)
            BY <3>3, <5>2 DEF LoginIsSeen
          <6>2. DOMAIN s = 1..Len(s) /\ Len(s) \in Nat
            BY <1>0 DEF Texts
          <6>3. \A i \in 1..Len(s) : \A k \in 1..i - 1 : k \in 1..Len(s)
            BY <6>2
          <6>4. Opened(s) = {}
            BY <6>1, <6>2, <6>3 DEF Opened, Where
          <6>. QED  BY <1>10, <6>4, FS_EmptySet
        <5>. QED  BY <3>8, <5>1, <5>2
      <4>2. Count("secret", more) <= 0
        BY <1>4, <2>3 DEF One
      <4>. QED  BY <1>8, <1>9, <1>10, <1>11, <4>1, <4>2
    <3>. QED  BY <3>7, <3>8
  <2>. QED  BY <2>1, <2>2, <2>3
<1>13. NoKey(t) => /\ ValuesRead(t).out = t /\ ValuesRead(t).gap = << >> /\ ValuesRead(t).mode = "outside"
                   /\ LoginIsSeen(t, LoginsOf(t))
  BY WithoutKey
<1>. QED  BY <1>2, <1>3, <1>5, <1>7, <1>10, <1>12, <1>13 DEF RedactInv

LEMMA RedactInvHolds == \A s \in Seq(Parts) : s \in Texts /\ RedactInv(s)
<1>. DEFINE T == { s \in Texts : RedactInv(s) }
<1>1. << >> \in T
  <2>1. PICK none : none = << >> /\ none \in Texts /\ Len(none) = 0 /\ DOMAIN none = {}
    <3>1. << >> \in Texts /\ Len(<< >>) = 0 /\ DOMAIN << >> = {}
      BY DEF Texts
    <3>. QED  BY <3>1
  <2>2. ValuesRead(none) = NoValue /\ RedactTokens(none) = none /\ LoginsRead(none) = NoLogin
    BY <2>1, ValuesReadIs, TokensReadIs, LoginsReadIs
  <2>3. NoValue.out = none /\ NoValue.gap = none /\ NoValue.mode = "outside"
    BY <2>1 DEF NoValue
  <2>4. LoginsOf(none) = NoLogin /\ NoLogin.out = none /\ NoLogin.gap = none
    BY <2>1, <2>2, <2>3 DEF LoginsOf, NoLogin
  <2>5. Count("secret", none) = 0
    BY <2>1, CountOfNothing
  <2>6. Opened(none) = {} /\ Unhidden(none) = {}
    BY <2>1 DEF Opened, Where, Unhidden, Secrets
  <2>7. Cardinality(Opened(none)) = 0 /\ Cardinality(Unhidden(none)) = 0
    BY <2>6, FS_EmptySet
  <2>8. /\ KeyIsThere(none, "outside") /\ ValueIsThere(none, "outside")
        /\ FreshIsSeen(none, "outside") /\ ValuedIsSeen(none, "outside")
    BY <2>1 DEF KeyIsThere, ValueIsThere, FreshIsSeen, ValuedIsSeen, Valued
  <2>9. LoginIsSeen(none, NoLogin)
    BY <2>1, <2>4, <2>5, <2>7 DEF LoginIsSeen
  <2>10. Weight("secret", NoLogin) = 0
    BY <2>4, <2>5 DEF Weight
  <2>11. RedactInv(none)
    BY <2>1, <2>2, <2>3, <2>4, <2>5, <2>7, <2>8, <2>9, <2>10 DEF RedactInv
  <2>. QED  BY <2>1, <2>11
<1>2. ASSUME NEW s \in Seq(Parts), NEW part \in Parts, s \in T PROVE Append(s, part) \in T
  <2>1. s \in Texts /\ RedactInv(s) /\ part \in TextPart
    BY <1>2 DEF TextPart
  <2>2. PICK t \in Texts : IsMore(s, part, t)
    BY <2>1, MoreExists
  <2>3. RedactInv(t) /\ t = Append(s, part)
    BY <2>1, <2>2, RedactGoesOn DEF IsMore
  <2>. QED  BY <2>3
<1>3. \A s \in Seq(Parts) : s \in T
  <2>. HIDE DEF T
  <2>. QED  BY <1>1, <1>2, AllSequences
<1>. QED  BY <1>3

LEMMA RedactHides ==
  ASSUME NEW s \in Seq(Parts)
  PROVE  Count("secret", Redact(s)) <= Cardinality(Unhidden(s))
<1>0. s \in Texts /\ RedactInv(s) /\ "secret" \in Hidden
  BY RedactInvHolds DEF Hidden
<1>1. PICK out \in Texts, gap \in Texts : /\ RedactValues(s) = out \o gap /\ Count("secret", gap) = 0
                                          /\ LoginsOf(s) = LoginsRead(RedactTokens(out))
  BY <1>0, ValuesReadIs DEF RedactInv, RedactValues, LoginsOf, ValueState
<1>2. PICK before \in Texts, rest \in Texts : /\ before = RedactTokens(out) /\ rest = RedactTokens(gap)
                                              /\ RedactTokens(out \o gap) = before \o rest
  BY TokensReadIs, TokensOfBoth
<1>3. Count("secret", rest) <= Count("secret", gap)
  BY <1>0, <1>2, TokensCount
<1>4. Weight("secret", LoginsRead(before \o rest)) <= Weight("secret", LoginsRead(before)) + Count("secret", rest)
  BY <1>0, LoginsCount
<1>5. PICK all \in Texts : all = before \o rest
  BY BothAreText
<1>6. PICK last \in LoginState : last = LoginsRead(all) /\ Redact(s) = last.out \o last.gap
  BY <1>1, <1>2, <1>5, LoginsReadIs DEF Redact, RedactLogins
<1>7. Weight("secret", last) = Count("secret", Redact(s)) /\ Weight("secret", last) \in Nat
  BY <1>6, WeightIsNumber DEF LoginState
<1>8. PICK w \in Nat : w = Weight("secret", LoginsRead(before)) /\ w <= Cardinality(Unhidden(s))
  BY <1>0, <1>1, <1>2, LoginsReadIs, WeightIsNumber DEF RedactInv, LoginState
<1>9. Cardinality(Unhidden(s)) \in Nat /\ Count("secret", rest) \in Nat
  <2>1. IsFiniteSet(1..Len(s)) /\ Unhidden(s) \in SUBSET (1..Len(s))
    BY <1>0, FS_Interval DEF Unhidden, Secrets, Texts
  <2>2. IsFiniteSet(Unhidden(s))
    BY <2>1, FS_Subset
  <2>. QED  BY <2>2, FS_CardinalityType, WhereIsFinite
<1>. QED  BY <1>1, <1>3, <1>4, <1>5, <1>6, <1>7, <1>8, <1>9

-----------------------------------------------------------------------------
(* What is stored *)

CleanInv ==
  /\ typed \in Seq(Parts) /\ kept \in Seq(Texts)
  /\ taken = "no" => kept = << >>
  /\ Total("secret", kept) <= Cardinality(Unhidden(typed))
  /\ Total("token", kept) = 0

LEMMA UnhiddenIsFinite == \A s \in Texts : IsFiniteSet(Unhidden(s)) /\ Cardinality(Unhidden(s)) \in Nat
<1>. SUFFICES ASSUME NEW s \in Texts PROVE IsFiniteSet(Unhidden(s)) /\ Cardinality(Unhidden(s)) \in Nat
  OBVIOUS
<1>1. IsFiniteSet(1..Len(s)) /\ Unhidden(s) \in SUBSET (1..Len(s))
  BY FS_Interval DEF Unhidden, Secrets, Texts
<1>2. IsFiniteSet(Unhidden(s))
  BY <1>1, FS_Subset
<1>. QED  BY <1>2, FS_CardinalityType

\* Whichever way contents come in that are made from the redacted text.
LEMMA KeptIsClean ==
  ASSUME CleanInv, NEW how, how # "no", NEW contents \in Seq(Texts), Keep(how, contents),
         \A what \in Hidden : Total(what, contents) <= Count(what, Redact(typed))
  PROVE  CleanInv'
<1>0. typed \in Texts /\ Redact(typed) \in Texts /\ typed \in Seq(Parts)
  BY TypedIsText DEF CleanInv
<1>1. "secret" \in Hidden /\ "token" \in Hidden
  BY DEF Hidden
<1>2. kept \o contents = contents
  BY ConcatEmptySeq DEF CleanInv, Keep
<1>3. CASE kept' = kept
  BY <1>3 DEF CleanInv, Keep
<1>4. CASE kept' = Distinct(kept \o contents)
  <2>1. PICK rows \in Seq(Texts) : rows = kept' /\ \A what : Total(what, rows) <= Total(what, contents)
    BY <1>2, <1>4, TotalOfDistinct
  <2>2. \A what : Total(what, rows) \in Nat /\ Total(what, contents) \in Nat
    BY JoinedIs, WhereIsFinite DEF Total
  <2>3. \A what : Count(what, Redact(typed)) \in Nat
    BY <1>0, WhereIsFinite
  <2>4. Total("secret", rows) <= Cardinality(Unhidden(typed))
    <3>1. Total("secret", rows) <= Total("secret", contents) /\ Total("secret", contents) <= Count("secret", Redact(typed))
      BY <1>1, <2>1
    <3>2. Count("secret", Redact(typed)) <= Cardinality(Unhidden(typed)) /\ Cardinality(Unhidden(typed)) \in Nat
      BY <1>0, RedactHides, UnhiddenIsFinite
    <3>. QED  BY <2>2, <2>3, <3>1, <3>2
  <2>5. Total("token", rows) = 0
    <3>1. Total("token", rows) <= Total("token", contents) /\ Total("token", contents) <= Count("token", Redact(typed))
      BY <1>1, <2>1
    <3>2. Count("token", Redact(typed)) = 0
      BY <1>0, <1>1, RedactCount
    <3>. QED  BY <2>2, <3>1, <3>2
  <2>. QED  BY <2>1, <2>4, <2>5 DEF CleanInv, Keep
<1>. QED  BY <1>3, <1>4 DEF Keep

LEMMA TotalOfOne ==
  ASSUME NEW what, NEW x \in Texts
  PROVE  <<x>> \in Seq(Texts) /\ Total(what, <<x>>) = Count(what, x)
<1>1. << >> \in Seq(Texts) /\ <<x>> = Append(<< >>, x) /\ <<x>> \in Seq(Texts)
  OBVIOUS
<1>2. Total(what, << >>) = 0
  BY JoinedIs, CountOfNothing DEF Total
<1>3. Total(what, Append(<< >>, x)) = Total(what, << >>) + Count(what, x) /\ Count(what, x) \in Nat
  BY <1>1, TotalOfMore
<1>. QED  BY <1>1, <1>2, <1>3

\* However a text is cut and whichever way it comes in, no row holds the value
\* after a key or in a login, nor a token.
THEOREM StoredIsCleanHolds == IntakeSpec => []StoredIsClean
<1>1. IntakeInit => CleanInv
  <2>. SUFFICES ASSUME IntakeInit PROVE CleanInv
    OBVIOUS
  <2>1. typed \in Seq(Parts) /\ kept \in Seq(Texts) /\ kept = << >> /\ taken = "no" /\ typed \in Texts
    BY DEF IntakeInit, Texts
  <2>2. Total("secret", kept) = 0 /\ Total("token", kept) = 0
    BY <2>1, JoinedIs, CountOfNothing DEF Total
  <2>3. Cardinality(Unhidden(typed)) \in Nat
    BY <2>1, UnhiddenIsFinite
  <2>. QED  BY <2>1, <2>2, <2>3 DEF CleanInv
<1>2. CleanInv /\ [IntakeNext]_intakeVars => CleanInv'
  <2>. SUFFICES ASSUME CleanInv, [IntakeNext]_intakeVars PROVE CleanInv'
    OBVIOUS
  <2>1. PICK text \in Texts : text = Redact(typed) /\ typed \in Texts
    BY TypedIsText DEF CleanInv
  <2>2. ASSUME CreateWithLog PROVE CleanInv'
    <3>1. PICK cut \in Seq(Texts) : /\ cut = LogContents(typed)
                                    /\ \A what : Total(what, cut) <= Count(what, text)
      <4>1. CASE AllBlank(text)
        <5>1. LogContents(typed) = << >> /\ << >> \in Seq(Texts)
          BY <2>1, <4>1 DEF LogContents
        <5>2. \A what : Total(what, << >>) <= Count(what, text)
          BY JoinedIs, CountOfNothing, WhereIsFinite DEF Total
        <5>. QED  BY <5>1, <5>2
      <4>2. CASE ~AllBlank(text)
        <5>1. LogContents(typed) = Split(text)
          BY <2>1, <4>2 DEF LogContents
        <5>. QED  BY <5>1, TotalOfSplit
      <4>. QED  BY <4>1, <4>2
    <3>2. PICK first \in Seq(Texts) : first = <<Symptom>> /\ \A what \in Hidden : Total(what, first) = 0
      <4>1. Symptom \in Texts /\ \A what \in Hidden : Where(what, Symptom) = {}
        BY DEF Symptom, Texts, TextPart, Parts, Hidden, Where
      <4>2. \A what \in Hidden : Count(what, Symptom) = 0
        BY <4>1, FS_EmptySet DEF Count
      <4>. QED  BY <4>1, <4>2, TotalOfOne
    <3>3. PICK contents \in Seq(Texts) : contents = first \o cut
      BY ConcatProperties
    <3>4. ASSUME NEW what \in Hidden PROVE Total(what, contents) <= Count(what, Redact(typed))
      <4>1. Total(what, first \o cut) = Total(what, first) + Total(what, cut)
        BY TotalOfBoth
      <4>2. Total(what, cut) \in Nat
        BY JoinedIs, WhereIsFinite DEF Total
      <4>. QED  BY <2>1, <3>1, <3>2, <3>3, <4>1, <4>2
    <3>5. Keep("log", contents)
      BY <2>2, <3>1, <3>2, <3>3 DEF CreateWithLog
    <3>. QED  BY <3>4, <3>5, KeptIsClean
  <2>3. ASSUME NEW how, how # "no", NEW content \in Texts, Keep(how, <<content>>),
               \A what \in Hidden : Count(what, content) <= Count(what, text)
        PROVE  CleanInv'
    <3>1. <<content>> \in Seq(Texts) /\ \A what \in Hidden : Total(what, <<content>>) <= Count(what, Redact(typed))
      BY <2>1, <2>3, TotalOfOne
    <3>. QED  BY <2>3, <3>1, KeptIsClean
  <2>4. ASSUME Supplement PROVE CleanInv'
    <3>1. \A what \in Hidden : Count(what, text) <= Count(what, text)
      BY WhereIsFinite
    <3>. QED  BY <2>1, <2>3, <2>4, <3>1 DEF Supplement
  <2>5. ASSUME AddCandidate PROVE CleanInv'
    <3>1. PICK raw \in {typed, text} : Keep("candidate", <<Redact(raw)>>)
      BY <2>1, <2>5 DEF AddCandidate
    <3>2. PICK content \in Texts : content = Redact(raw)
      BY <2>1, RedactIsText
    <3>3. \A what \in Hidden : Count(what, content) <= Count(what, text)
      <4>1. CASE raw = typed
        BY <2>1, <3>2, <4>1, WhereIsFinite
      <4>2. CASE raw = text
        BY <3>2, <4>2, RedactCount
      <4>. QED  BY <4>1, <4>2
    <3>. QED  BY <2>3, <3>1, <3>2, <3>3
  <2>6. ASSUME NEW part \in Parts, Type(part) PROVE CleanInv'
    <3>1. typed' \in Seq(Parts) /\ taken' = "no" /\ kept' = kept /\ kept = << >>
      BY <2>6, AppendProperties DEF Type, CleanInv
    <3>2. typed' \in Texts
      BY <3>1, RedactInvHolds
    <3>3. Cardinality(Unhidden(typed')) \in Nat
      BY <3>2, UnhiddenIsFinite
    <3>4. Total("secret", kept) = 0 /\ Total("token", kept) = 0
      BY <3>1, JoinedIs, CountOfNothing DEF Total
    <3>5. Total("secret", kept') <= Cardinality(Unhidden(typed'))
      BY <3>1, <3>3, <3>4
    <3>. QED  BY <3>1, <3>4, <3>5 DEF CleanInv
  <2>7. ASSUME UNCHANGED intakeVars PROVE CleanInv'
    BY <2>7 DEF intakeVars, CleanInv
  <2>. QED  BY <2>2, <2>4, <2>5, <2>6, <2>7 DEF IntakeNext
<1>3. CleanInv => StoredIsClean
  <2>. SUFFICES ASSUME CleanInv PROVE StoredIsClean
    OBVIOUS
  <2>1. PICK all \in Texts : all = Joined(kept)
    BY JoinedIs DEF CleanInv
  <2>2. Cardinality(Secrets(all)) <= Cardinality(Secrets(typed) \ Sensitive(typed))
    BY <2>1 DEF CleanInv, Total, Count, Where, Secrets, Unhidden
  <2>3. Where("token", all) = {}
    BY <2>1, WhereIsFinite, FS_EmptySet DEF CleanInv, Total, Count
  <2>4. ~Contains(all, "token")
    BY <2>3 DEF Contains, Where, Texts
  <2>. QED  BY <2>1, <2>2, <2>4 DEF StoredIsClean
<1>. QED  BY <1>1, <1>2, <1>3, PTL DEF IntakeSpec

(***************************************************************************)
(*                            LOGS THAT ARE READ                           *)
(***************************************************************************)

IsLog == lines \in Seq(LogLine)

LEMMA LogStaysALog == LogSpec => []IsLog
<1>1. LogInit => IsLog
  BY ExcerptAssumption DEF LogInit, IsLog
<1>2. IsLog /\ [\E line \in Lines : Write(line)]_lines => IsLog'
  <2>. SUFFICES ASSUME IsLog, [\E line \in Lines : Write(line)]_lines PROVE IsLog'
    OBVIOUS
  <2>1. ASSUME NEW line \in Lines, Write(line) PROVE IsLog'
    BY <2>1, ExcerptAssumption, AppendProperties DEF Write, IsLog
  <2>. QED  BY <2>1 DEF IsLog
<1>. QED  BY <1>1, <1>2, PTL DEF LogSpec

\* The event of a match starts at the match or above it, and nothing starts in between.
LEMMA EventStartIs ==
  ASSUME NEW match \in Nat \ {0}
  PROVE  /\ EventStart(match) \in 1..match
         /\ \A i \in 1..match : i > EventStart(match) => ~lines[i].starts
         /\ lines[match].starts => EventStart(match) = match
<1>. DEFINE starts == { i \in 1..match : lines[i].starts }
<1>1. CASE starts = {}
  <2>1. EventStart(match) = Max({1, match - LookBack})
    BY <1>1 DEF EventStart
  <2>2. Max({1, match - LookBack}) \in 1..match
    <3>1. CASE match - LookBack <= 1
      <4>1. \A k \in {1, match - LookBack} : k \in Int /\ k <= 1
        BY <3>1 DEF LookBack
      <4>2. Max({1, match - LookBack}) = 1
        BY <4>1 DEF Max
      <4>. QED  BY <4>2
    <3>2. CASE match - LookBack > 1
      <4>1. \A k \in {1, match - LookBack} : k \in Int /\ k <= match - LookBack
        BY <3>2 DEF LookBack
      <4>2. Max({1, match - LookBack}) = match - LookBack
        BY <4>1 DEF Max
      <4>. QED  BY <3>2, <4>2 DEF LookBack
    <3>. QED  BY <3>1, <3>2 DEF LookBack
  <2>. QED  BY <1>1, <2>1, <2>2
<1>2. CASE starts # {}
  <2>1. EventStart(match) = Max(starts)
    BY <1>2 DEF EventStart
  <2>2. starts \in SUBSET Nat /\ match \in Nat /\ \A k \in starts : k <= match
    OBVIOUS
  <2>3. Max(starts) \in starts /\ \A k \in starts : k <= Max(starts)
    <3>. HIDE DEF starts
    <3>. QED  BY <1>2, <2>2, MaxIsGreatest
  <2>4. \A i \in 1..match : i > Max(starts) => i \notin starts
    <3>1. \A k \in starts : k \in Nat
      BY <2>2
    <3>2. Max(starts) \in Nat
      BY <2>3, <3>1
    <3>. HIDE DEF starts
    <3>. QED  BY <2>3, <3>2
  <2>5. match \in starts => Max(starts) = match
    <3>1. Max(starts) \in 1..match
      BY <2>3
    <3>. HIDE DEF starts
    <3>. QED  BY <2>3, <3>1
  <2>6. Max(starts) \in 1..match
    BY <2>3
  <2>. QED  BY <2>1, <2>4, <2>5, <2>6
<1>. QED  BY <1>1, <1>2

\* An excerpt is some lines from the start of the event, and nothing starts among them.
LEMMA ExcerptIs ==
  ASSUME IsLog, NEW match \in DOMAIN lines
  PROVE  /\ Excerpt(match).first = EventStart(match)
         /\ Excerpt(match).last \in Int /\ Excerpt(match).first <= Excerpt(match).last
         /\ Excerpt(match).last - Excerpt(match).first < MaxExcerptLines /\ Excerpt(match).last <= Len(lines)
         /\ \A i \in 1..Len(lines) : i > Excerpt(match).first /\ i <= Excerpt(match).last => ~lines[i].starts
<1>1. PICK n \in Nat, start \in Nat \ {0} : n = Len(lines) /\ start = EventStart(match) /\ start <= n
  BY EventStartIs DEF IsLog
<1>2. PICK later : later = { i \in (start + 1)..n : lines[i].starts } \union { n + 1 }
  OBVIOUS
<1>3. later \in SUBSET Nat /\ later # {} /\ \A i \in later : i > start
  BY <1>1, <1>2
<1>4. PICK next \in Nat : next = Min(later) /\ next > start /\ \A i \in later : next <= i
  BY <1>3, MinIsLeast
<1>5. EventEnd(start) = next
  BY <1>1, <1>2, <1>4 DEF EventEnd
<1>6. PICK end \in Nat : end = Min({next, start + MaxExcerptLines})
                           /\ end > start /\ end <= next /\ end <= start + MaxExcerptLines
  <2>0. PICK limit \in Nat : limit = start + MaxExcerptLines
    BY ExcerptAssumption
  <2>1. PICK both \in SUBSET Nat : both = {next, limit}
    OBVIOUS
  <2>2. both # {} /\ \A k \in both : k > start
    BY <1>4, <2>0, <2>1, ExcerptAssumption
  <2>3. Min(both) \in both /\ \A k \in both : Min(both) <= k
    BY <2>2, MinIsLeast
  <2>. QED  BY <2>0, <2>1, <2>2, <2>3
<1>7. Excerpt(match).first = start /\ Excerpt(match).last = end - 1
  BY <1>1, <1>5, <1>6 DEF Excerpt
<1>8. ASSUME NEW i \in 1..n, i > start, i <= end - 1 PROVE ~lines[i].starts
  <2>1. i \notin later
    BY <1>4, <1>6, <1>8
  <2>. QED  BY <1>2, <1>8, <2>1
<1>9. end - 1 \in Int /\ start <= end - 1 /\ end - 1 - start < MaxExcerptLines /\ end - 1 <= n
  <2>1. n + 1 \in later
    BY <1>2
  <2>2. next <= n + 1
    BY <1>4, <2>1
  <2>. QED  BY <1>6, <2>2, ExcerptAssumption
<1>10. \A i \in 1..Len(lines) : i > start /\ i <= end - 1 => ~lines[i].starts
  BY <1>1, <1>8
<1>. QED  BY <1>1, <1>7, <1>9, <1>10

LEMMA LatestIsAnEvent ==
  ASSUME IsLog, Hits # {}
  PROVE  LET x == ReadLatest
         IN  /\ x.first <= x.last /\ x.last - x.first < MaxExcerptLines
             /\ ~StartsIn(x.first + 1, x.last)
             /\ \A i \in Hits : i > x.last => ~StartsIn(x.last + 1, i)
<1>1. PICK n \in Nat, match \in Hits : n = Len(lines) /\ match = Max(Hits) /\ \A i \in Hits : i <= match
  <2>1. Hits \in SUBSET Nat /\ Len(lines) \in Nat /\ \A i \in Hits : i <= Len(lines)
    BY DEF Hits, IsLog
  <2>. QED  BY <2>1, MaxIsGreatest
<1>2. match \in DOMAIN lines /\ match \in 1..n /\ DOMAIN lines = 1..n /\ match \in Nat \ {0}
  BY <1>1 DEF Hits, IsLog
<1>3. PICK first, last : first = ReadLatest.first /\ last = ReadLatest.last
  OBVIOUS
<1>4. /\ first = EventStart(match) /\ last \in Int
      /\ first <= last /\ last - first < MaxExcerptLines /\ last <= n
      /\ \A i \in 1..n : i > first /\ i <= last => ~lines[i].starts
  BY <1>1, <1>2, <1>3, ExcerptIs DEF ReadLatest
<1>5. first \in 1..match /\ \A i \in 1..match : i > first => ~lines[i].starts
  BY <1>2, <1>4, EventStartIs
<1>6. ~StartsIn(first + 1, last)
  BY <1>1, <1>2, <1>4, <1>5 DEF StartsIn
<1>7. ASSUME NEW i \in Hits, i > last PROVE ~StartsIn(last + 1, i)
  <2>1. i \in Nat /\ i <= match
    BY <1>1, <1>2 DEF Hits
  <2>. QED  BY <1>2, <1>4, <1>5, <2>1 DEF StartsIn
<1>. QED  BY <1>3, <1>4, <1>6, <1>7

\* What a query gives is the hits in its range, from the first to the last, as
\* far as its limit allows.
LEMMA RelatedAreEvents ==
  ASSUME IsLog, NEW range \in Ranges, NEW limit \in Limits
  PROVE  LET xs == QueryRelated(range, limit)
             wanted == { i \in Hits : lines[i].starts /\ lines[i].at \in range[1]..range[2] }
             given == { xs[k].first : k \in DOMAIN xs }
         IN  /\ Len(xs) <= limit
             /\ \A j, k \in DOMAIN xs : j < k => xs[j].last < xs[k].first
             /\ given \subseteq wanted
             /\ Len(xs) < limit => wanted \subseteq given
<1>. DEFINE wanted == { i \in Hits : lines[i].starts /\ lines[i].at \in range[1]..range[2] }
<1>1. PICK from \in Int, to \in Int : from = range[1] /\ to = range[2]
  BY ExcerptAssumption
<1>2. PICK n \in Nat : n = Len(lines) /\ DOMAIN lines = 1..n
  BY DEF IsLog
<1>3. PICK related : related = Related(range) /\ related = wanted
  <2>1. \A i \in Hits : lines[i] \in LogLine
    BY DEF IsLog, Hits
  <2>2. ASSUME NEW i \in Hits
        PROVE  range[1] <= lines[i].at /\ lines[i].at <= range[2] <=> lines[i].at \in range[1]..range[2]
    <3>1. PICK when \in Int : when = lines[i].at
      BY <2>1 DEF LogLine
    <3>. QED  BY <1>1, <3>1
  <2>. QED  BY <2>2 DEF Related
<1>4. /\ related \in SUBSET Nat /\ related \subseteq 1..n /\ IsFiniteSet(related)
      /\ \A i \in related : lines[i].starts
  <2>1. related \subseteq 1..n /\ related \in SUBSET Nat /\ \A i \in related : lines[i].starts
    BY <1>2, <1>3 DEF Hits
  <2>2. IsFiniteSet(1..n)
    BY FS_Interval
  <2>. QED  BY <2>1, <2>2, FS_Subset
<1>5. PICK chosen \in Seq(related), c \in Nat :
        /\ chosen = Ascending(related) /\ c = Len(chosen) /\ DOMAIN chosen = 1..c
        /\ \A i, j \in 1..c : i < j => chosen[i] < chosen[j]
        /\ \A i \in related : \E k \in 1..c : chosen[k] = i
  <2>1. PICK c \in Nat : c = Cardinality(related)
    BY <1>4, FS_CardinalityType
  <2>2. PICK chosen \in Seq(related) : chosen = Ascending(related)
    BY <1>4, AscendingIs
  <2>3. Len(chosen) = c /\ \A i, j \in 1..c : i < j => chosen[i] < chosen[j]
    BY <1>4, <2>1, <2>2, AscendingIs
  <2>4. \A i \in related : \E k \in 1..c : chosen[k] = i
    BY <1>4, <2>1, <2>2, AscendingIs
  <2>. QED  BY <2>2, <2>3, <2>4
<1>6. PICK m \in Nat : m = Min({limit, c}) /\ m <= limit /\ m <= c /\ (m < limit => m = c)
  <2>0. PICK l \in Nat : l = limit
    BY ExcerptAssumption
  <2>1. PICK both \in SUBSET Nat : both = {l, c} /\ both # {}
    OBVIOUS
  <2>2. Min(both) \in both /\ \A k \in both : Min(both) <= k
    BY <2>1, MinIsLeast
  <2>. QED  BY <2>0, <2>1, <2>2
<1>7. PICK xs : xs = QueryRelated(range, limit)
  OBVIOUS
<1>8. xs = [k \in 1..m |-> Excerpt(chosen[k])]
  BY <1>3, <1>5, <1>6, <1>7 DEF QueryRelated
<1>9. ASSUME NEW k \in 1..m
      PROVE  /\ chosen[k] \in related /\ xs[k].first = chosen[k] /\ xs[k].last \in Int
             /\ \A i \in 1..n : i > chosen[k] /\ i <= xs[k].last => ~lines[i].starts
  <2>1. PICK match \in 1..n : match = chosen[k] /\ match \in related /\ xs[k] = Excerpt(match)
    <3>1. k \in 1..c
      BY <1>6
    <3>2. chosen[k] \in related
      BY <1>5, <3>1
    <3>. QED  BY <1>4, <1>8, <3>2
  <2>2. match \in Nat \ {0} /\ match \in DOMAIN lines
    BY <1>2
  <2>3. EventStart(match) = match
    BY <1>4, <2>1, <2>2, EventStartIs
  <2>. QED  BY <1>2, <2>1, <2>2, <2>3, ExcerptIs
<1>10. ASSUME NEW j \in 1..m, NEW k \in 1..m, j < k PROVE xs[j].last < xs[k].first
  <2>1. chosen[j] < chosen[k] /\ chosen[k] \in 1..n /\ lines[chosen[k]].starts
    <3>1. j \in 1..c /\ k \in 1..c
      BY <1>6
    <3>2. chosen[j] < chosen[k]
      BY <1>5, <1>10, <3>1
    <3>. QED  BY <1>4, <1>9, <3>2
  <2>. QED  BY <1>4, <1>9, <2>1
<1>11. { xs[k].first : k \in 1..m } \subseteq wanted
  BY <1>3, <1>9
<1>12. ASSUME m < limit PROVE wanted \subseteq { xs[k].first : k \in 1..m }
  <2>1. ASSUME NEW i \in related PROVE \E k \in 1..m : xs[k].first = i
    <3>1. PICK k \in 1..c : chosen[k] = i
      BY <1>5
    <3>2. k \in 1..m
      BY <1>6, <1>12
    <3>. QED  BY <1>9, <3>1, <3>2
  <2>. QED  BY <1>3, <2>1
<1>13. DOMAIN xs = 1..m /\ Len(xs) = m
  BY <1>8
<1>. QED  BY <1>6, <1>7, <1>10, <1>11, <1>12, <1>13

\* Evidence from a log never mixes two events, is bounded, and is all there is
\* in the range up to the limit, whatever the application writes.
THEOREM ExcerptsAreEventsHolds == LogSpec => []ExcerptsAreEvents
<1>1. IsLog => ExcerptsAreEvents
  BY LatestIsAnEvent, RelatedAreEvents DEF ExcerptsAreEvents
<1>. QED  BY LogStaysALog, <1>1, PTL

(***************************************************************************)
(*                            CODE THAT IS READ                            *)
(***************************************************************************)

\* The folds that a search is made of.
Hitting == INSTANCE FoldLemmas WITH Op <- LAMBDA none, some, m : IF m.text.hit THEN Append(some, m) ELSE some
Tracking == INSTANCE FoldLemmas WITH Op <- LAMBDA none, some, p : IF p \in SnapshotPaths THEN Append(some, p) ELSE some
Searching == INSTANCE FoldLemmas WITH Op <- LAMBDA limit, found, p : Scan(found, p, Deployed[p], limit)

HitsOf(revision) == [path : Paths, line : Nat, text : CodeLine(revision)]
HitsOfBoth == HitsOf("commit") \union HitsOf("working-tree")

LEMMA OnlyHitsOf ==
  ASSUME NEW S, NEW s \in Seq(S)
  PROVE  OnlyHits(s) \in Seq(S)
<1>1. OnlyHits(s) = Hitting!Fold(0, << >>, s)
  BY DEF OnlyHits, Filter, FoldLeft, MapThenFoldSet, Max,
         Hitting!Fold, Hitting!FoldLeft, Hitting!MapThenFoldSet, Hitting!Max
<1>2. << >> \in Seq(S) /\ \A t \in Seq(S), e \in S : (IF e.text.hit THEN Append(t, e) ELSE t) \in Seq(S)
  BY AppendProperties
<1>3. \A t \in Seq(S) : Hitting!Fold(0, << >>, t) \in Seq(S)
  BY <1>2, Hitting!FoldIn
<1>. QED  BY <1>1, <1>3

LEMMA SearchedOf ==
  ASSUME NEW S, NEW s \in Seq(S)
  PROVE  Searched(s) \in Seq(S)
<1>1. Searched(s) = Tracking!Fold(0, << >>, s)
  BY DEF Searched, Filter, FoldLeft, MapThenFoldSet, Max,
         Tracking!Fold, Tracking!FoldLeft, Tracking!MapThenFoldSet, Tracking!Max
<1>2. << >> \in Seq(S) /\ \A t \in Seq(S), e \in S : (IF e \in SnapshotPaths THEN Append(t, e) ELSE t) \in Seq(S)
  BY AppendProperties
<1>3. \A t \in Seq(S) : Tracking!Fold(0, << >>, t) \in Seq(S)
  BY <1>2, Tracking!FoldIn
<1>. QED  BY <1>1, <1>3

\* What a search has found is extended by hits of the file, up to the limit.
LEMMA ScanIs ==
  ASSUME NEW S, NEW found \in Seq(S), NEW p, NEW file, NEW limit \in Nat,
         InFile(p, file) \in Seq(S)
  PROVE  /\ Scan(found, p, file, limit) \in Seq(S)
         /\ Len(Scan(found, p, file, limit)) <= limit
         /\ Len(found) = limit => Scan(found, p, file, limit) = found
<1>1. PICK hits \in Seq(S) : hits = OnlyHits(InFile(p, file))
  BY OnlyHitsOf
<1>2. PICK all \in Seq(S) : all = found \o hits
  BY ConcatProperties
<1>3. /\ Len(all) = Len(found) + Len(hits) /\ Len(hits) \in Nat /\ Len(found) \in Nat /\ Len(all) \in Nat
      /\ \A i \in 1..Len(found) : all[i] = found[i]
  BY <1>2, ConcatProperties, LenProperties
<1>4. PICK n \in Nat : n = IF Len(all) < limit THEN Len(all) ELSE limit
  BY <1>3
<1>5. Scan(found, p, file, limit) = SubSeq(all, 1, n)
  BY <1>1, <1>2, <1>4 DEF Scan
<1>6. PICK t : t = SubSeq(all, 1, n) /\ t \in Seq(S) /\ Len(t) = n /\ \A i \in 1..n : t[i] = all[i]
  <2>1. n <= Len(all)
    BY <1>3, <1>4
  <2>2. SubSeq(all, 1, n) \in Seq(S)
    BY <2>1, FirstOf
  <2>3. Len(SubSeq(all, 1, n)) = n
    BY <2>1, FirstOf
  <2>4. \A i \in 1..n : SubSeq(all, 1, n)[i] = all[i]
    BY <2>1, FirstOf
  <2>. QED  BY <2>2, <2>3, <2>4
<1>7. ASSUME Len(found) = limit PROVE t = found
  <2>1. n = Len(found)
    BY <1>3, <1>4, <1>7
  <2>. QED  BY <1>3, <1>6, <2>1, SeqEqual
<1>. QED  BY <1>4, <1>5, <1>6, <1>7

LEMMA InFileOf ==
  ASSUME NEW revision, NEW p \in Paths, NEW file \in CodeFile(revision)
  PROVE  InFile(p, file) \in Seq(HitsOf(revision))
<1>1. file.lines \in Seq(CodeLine(revision))
  BY DEF CodeFile
<1>2. \A i \in DOMAIN file.lines : i \in Nat /\ file.lines[i] \in CodeLine(revision)
  BY <1>1
<1>3. PICK n \in Nat : DOMAIN file.lines = 1..n
  BY <1>1
<1>4. InFile(p, file) \in [1..n -> HitsOf(revision)]
  BY <1>2, <1>3 DEF InFile, HitsOf
<1>. QED  BY <1>4, SeqDef

\* The files that a search of the commit looks at are of the commit.
DeployedPaths == Present(Deployed)

LEMMA TreeOf ==
  Tree \in Seq(DeployedPaths)
<1>1. DeployedPaths \in SUBSET Nat /\ IsFiniteSet(DeployedPaths)
  <2>1. DeployedPaths \in SUBSET Paths /\ Paths \in SUBSET Nat /\ IsFiniteSet(Paths)
    BY ReadingAssumption DEF DeployedPaths, Present, FilesOf
  <2>. QED  BY <2>1, FS_Subset
<1>2. PICK entries \in Seq(DeployedPaths) : entries = Ascending(DeployedPaths)
  BY <1>1, AscendingIs
<1>3. PICK n \in Nat : n = (IF Len(entries) < MaxFiles THEN Len(entries) ELSE MaxFiles) /\ n <= Len(entries)
  BY <1>2, ReadingAssumption
<1>4. PICK s \in Seq(DeployedPaths) : s = SubSeq(entries, 1, n)
  <2>. QED  BY <1>3, FirstOf
<1>. QED  BY <1>2, <1>3, <1>4, SearchedOf DEF Tree, DeployedPaths

LEMMA FoundAre ==
  ASSUME NEW limit \in Nat, NEW found \in Seq(HitsOf("commit")), NEW p \in DeployedPaths
  PROVE  /\ Scan(found, p, Deployed[p], limit) \in Seq(HitsOf("commit"))
         /\ Len(Scan(found, p, Deployed[p], limit)) <= limit
         /\ Len(found) = limit => Scan(found, p, Deployed[p], limit) = found
<1>1. p \in Paths /\ Deployed[p] \in CodeFile("commit")
  BY ReadingAssumption DEF DeployedPaths, Present, FilesOf
<1>2. InFile(p, Deployed[p]) \in Seq(HitsOf("commit"))
  BY <1>1, InFileOf
<1>. QED  BY <1>2, ScanIs

\* A search that has found enough finds the same in the files that are left.
LEMMA EnoughIsFound ==
  ASSUME NEW limit \in Nat, NEW found \in Seq(HitsOf("commit")), Len(found) = limit,
         NEW paths \in Seq(DeployedPaths)
  PROVE  Searching!Fold(limit, found, paths) = found
<1>1. \A f \in {found}, p \in DeployedPaths : Scan(f, p, Deployed[p], limit) \in {found}
  BY FoundAre
<1>2. \A s \in Seq(DeployedPaths) : Searching!Fold(limit, found, s) \in {found}
  BY <1>1, Searching!FoldIn
<1>. QED  BY <1>2

LEMMA HitsAre ==
  ASSUME NEW limit
  PROVE  DeployedHits(limit) = Searching!Fold(limit, << >>, Tree)
BY DEF DeployedHits, FoldLeft, MapThenFoldSet, Max,
       Searching!Fold, Searching!FoldLeft, Searching!MapThenFoldSet, Searching!Max

-----------------------------------------------------------------------------
(* The invariant *)

CacheIsDeployed ==
  /\ cache \in FilesOf("commit")
  /\ \A p \in Paths : cache[p] # NoFile => cache[p] = Deployed[p]

Looking(r) ==
  /\ excerpt[r] = NoExcerpt /\ wants[r].limit \in MatchLimits
  /\ state[r] \in {"list", "scan"} => Uses[r] # "snapshot"
  /\ state[r] \in {"tree", "raw"} => Uses[r] # "local"
  /\ state[r] \in {"list", "tree"} => matches[r] = << >>
  /\ state[r] = "scan" => left[r] \in Seq(Paths) /\ matches[r] \in Seq(HitsOf("working-tree"))
  /\ state[r] = "raw" =>
       /\ left[r] \in Seq(DeployedPaths) /\ matches[r] \in Seq(HitsOf("commit"))
       /\ Len(matches[r]) <= wants[r].limit
       /\ Searching!Fold(wants[r].limit, matches[r], left[r]) = DeployedHits(wants[r].limit)

Reads(r) ==
  /\ excerpt[r] = NoExcerpt /\ wants[r].path \in Paths
  /\ wants[r].range \in CodeRanges /\ 1 <= wants[r].range[1]
  /\ state[r] = "fetch" => Uses[r] # "local"

ReaderOk(r) ==
  /\ state[r] \in {"new", "list", "tree", "scan", "raw", "open", "fetch", "failed", "done"}
  /\ state[r] = "new" => matches[r] = << >> /\ excerpt[r] = NoExcerpt
  /\ state[r] \in {"list", "tree", "scan", "raw"} => Looking(r)
  /\ state[r] \in {"open", "fetch"} => Reads(r)
  /\ state[r] = "done" => OfItsRevision(r)

ReadersAre ==
  /\ DOMAIN state = Readers /\ DOMAIN wants = Readers /\ DOMAIN left = Readers
  /\ DOMAIN matches = Readers /\ DOMAIN excerpt = Readers

ReadingInv ==
  /\ local \in FilesOf("working-tree")
  /\ CacheIsDeployed
  /\ ReadersAre
  /\ \A r \in Readers : ReaderOk(r)

ByOthers(r) ==
  \A q \in Readers \ {r} :
    /\ state'[q] = state[q] /\ wants'[q] = wants[q] /\ left'[q] = left[q]
    /\ matches'[q] = matches[q] /\ excerpt'[q] = excerpt[q]

LEMMA OthersOk ==
  ASSUME NEW r, ByOthers(r), NEW q \in Readers \ {r}, ReaderOk(q)
  PROVE  ReaderOk(q)'
BY DEF ByOthers, ReaderOk, Looking, Reads, OfItsRevision

LEMMA InitReading == ReadingInit => ReadingInv
<1>. SUFFICES ASSUME ReadingInit PROVE ReadingInv
  OBVIOUS
<1>1. local \in FilesOf("working-tree") /\ CacheIsDeployed /\ ReadersAre
  BY ReadingAssumption DEF ReadingInit, CacheIsDeployed, FilesOf, ReadersAre
<1>2. \A r \in Readers : ReaderOk(r)
  BY DEF ReadingInit, ReaderOk
<1>. QED  BY <1>1, <1>2 DEF ReadingInv

-----------------------------------------------------------------------------
(* The steps *)

LEMMA ReaderStep ==
  ASSUME ReadingInv, NEW r \in Readers, ByOthers(r), ReaderOk(r)',
         local' = local, CacheIsDeployed', ReadersAre'
  PROVE  ReadingInv'
BY OthersOk DEF ReadingInv

LEMMA StepsOfSearch ==
  ASSUME ReadingInv, NEW r \in Readers,
         (\E limit \in MatchLimits : SearchCode(r, limit)) \/ EndSearch(r) \/ ListFiles(r) \/ GetTree(r)
  PROVE  ReadingInv'
<1>1. ReaderOk(r) /\ CacheIsDeployed /\ ReadersAre
  BY DEF ReadingInv
<1>2. ByOthers(r) /\ ReadersAre' /\ local' = local /\ CacheIsDeployed'
  BY <1>1 DEF SearchCode, EndSearch, ListFiles, GetTree, Go, ByOthers, ReadersAre, CacheIsDeployed
<1>3. ASSUME NEW limit \in MatchLimits, SearchCode(r, limit) PROVE ReaderOk(r)'
  <2>1. Uses[r] = "local" => state'[r] = "list"
    BY <1>1, <1>3 DEF SearchCode, Go, ReadersAre
  <2>2. Uses[r] # "local" => state'[r] = "tree"
    BY <1>1, <1>3 DEF SearchCode, Go, ReadersAre
  <2>3. wants'[r].limit = limit /\ matches'[r] = << >> /\ excerpt'[r] = NoExcerpt
    BY <1>1, <1>3 DEF SearchCode, ReaderOk, ReadersAre
  <2>. QED  BY <2>1, <2>2, <2>3 DEF ReaderOk, Looking
<1>4. ASSUME EndSearch(r) PROVE ReaderOk(r)'
  <2>1. /\ state[r] \in {"scan", "raw"} /\ Sought(r) /\ state'[r] = "done"
        /\ wants'[r] = wants[r] /\ matches'[r] = matches[r] /\ excerpt'[r] = excerpt[r]
    BY <1>1, <1>4 DEF EndSearch, Go, ReadersAre
  <2>2. Looking(r)
    BY <1>1, <2>1 DEF ReaderOk
  <2>3. CASE state[r] = "scan"
    <3>1. matches[r] \in Seq(HitsOf("working-tree")) /\ Uses[r] # "snapshot" /\ excerpt[r] = NoExcerpt
      BY <2>2, <2>3 DEF Looking
    <3>2. \A i \in DOMAIN matches[r] : matches[r][i] \in HitsOf("working-tree")
      BY <3>1
    <3>3. \A i \in DOMAIN matches[r] : matches[r][i].text.of = "working-tree"
      BY <3>2 DEF HitsOf, CodeLine
    <3>4. OfItsRevision(r)'
      BY <2>1, <3>1, <3>3 DEF OfItsRevision
    <3>. QED  BY <2>1, <3>4 DEF ReaderOk
  <2>4. CASE state[r] = "raw"
    <3>1. PICK limit \in Nat, found \in Seq(HitsOf("commit")), paths \in Seq(DeployedPaths) :
            /\ limit = wants[r].limit /\ found = matches[r] /\ paths = left[r]
            /\ Len(found) <= limit /\ Searching!Fold(limit, found, paths) = DeployedHits(limit)
      BY <2>2, <2>4, ReadingAssumption DEF Looking
    <3>2. paths = << >> \/ Len(found) = limit
      BY <2>1, <3>1 DEF Sought
    <3>3. Searching!Fold(limit, found, paths) = found
      BY <3>2, EnoughIsFound, Searching!FoldOfNothing
    <3>4. OfItsRevision(r)'
      BY <2>1, <2>2, <2>4, <3>1, <3>3 DEF OfItsRevision, Looking
    <3>. QED  BY <2>1, <3>4 DEF ReaderOk
  <2>. QED  BY <2>1, <2>3, <2>4
<1>5. ASSUME ListFiles(r) PROVE ReaderOk(r)'
  <2>1. /\ state[r] = "list" /\ state'[r] = "scan" /\ left'[r] = Ascending(Present(local))
        /\ wants'[r] = wants[r] /\ matches'[r] = matches[r] /\ excerpt'[r] = excerpt[r]
    BY <1>1, <1>5 DEF ListFiles, Go, ReadersAre
  <2>2. left'[r] \in Seq(Paths)
    <3>1. PICK present \in SUBSET Paths : present = Present(local)
      BY DEF Present, FilesOf, ReadingInv
    <3>2. present \in SUBSET Nat /\ IsFiniteSet(present)
      BY FS_Subset, ReadingAssumption
    <3>3. Ascending(present) \in Seq(present)
      BY <3>2, AscendingIs
    <3>. QED  BY <2>1, <3>1, <3>3
  <2>3. << >> \in Seq(HitsOf("working-tree"))
    OBVIOUS
  <2>. QED  BY <1>1, <2>1, <2>2, <2>3 DEF ReaderOk, Looking
<1>6. ASSUME GetTree(r) PROVE ReaderOk(r)'
  <2>1. /\ state[r] = "tree" /\ state'[r] = "raw" /\ left'[r] = Tree
        /\ wants'[r] = wants[r] /\ matches'[r] = matches[r] /\ excerpt'[r] = excerpt[r]
    BY <1>1, <1>6 DEF GetTree, Go, ReadersAre
  <2>2. Looking(r) /\ matches[r] = << >> /\ wants[r].limit \in Nat
    BY <1>1, <2>1, ReadingAssumption DEF ReaderOk, Looking
  <2>3. << >> \in Seq(HitsOf("commit")) /\ Len(<< >>) = 0
    OBVIOUS
  <2>4. Searching!Fold(wants[r].limit, << >>, Tree) = DeployedHits(wants[r].limit)
    BY HitsAre
  <2>. QED  BY <2>1, <2>2, <2>3, <2>4, TreeOf DEF ReaderOk, Looking
<1>. QED  BY <1>2, <1>3, <1>4, <1>5, <1>6, ReaderStep

\* What a range cuts from a file is of the revision of the file.
LEMMA CutIs ==
  ASSUME NEW revision, NEW file \in CodeFile(revision), NEW range \in CodeRanges, 1 <= range[1]
  PROVE  \A i \in DOMAIN CutRange(file, range) : CutRange(file, range)[i].of = revision
<1>1. PICK content \in Seq(CodeLine(revision)), m \in Nat \ {0}, last \in Nat :
        content = file.lines /\ m = range[1] /\ last = range[2]
  BY ReadingAssumption DEF CodeFile
<1>2. PICK n \in Nat : n = (IF last < Len(content) THEN last ELSE Len(content)) /\ n <= Len(content)
  OBVIOUS
<1>3. PICK cut : cut = SubSeq(content, m, n)
  OBVIOUS
<1>4. CutRange(file, range) = cut
  BY <1>1, <1>2, <1>3 DEF CutRange
<1>5. cut \in Seq(CodeLine(revision))
  BY <1>2, <1>3, PartOf
<1>6. \A i \in DOMAIN cut : cut[i] \in CodeLine(revision)
  BY <1>5
<1>. QED  BY <1>4, <1>6 DEF CodeLine

LEMMA StepsOfDirectory ==
  ASSUME ReadingInv, NEW r \in Readers, ScanFile(r) \/ ReadFile(r)
  PROVE  ReadingInv'
<1>1. ReaderOk(r) /\ CacheIsDeployed /\ ReadersAre /\ local \in FilesOf("working-tree")
  BY DEF ReadingInv
<1>2. ByOthers(r) /\ ReadersAre' /\ local' = local /\ CacheIsDeployed'
  <2>1. ByOthers(r)
    BY <1>1 DEF ScanFile, ReadFile, LookAt, Answer, Go, ByOthers, ReadersAre
  <2>2. ReadersAre'
    BY <1>1 DEF ScanFile, ReadFile, LookAt, Answer, Go, ReadersAre
  <2>. QED  BY <1>1, <2>1, <2>2 DEF ScanFile, ReadFile, CacheIsDeployed
<1>3. ASSUME ScanFile(r) PROVE ReaderOk(r)'
  <2>0. PICK p : p = Head(left[r])
    OBVIOUS
  <2>1. PICK limit \in Nat, found \in Seq(HitsOf("working-tree")), paths \in Seq(Paths) :
          /\ paths = left[r] /\ limit = wants[r].limit /\ found = matches[r]
          /\ paths # << >> /\ Looking(r) /\ state[r] = "scan"
    <3>1. state[r] = "scan" /\ left[r] # << >> /\ Looking(r)
      BY <1>1, <1>3 DEF ScanFile, Sought, ReaderOk
    <3>2. wants[r].limit \in Nat /\ left[r] \in Seq(Paths) /\ matches[r] \in Seq(HitsOf("working-tree"))
      BY <3>1, ReadingAssumption DEF Looking
    <3>. QED  BY <3>1, <3>2
  <2>2. p \in Paths /\ Tail(paths) \in Seq(Paths)
    BY <2>0, <2>1, HeadTailProperties
  <2>3. /\ state'[r] = "scan" /\ wants'[r] = wants[r] /\ excerpt'[r] = excerpt[r]
        /\ left'[r] = Tail(paths)
        /\ matches'[r] = IF Allowed(p) THEN Scan(found, p, local[p], limit) ELSE found
    BY <1>1, <1>3, <2>0, <2>1 DEF ScanFile, LookAt, ReadersAre
  <2>4. matches'[r] \in Seq(HitsOf("working-tree"))
    <3>1. CASE Allowed(p)
      <4>1. PICK file \in CodeFile("working-tree") : file = local[p]
        BY <1>1, <2>2, <3>1, ReadingAssumption DEF Allowed, FilesOf
      <4>2. InFile(p, file) \in Seq(HitsOf("working-tree"))
        BY <2>2, InFileOf
      <4>3. Scan(found, p, file, limit) \in Seq(HitsOf("working-tree"))
        BY <4>2, ScanIs
      <4>. QED  BY <2>3, <3>1, <4>1, <4>3
    <3>. QED  BY <2>3, <3>1
  <2>. QED  BY <2>1, <2>2, <2>3, <2>4 DEF ReaderOk, Looking
<1>4. ASSUME ReadFile(r) PROVE ReaderOk(r)'
  <2>1. PICK p \in Paths, range \in CodeRanges :
          /\ p = wants[r].path /\ range = wants[r].range /\ 1 <= range[1]
          /\ excerpt[r] = NoExcerpt
    BY <1>1, <1>4 DEF ReadFile, ReaderOk, Reads
  <2>2. CASE Allowed(p) /\ CutRange(local[p], range) # << >>
    <3>1. PICK file \in CodeFile("working-tree") : file = local[p]
      BY <1>1, <2>2, ReadingAssumption DEF Allowed, FilesOf
    <3>2. \A i \in DOMAIN CutRange(file, range) : CutRange(file, range)[i].of = "working-tree"
      BY <2>1, CutIs
    <3>3. /\ state'[r] = "done" /\ excerpt'[r].revision = "working-tree"
          /\ excerpt'[r].lines = CutRange(file, range)
      BY <1>1, <1>4, <2>1, <2>2, <3>1 DEF ReadFile, Answer, Go, ReadersAre
    <3>4. excerpt'[r] # NoExcerpt
      BY <3>3 DEF NoExcerpt
    <3>5. OfItsRevision(r)'
      BY <3>2, <3>3, <3>4 DEF OfItsRevision
    <3>. QED  BY <3>3, <3>5 DEF ReaderOk
  <2>3. CASE ~(Allowed(p) /\ CutRange(local[p], range) # << >>)
    <3>1. state'[r] = "failed"
      BY <1>1, <1>4, <2>1, <2>3 DEF ReadFile, Answer, Go, ReadersAre
    <3>. QED  BY <3>1 DEF ReaderOk
  <2>. QED  BY <2>2, <2>3
<1>. QED  BY <1>2, <1>3, <1>4, ReaderStep

LEMMA StepsOfSnapshot ==
  ASSUME ReadingInv, NEW r \in Readers, ScanRaw(r) \/ FetchRaw(r)
  PROVE  ReadingInv'
<1>1. ReaderOk(r) /\ CacheIsDeployed /\ ReadersAre
  BY DEF ReadingInv
<1>2. ByOthers(r) /\ ReadersAre' /\ local' = local
  <2>1. ByOthers(r)
    BY <1>1 DEF ScanRaw, FetchRaw, LookAt, Answer, Go, ByOthers, ReadersAre
  <2>2. ReadersAre'
    BY <1>1 DEF ScanRaw, FetchRaw, LookAt, Answer, Go, ReadersAre
  <2>. QED  BY <1>1, <2>1, <2>2 DEF ScanRaw, FetchRaw
<1>3. ASSUME NEW p \in DeployedPaths
      PROVE  p \in Paths /\ Raw(p) = Deployed[p] /\ Deployed[p] \in CodeFile("commit")
  BY <1>1, ReadingAssumption DEF DeployedPaths, Present, FilesOf, Raw, CacheIsDeployed
<1>4. ASSUME NEW p \in DeployedPaths, cache' = cache \/ cache' = [cache EXCEPT ![p] = Raw(p)]
      PROVE  CacheIsDeployed'
  BY <1>1, <1>3, <1>4 DEF CacheIsDeployed, FilesOf
<1>5. ASSUME ScanRaw(r) PROVE ReaderOk(r)' /\ CacheIsDeployed'
  <2>0. PICK p : p = Head(left[r])
    OBVIOUS
  <2>1. PICK limit \in Nat, found \in Seq(HitsOf("commit")), paths \in Seq(DeployedPaths) :
          /\ paths = left[r] /\ limit = wants[r].limit /\ found = matches[r]
          /\ paths # << >> /\ Looking(r) /\ state[r] = "raw"
    <3>1. state[r] = "raw" /\ left[r] # << >> /\ Looking(r)
      BY <1>1, <1>5 DEF ScanRaw, Sought, ReaderOk
    <3>2. wants[r].limit \in Nat /\ left[r] \in Seq(DeployedPaths) /\ matches[r] \in Seq(HitsOf("commit"))
      BY <3>1, ReadingAssumption DEF Looking
    <3>. QED  BY <3>1, <3>2
  <2>2. p \in DeployedPaths /\ Tail(paths) \in Seq(DeployedPaths)
    BY <2>0, <2>1, HeadTailProperties
  <2>3. CacheIsDeployed'
    BY <1>4, <1>5, <2>0, <2>2 DEF ScanRaw
  <2>4. CASE Raw(p).large
    <3>1. state'[r] = "failed"
      BY <1>1, <1>5, <2>0, <2>4 DEF ScanRaw, Go, ReadersAre
    <3>. QED  BY <2>3, <3>1 DEF ReaderOk
  <2>5. CASE ~Raw(p).large
    <3>1. PICK more : more = Scan(found, p, Deployed[p], limit)
      OBVIOUS
    <3>2. more \in Seq(HitsOf("commit")) /\ Len(more) <= limit
      BY <2>2, <3>1, FoundAre
    <3>3. /\ state'[r] = "raw" /\ wants'[r] = wants[r] /\ excerpt'[r] = excerpt[r]
          /\ left'[r] = Tail(paths) /\ matches'[r] = more
      BY <1>1, <1>3, <1>5, <2>0, <2>1, <2>2, <2>5, <3>1 DEF ScanRaw, LookAt, ReadersAre
    <3>4. Searching!Fold(limit, more, Tail(paths)) = DeployedHits(limit)
      <4>1. Searching!Fold(limit, found, paths) = DeployedHits(limit)
        BY <2>1 DEF Looking
      <4>2. Searching!Fold(limit, found, paths)
              = Searching!Fold(limit, Scan(found, Head(paths), Deployed[Head(paths)], limit), Tail(paths))
        BY <2>1, Searching!FoldOfRest
      <4>. QED  BY <2>0, <2>1, <3>1, <4>1, <4>2
    <3>. QED  BY <2>1, <2>2, <2>3, <3>2, <3>3, <3>4 DEF ReaderOk, Looking
  <2>. QED  BY <2>4, <2>5
<1>6. ASSUME FetchRaw(r) PROVE ReaderOk(r)' /\ CacheIsDeployed'
  <2>1. PICK p \in DeployedPaths, range \in CodeRanges :
          /\ p = wants[r].path /\ range = wants[r].range /\ excerpt[r] = NoExcerpt
    BY <1>1, <1>6, ReadingAssumption DEF FetchRaw, ReaderOk, Reads, DeployedPaths, Present, FilesOf
  <2>2. CacheIsDeployed'
    BY <1>4, <1>6, <2>1 DEF FetchRaw
  <2>3. CASE ~Raw(p).large /\ CutRange(Raw(p), range) # << >>
    <3>1. /\ state'[r] = "done" /\ wants'[r] = wants[r]
          /\ excerpt'[r].revision = "commit" /\ excerpt'[r].path = p
          /\ excerpt'[r].lines = CutRange(Deployed[p], range)
      BY <1>1, <1>3, <1>6, <2>1, <2>3 DEF FetchRaw, Answer, Go, ReadersAre
    <3>2. excerpt'[r] # NoExcerpt
      BY <3>1 DEF NoExcerpt
    <3>3. OfItsRevision(r)'
      BY <2>1, <3>1, <3>2 DEF OfItsRevision
    <3>. QED  BY <2>2, <3>1, <3>3 DEF ReaderOk
  <2>4. CASE ~(~Raw(p).large /\ CutRange(Raw(p), range) # << >>)
    <3>1. state'[r] = "failed"
      BY <1>1, <1>6, <2>1, <2>4 DEF FetchRaw, Answer, Go, ReadersAre
    <3>. QED  BY <2>2, <3>1 DEF ReaderOk
  <2>. QED  BY <2>3, <2>4
<1>. QED  BY <1>2, <1>5, <1>6, ReaderStep

LEMMA StepsOfFailure ==
  ASSUME ReadingInv, NEW r \in Readers,
         Unavailable(r) \/ Fails(r) \/ \E p \in Paths \union {Outside}, range \in CodeRanges : ReadCode(r, p, range)
  PROVE  ReadingInv'
<1>1. ReaderOk(r) /\ CacheIsDeployed /\ ReadersAre
  BY DEF ReadingInv
<1>2. ByOthers(r) /\ ReadersAre' /\ local' = local /\ CacheIsDeployed'
  <2>1. ByOthers(r) /\ ReadersAre'
    BY <1>1 DEF Unavailable, Fails, ReadCode, Go, ByOthers, ReadersAre
  <2>2. local' = local /\ cache' = cache
    BY DEF Unavailable, Fails, ReadCode
  <2>. QED  BY <1>1, <2>1, <2>2 DEF CacheIsDeployed
<1>3. ASSUME Unavailable(r) PROVE ReaderOk(r)'
  <2>1. /\ state[r] \in {"tree", "raw", "fetch"} /\ Uses[r] \in {"snapshot", "fallback"}
        /\ state[r] \in {"tree", "raw"} => Looking(r)
        /\ state[r] = "fetch" => Reads(r)
    BY <1>1, <1>3, ReadingAssumption DEF Unavailable, Asks, ReaderOk, Looking, Reads
  <2>2. /\ wants'[r] = wants[r] /\ excerpt'[r] = excerpt[r] /\ matches'[r] = << >>
        /\ Uses[r] = "snapshot" => state'[r] = "failed"
        /\ Uses[r] = "fallback" /\ state[r] = "fetch" => state'[r] = "open"
        /\ Uses[r] = "fallback" /\ state[r] # "fetch" => state'[r] = "list"
    BY <1>1, <1>3, <2>1 DEF Unavailable, Go, ReadersAre
  <2>3. CASE Uses[r] = "snapshot"
    BY <2>2, <2>3 DEF ReaderOk
  <2>4. CASE Uses[r] = "fallback" /\ state[r] = "fetch"
    BY <2>1, <2>2, <2>4 DEF ReaderOk, Reads
  <2>5. CASE Uses[r] = "fallback" /\ state[r] # "fetch"
    BY <2>1, <2>2, <2>5 DEF ReaderOk, Looking
  <2>. QED  BY <2>1, <2>3, <2>4, <2>5
<1>4. ASSUME Fails(r) PROVE ReaderOk(r)'
  <2>1. state'[r] = "failed"
    BY <1>1, <1>4 DEF Fails, Go, ReadersAre
  <2>. QED  BY <2>1 DEF ReaderOk
<1>5. ASSUME NEW p \in Paths \union {Outside}, NEW range \in CodeRanges, ReadCode(r, p, range)
      PROVE  ReaderOk(r)'
  <2>1. /\ state'[r] \in {"failed", "open", "fetch"}
        /\ state'[r] \in {"open", "fetch"} => Valid(p, range)
        /\ state'[r] = "fetch" => Uses[r] # "local"
    BY <1>1, <1>5 DEF ReadCode, Go, ReadersAre
  <2>2. wants'[r].path = p /\ wants'[r].range = range /\ excerpt'[r] = NoExcerpt
    BY <1>1, <1>5 DEF ReadCode, ReadersAre, ReaderOk
  <2>. QED  BY <2>1, <2>2 DEF ReaderOk, Reads, Valid
<1>. QED  BY <1>2, <1>3, <1>4, <1>5, ReaderStep

\* What the directory holds may change at any time.
LEMMA StepsOfOthers ==
  ASSUME ReadingInv, NEW p \in Paths, NEW file \in Contents \union {NoFile}, Edit(p, file)
  PROVE  ReadingInv'
<1>1. local' \in FilesOf("working-tree")
  BY ReadingAssumption DEF Edit, FilesOf, ReadingInv
<1>2. UNCHANGED <<cache, state, wants, left, matches, excerpt>>
  BY DEF Edit
<1>3. CacheIsDeployed' /\ ReadersAre'
  BY <1>2 DEF CacheIsDeployed, ReadersAre, ReadingInv
<1>4. \A r \in Readers : ReaderOk(r)'
  BY <1>2 DEF ReaderOk, Looking, Reads, OfItsRevision, ReadingInv
<1>. QED  BY <1>1, <1>3, <1>4 DEF ReadingInv

\* A search and an excerpt are of the revision that they name, whichever of the
\* requests to the server fail, and whoever writes to the directory meanwhile.
THEOREM CodeIsOfItsRevisionHolds == ReadingSpec => []CodeIsOfItsRevision
<1>1. ReadingInv /\ [ReadingNext]_readVars => ReadingInv'
  <2>. SUFFICES ASSUME ReadingInv, [ReadingNext]_readVars PROVE ReadingInv'
    OBVIOUS
  <2>1. CASE UNCHANGED readVars
    BY <2>1 DEF readVars, ReadingInv, CacheIsDeployed, ReadersAre, ReaderOk, Looking, Reads, OfItsRevision
  <2>2. CASE ReadingNext
    BY <2>2, StepsOfSearch, StepsOfDirectory, StepsOfSnapshot, StepsOfFailure, StepsOfOthers DEF ReadingNext
  <2>. QED  BY <2>1, <2>2
<1>2. ReadingInv => CodeIsOfItsRevision
  BY DEF ReadingInv, ReaderOk, CodeIsOfItsRevision
<1>. QED  BY InitReading, <1>1, <1>2, PTL DEF ReadingSpec

=============================================================================
