----------------------------- MODULE EvidenceIntake -----------------------------
(***************************************************************************)
(* From text that somebody submits, or a tool finds, to rows of evidence:  *)
(* the redactor replaces what looks like a credential, a log is cut into   *)
(* pieces of a limited size, and Evidence itself refuses content that      *)
(* still looks like a credential, by patterns of its own.                  *)
(*                                                                         *)
(* Text is a sequence of these parts.  A key is "password=" or another     *)
(* that a value follows, a login is "postgres://user:" or another that a   *)
(* password and "@" follow, and a token is a credential by its shape.  The *)
(* text that replaces a credential consists of two parts, as the end of a  *)
(* piece may fall in it.                                                   *)
(***************************************************************************)
EXTENDS SequencesExt, Integers

CONSTANTS
  MaxContent,  \* Evidence.MAX_CONTENT_BYTES
  MaxTyped     \* bound: parts of a text

VARIABLES
  typed,  \* the text
  kept,   \* the contents of the evidence rows of the diagnosis
  taken   \* what became of the text

intakeVars == <<typed, kept, taken>>

Parts == { "key", "login", "at", "token", "secret", "wide", "comma", "blank" }
Mark == <<"[RED", "ACTED]">>
Symptom == <<"wide">>

Bytes(part) == IF part = "wide" THEN 2 ELSE 1
Size(text) == FoldLeft(LAMBDA n, part : n + Bytes(part), 0, text)
AllBlank(text) == \A i \in DOMAIN text : text[i] = "blank"

IntakeInit == typed = << >> /\ kept = << >> /\ taken = "no"

-----------------------------------------------------------------------------
(* The redactor: one rule after the other, each from left to right *)

\* After a key the blanks wait for the value, which ends at a blank or a comma.
ReadValue(state, part) ==
  LET text == Append(state.out \o state.gap, part) IN
  CASE state.mode = "outside" \/ (state.mode = "value" /\ part \in {"blank", "comma"})
         -> [out |-> text, gap |-> << >>, mode |-> IF part = "key" THEN "key" ELSE "outside"]
    [] state.mode = "key" /\ part = "blank"
         -> [state EXCEPT !.gap = Append(@, part)]
    [] state.mode = "key" /\ part \in {"comma", Head(Mark)}
         -> [out |-> text, gap |-> << >>, mode |-> "outside"]
    [] state.mode = "key" /\ part \notin {"blank", "comma", Head(Mark)}
         -> [out |-> state.out \o Mark, gap |-> << >>, mode |-> "value"]
    [] OTHER -> state

ValuesRead(text) == FoldLeft(ReadValue, [out |-> << >>, gap |-> << >>, mode |-> "outside"], text)
RedactValues(text) == LET end == ValuesRead(text) IN end.out \o end.gap

RedactTokens(text) ==
  FoldLeft(LAMBDA out, part : IF part = "token" THEN out \o Mark ELSE Append(out, part), << >>, text)

\* What is between a login and the next "@" waits until that is reached.
ReadLogin(state, part) ==
  CASE state.open /\ part = "at" /\ state.gap # << >>
         -> [out |-> state.out \o Mark \o <<part>>, gap |-> << >>, open |-> FALSE]
    [] state.open /\ part \notin {"at", "blank"}
         -> [state EXCEPT !.gap = Append(@, part)]
    [] OTHER
         -> [out |-> Append(state.out \o state.gap, part), gap |-> << >>, open |-> part = "login"]

LoginsRead(text) == FoldLeft(ReadLogin, [out |-> << >>, gap |-> << >>, open |-> FALSE], text)
RedactLogins(text) == LET end == LoginsRead(text) IN end.out \o end.gap

Redact(text) == RedactLogins(RedactTokens(RedactValues(text)))

-----------------------------------------------------------------------------
(* Evidence *)

Strip(text) ==
  LET words == { i \in DOMAIN text : text[i] # "blank" }
  IN  IF words = {} THEN << >> ELSE SubSeq(text, Min(words), Max(words))

Between(text, i, j) == { text[k] : k \in i + 1..j - 1 }

\* Evidence._SECRET_PATTERNS
LooksSecret(text) ==
  \E i \in DOMAIN text :
    \/ text[i] = "token"
    \/ /\ text[i] = "key"
       /\ \E j \in i + 1..Len(text) :
            /\ text[j] # "blank" /\ Between(text, i, j) \subseteq {"blank"}
            /\ j = Len(text) \/ SubSeq(text, j, j + 1) # Mark
    \/ /\ text[i] = "login"
       /\ \E j \in i + 2..Len(text) :
            text[j] = "at" /\ Between(text, i, j) \cap {"at", "blank"} = {}

Acceptable(content) ==
  LET text == Strip(content) IN text # << >> /\ Size(text) <= MaxContent /\ ~LooksSecret(text)

\* Variant: a part that does not fit is dropped with the piece it closes.
CutLoosely(pieces, part) ==
  IF Size(Last(pieces)) + Bytes(part) > MaxContent /\ Last(pieces) # << >>
  THEN Append(pieces, << >>)
  ELSE Append(Front(pieces), Append(Last(pieces), part))

\* _split_utf8, for a character: a piece is closed when the next one would exceed it.
Cut(pieces, part) ==
  IF Size(Last(pieces)) + Bytes(part) > MaxContent /\ Last(pieces) # << >>
  THEN Append(pieces, <<part>>)
  ELSE Append(Front(pieces), Append(Last(pieces), part))

Split(text) == FoldLeft(Cut, << << >> >>, text)

\* Contents with the same hash are stored once.
Distinct(contents) ==
  FoldLeft(LAMBDA rows, text : IF Contains(rows, Strip(text)) THEN rows ELSE Append(rows, Strip(text)),
           << >>, contents)

\* Variant: the log is cut into pieces before these are redacted.
RedactPieces(text) ==
  LET pieces == Split(text) IN [i \in DOMAIN pieces |-> Redact(pieces[i])]

\* Nothing is cut from a log that is blank once it is redacted.
LogContents(text) == IF AllBlank(Redact(text)) THEN << >> ELSE Split(Redact(text))

Keep(how, contents) ==
  /\ taken = "no" /\ typed # << >>
  /\ IF \A i \in DOMAIN contents : Acceptable(contents[i])
     THEN kept' = Distinct(kept \o contents) /\ taken' = how
     ELSE kept' = kept /\ taken' = "refused"
  /\ UNCHANGED typed

\* All pieces are made before the transaction that stores them with the case.
CreateWithLog == Keep("log", <<Symptom>> \o LogContents(typed))
Supplement    == Keep("supplement", <<Redact(typed)>>)

\* Most tools redact what they found before the evidence store does.
AddCandidate == \E found \in {typed, Redact(typed)} : Keep("candidate", <<Redact(found)>>)

Type(part) ==
  /\ taken = "no" /\ Len(typed) < MaxTyped
  /\ typed' = Append(typed, part)
  /\ UNCHANGED <<kept, taken>>

IntakeNext == CreateWithLog \/ Supplement \/ AddCandidate \/ \E part \in Parts : Type(part)
IntakeSpec == IntakeInit /\ [][IntakeNext]_intakeVars

-----------------------------------------------------------------------------
(* Properties *)

\* A key that is not, or begins in, the value of another.
FreshKey(text, k) ==
  /\ text[k] = "key"
  /\ k > 1 => text[k - 1] \in {"blank", "comma"} /\ \A h \in 1..k - 1 :
                text[h] = "key" => ~(Between(text, h, k) \subseteq {"blank"})

\* The positions of a credential, by what stands around them; one shape inside
\* the other is left to the rules.
Sensitive(text) ==
  { i \in DOMAIN text :
      \/ \E k \in 1..i - 1 : FreshKey(text, k) /\ \E j \in k..i - 1 :
           Between(text, k, j + 1) \subseteq {"blank"} /\ Between(text, j, i + 1) \cap {"blank", "comma"} = {}
      \/ \E k \in 1..i - 1, j \in i + 1..Len(text) :
           text[k] = "login" /\ text[j] = "at" /\ Between(text, k, j) \cap {"at", "blank"} = {}
             /\ "key" \notin Between(text, 0, j) }

Joined(rows) == FoldLeft(LAMBDA all, row : all \o row, << >>, rows)

Secrets(text) == { i \in DOMAIN text : text[i] = "secret" }

\* However a text is cut and whichever way it comes in, no row holds the value
\* after a key or in a login, nor a token
\* (evidence_diagnoses.py:68, evidence_store.py:37).
StoredIsClean ==
  LET all == Joined(kept)
  IN  /\ Cardinality(Secrets(all)) <= Cardinality(Secrets(typed) \ Sensitive(typed))
      /\ ~Contains(all, "token")

\* A log that is accepted is kept whole: each part of the redacted text that is
\* not blank is in a row that is a piece of it and not too large for Evidence
\* (evidence_diagnoses.py, _split_utf8).
LogIsStoredWhole ==
  LET text == Redact(typed)
      Row(i, j) == Contains(kept, SubSeq(text, i, j)) /\ Size(SubSeq(text, i, j)) <= MaxContent
  IN  taken = "log" =>
        \A i \in DOMAIN text : text[i] # "blank" =>
          \E j \in 1..i, k \in i..Len(text) : Row(j, k)
=============================================================================
