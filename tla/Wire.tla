-------------------------------- MODULE Wire --------------------------------
(***************************************************************************)
(* The encodings of the helper protocol (crustcore-netproto lib.rs and     *)
(* json.rs): one flat JSON object per line, and batches of texts joined    *)
(* inside one string field.                                                *)
(*                                                                         *)
(* A text is a sequence over an alphabet that has the characters the       *)
(* encodings treat specially: a quote, a backslash, a line feed (LF), the  *)
(* letter n (what an escaped line feed ends in) and any others. The loops  *)
(* over its characters are step functions, applied by Scan.                *)
(***************************************************************************)
EXTENDS Naturals, Sequences, SequencesExt

CONSTANTS
  Chars,     \* the alphabet
  MaxInt,    \* largest integer the parser accepts (i64::MAX)
  MaxBatch,  \* MAX_BATCH
  MaxText,   \* MAX_TEXT_BYTES, in characters
  MaxLine    \* MAX_LINE_BYTES, in characters of the texts a line carries

Quote == "quote"
Slash == "backslash"
LF == "linefeed"

ASSUME WireAssumption ==
  /\ {Quote, Slash, LF, "n"} \subseteq Chars
  /\ MaxBatch \in Nat /\ MaxText \in Nat /\ MaxLine \in Nat

Text == Seq(Chars)

\* What a loop over a sequence ends with: step[x][s] is where x takes it from s.
Scan(step, from, seq) ==
  LET after[i \in 0..Len(seq)] == IF i = 0 THEN from ELSE step[seq[i]][after[i - 1]]
  IN  after[Len(seq)]

\* encode_str: what a string field looks like between its quotes.
EncodeChar ==
  [c \in Chars |-> [out \in Text |->
     CASE c = Quote -> out \o <<Slash, Quote>>
       [] c = Slash -> out \o <<Slash, Slash>>
       [] c = LF -> out \o <<Slash, "n">>
       [] OTHER -> Append(out, c)]]
EncodeStr(text) == Scan(EncodeChar, << >>, text)

\* parse_string up to the closing quote: what was read, or an error.
Reading == [state : {"in", "escape", "done", "error"}, out : Text]
ParseChar ==
  [c \in Chars |-> [s \in Reading |->
     IF s.state \in {"done", "error"} THEN s
     ELSE IF s.state = "escape"
       THEN CASE c \in {Quote, Slash} -> [state |-> "in", out |-> Append(s.out, c)]
              [] c = "n" -> [state |-> "in", out |-> Append(s.out, LF)]
              [] OTHER -> [s EXCEPT !.state = "error"]
     ELSE IF c = Quote THEN [s EXCEPT !.state = "done"]
     ELSE IF c = Slash THEN [s EXCEPT !.state = "escape"]
     ELSE [s EXCEPT !.out = Append(@, c)]]]
ParseString(chars) == Scan(ParseChar, [state |-> "in", out |-> << >>], chars)

\* Bug: a line feed inside a text is left as it is.
EscapeCharRaw ==
  [c \in Chars |-> [out \in Text |-> IF c = Slash THEN out \o <<Slash, Slash>> ELSE Append(out, c)]]

EscapeChar ==
  [c \in Chars |-> [out \in Text |->
     CASE c = Slash -> out \o <<Slash, Slash>>
       [] c = LF -> out \o <<Slash, "n">>
       [] OTHER -> Append(out, c)]]
EscapeDelim(text) == Scan(EscapeChar, << >>, text)

\* A backslash before anything else, or at the end, stands for itself.
Unescaping == [state : {"in", "escape"}, out : Text]
UnescapeChar ==
  [c \in Chars |-> [s \in Unescaping |->
     IF s.state = "in" THEN IF c = Slash THEN [s EXCEPT !.state = "escape"]
                            ELSE [s EXCEPT !.out = Append(@, c)]
     ELSE [state |-> "in",
           out |-> CASE c = "n" -> Append(s.out, LF) [] c = Slash -> Append(s.out, Slash)
                     [] OTHER -> s.out \o <<Slash, c>>]]]
UnescapeDelim(chars) ==
  LET read == Scan(UnescapeChar, [state |-> "in", out |-> << >>], chars)
  IN  IF read.state = "escape" THEN Append(read.out, Slash) ELSE read.out

Cut(seq, n) == SubSeq(seq, 1, IF Len(seq) < n THEN Len(seq) ELSE n)

\* encode_texts: the texts joined by line feeds.
JoinText ==
  [t \in Text |-> [s \in [i : Nat, out : Text] |->
     [i |-> s.i + 1, out |-> (IF s.i > 0 THEN Append(s.out, LF) ELSE s.out) \o EscapeDelim(t)]]]
EncodeTexts(texts) == Scan(JoinText, [i |-> 0, out |-> << >>], Cut(texts, MaxBatch)).out

\* decode_texts: the parts between the line feeds, each cut to MAX_TEXT_BYTES
\* (bound_text); the empty string is no text at all.
SplitChar ==
  [c \in Chars |-> [parts \in Seq(Text) \ {<< >>} |->
     IF c = LF THEN Append(parts, << >>)
     ELSE [parts EXCEPT ![Len(parts)] = Append(@, c)]]]
DecodeTexts(chars) ==
  LET parts == Scan(SplitChar, << << >> >>, chars)
  IN  IF chars = << >> THEN << >>
      ELSE [i \in 1..Len(Cut(parts, MaxBatch)) |-> Cut(UnescapeDelim(parts[i]), MaxText)]

\* A batch through both encodings, and the line it makes.
OverTheWire(texts) == DecodeTexts(ParseString(Append(EncodeStr(EncodeTexts(texts)), Quote)).out)
LineExceeds(texts) == Len(EncodeStr(EncodeTexts(texts))) > MaxLine

\* parse_int: every digit string is written, not every one is read back.
ReadsBack(n) == n <= MaxInt

=============================================================================
