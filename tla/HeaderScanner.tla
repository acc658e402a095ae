---------------------------- MODULE HeaderScanner ----------------------------
(***************************************************************************)
(* How a header's characters become the stages and arguments that          *)
(* DocumentParser takes as given: splitDelimited, tokenizeStage and        *)
(* parseValueResult of runtime/parser.js:124-227, beside the reference's   *)
(* one-pass reader, pipeline of reference/scoped_text.py:22-84.  A text is *)
(* a sequence of characters; letters, which names consist of, are one      *)
(* kind.  Numbers, the literal words and values in braces are left out.    *)
(***************************************************************************)
EXTENDS Integers, Sequences, FiniteSets, SequencesExt

CONSTANTS Letters,     \* the characters of names
          Openings,    \* what a header starts with
          Snippets,   \* what may be typed after it, piece by piece
          MaxPieces    \* how many pieces at most

ASSUME HeaderAssumption ==
  /\ Openings \cup Snippets \subseteq Seq(STRING) /\ MaxPieces \in Nat

VARIABLES text,        \* the header
          pieces       \* how many pieces were typed

headerVars == <<text, pieces>>

Quotes == {"\"", "'"}
Matching == [c \in {"]", "}", ")"} |-> CASE c = "]" -> "[" [] c = "}" -> "{" [] c = ")" -> "("]
Closing == DOMAIN Matching
Opening == {Matching[c] : c \in Closing}

IsBlank(c) == c = " "
IsName(s) == s # <<>> /\ ToSet(s) \subseteq Letters

-----------------------------------------------------------------------------
(* splitDelimited: the pieces between bars (or commas) that are in no      *)
(* quotes and no brackets.  r: the state of the scan.                      *)

StartOfScan == [parts |-> <<>>, part |-> <<>>, stack |-> <<>>, quote |-> "", escaped |-> FALSE,
                issue |-> FALSE]

Bracket(r, c) ==
  CASE c \in Opening -> [r EXCEPT !.stack = Append(@, c)]
    [] c \in Closing /\ r.stack # <<>> /\ Last(r.stack) = Matching[c] -> [r EXCEPT !.stack = Front(@)]
    [] OTHER -> [r EXCEPT !.issue = TRUE]

SplitStep(r, c, separator) ==
  LET kept == [r EXCEPT !.part = Append(@, c)]
  IN  CASE r.escaped -> [kept EXCEPT !.escaped = FALSE]
        [] ~r.escaped /\ c = "\\" -> [kept EXCEPT !.escaped = TRUE]
        [] ~r.escaped /\ c # "\\" /\ r.quote # "" -> [kept EXCEPT !.quote = IF c = r.quote THEN "" ELSE @]
        [] ~r.escaped /\ r.quote = "" /\ c \in Quotes -> [kept EXCEPT !.quote = c]
        [] ~r.escaped /\ r.quote = "" /\ c \in Opening \cup Closing -> Bracket(kept, c)
        [] ~r.escaped /\ r.quote = "" /\ c = separator ->
             IF r.stack = <<>> THEN [r EXCEPT !.parts = Append(@, r.part), !.part = <<>>] ELSE kept
        [] OTHER -> kept

SplitDelimited(s, separator) ==
  LET r == FoldLeft(LAMBDA q, c : SplitStep(q, c, separator), StartOfScan, s)
  IN  [parts |-> Append(r.parts, r.part), issue |-> r.issue \/ r.quote # "" \/ r.stack # <<>>]

-----------------------------------------------------------------------------
(* tokenizeStage: the pieces between blanks.  A closing bracket closes     *)
(* whatever is open.                                                       *)

Push(r) == IF r.part = <<>> THEN r ELSE [r EXCEPT !.parts = Append(@, r.part), !.part = <<>>]

TokenStep(r, c) ==
  LET kept == [r EXCEPT !.part = IF @ = <<>> /\ IsBlank(c) THEN @ ELSE Append(@, c)]
  IN  CASE r.escaped -> [kept EXCEPT !.escaped = FALSE]
        [] ~r.escaped /\ c = "\\" -> [kept EXCEPT !.escaped = TRUE]
        [] ~r.escaped /\ c # "\\" /\ r.quote # "" -> [kept EXCEPT !.quote = IF c = r.quote THEN "" ELSE @]
        [] ~r.escaped /\ r.quote = "" /\ c \in Quotes -> [kept EXCEPT !.quote = c]
        [] ~r.escaped /\ r.quote = "" /\ c \in Opening -> [kept EXCEPT !.stack = Append(@, c)]
        [] ~r.escaped /\ r.quote = "" /\ c \in Closing ->
             [kept EXCEPT !.stack = IF @ = <<>> THEN @ ELSE Front(@)]
        [] ~r.escaped /\ r.quote = "" /\ IsBlank(c) -> IF r.stack = <<>> THEN Push(r) ELSE kept
        [] OTHER -> kept

TokenizeStage(s) == Push(FoldLeft(TokenStep, StartOfScan, s)).parts

TrimPart(s) ==
  LET ink == {i \in DOMAIN s : ~IsBlank(s[i])}
  IN  IF ink = {} THEN <<>>
      ELSE SubSeq(s, CHOOSE i \in ink : \A j \in ink : i <= j, CHOOSE i \in ink : \A j \in ink : j <= i)

-----------------------------------------------------------------------------
(* parseValueResult                                                        *)

IsWrapped(s, open, close) == s # <<>> /\ Head(s) = open /\ Last(s) = close
Inner(s) == SubSeq(s, 2, Len(s) - 1)

(* What JSON makes of the characters between two quotation marks: of the   *)
(* escapes those of a mark and of a backslash; Nothing if it is none.      *)
Nothing == <<"no JSON string">>
Decode(s) ==
  LET r == FoldLeft(LAMBDA q, c :
             CASE q.escaped -> [q EXCEPT !.escaped = FALSE, !.value = Append(@, c),
                                         !.bad = @ \/ c \notin {"\"", "\\"}]
               [] ~q.escaped /\ c = "\\" -> [q EXCEPT !.escaped = TRUE]
               [] OTHER -> [q EXCEPT !.value = Append(@, c), !.bad = @ \/ c = "\""],
             [value |-> <<>>, escaped |-> FALSE, bad |-> FALSE], s)
  IN  IF r.bad \/ r.escaped THEN Nothing ELSE r.value

(* Apostrophes lose the backslash before them.                             *)
Unescape(s) ==
  LET dropped == {i \in 1..(Len(s) - 1) : s[i] = "\\" /\ s[i + 1] = "'"}
      kept == SelectSeq([i \in DOMAIN s |-> i], LAMBDA i : i \notin dropped)
  IN  [k \in DOMAIN kept |-> s[kept[k]]]

Value(kind, value) == [kind |-> kind, value |-> value]

(* A quoted value that is no JSON string stays as it is, without its       *)
(* quotes; so does what is nothing else.                                   *)
RECURSIVE ParseValueResult(_)
ParseValueResult(s) ==
  CASE IsWrapped(s, "\"", "\"") ->
         Value("string", IF Len(s) = 1 \/ Decode(Inner(s)) = Nothing THEN Inner(s) ELSE Decode(Inner(s)))
    [] IsWrapped(s, "'", "'") -> Value("string", Unescape(Inner(s)))
    [] IsWrapped(s, "[", "]") ->
         LET inner == TrimPart(Inner(s))
             items == SplitDelimited(inner, ",").parts
         IN  Value("list", IF inner = <<>> THEN <<>>
                           ELSE [i \in DOMAIN items |-> ParseValueResult(TrimPart(items[i]))])
    [] OTHER -> Value("string", s)

-----------------------------------------------------------------------------
(* parseStage and parsePipeline, as far as they read characters            *)

NoValue == Value("true", TRUE)
NoName == "-"
NameOf(s) == IF IsName(s) THEN s ELSE <<NoName>>

ArgumentOf(token) ==
  LET equals == SelectInSeq(token, LAMBDA c : c = "=")
  IN  IF equals = 0 THEN [key |-> NameOf(token), value |-> NoValue]
      ELSE [key |-> NameOf(SubSeq(token, 1, equals - 1)),
            value |-> ParseValueResult(SubSeq(token, equals + 1, Len(token)))]

StageOf(part) ==
  LET tokens == TokenizeStage(TrimPart(part))
  IN  IF tokens = <<>> THEN [name |-> <<NoName>>, args |-> <<>>]
      ELSE [name |-> NameOf(Head(tokens)),
            args |-> [i \in 1..(Len(tokens) - 1) |-> ArgumentOf(tokens[i + 1])]]

ReadHeader(s) ==
  LET split == SplitDelimited(s, "|")
  IN  [parts |-> [i \in DOMAIN split.parts |-> StageOf(split.parts[i])], balanced |-> ~split.issue]

-----------------------------------------------------------------------------
(* The reference's reader of a block's header, without its controls: one   *)
(* pass, of which r is the state.  r.mode says what it is about to read; a *)
(* value must be a JSON string and a key must be new.                      *)

StartOfReader == [stages |-> <<>>, mode |-> "stage", word |-> <<>>, key |-> <<>>]

Rejected(r) == [r EXCEPT !.mode = "rejected"]
OpenStage(r, name) ==
  [r EXCEPT !.stages = Append(@, [name |-> name, args |-> <<>>]), !.word = <<>>]
Seen(r) == {Last(r.stages).args[i].key : i \in DOMAIN Last(r.stages).args}
CloseValue(r) ==
  LET value == Value("string", Decode(r.word))
  IN  IF Decode(r.word) = Nothing THEN Rejected(r)
      ELSE [r EXCEPT !.mode = "after", !.word = <<>>,
                     !.stages[Len(r.stages)].args = Append(@, [key |-> r.key, value |-> value])]

AfterWord(r, c) ==
  CASE IsBlank(c) -> [r EXCEPT !.mode = "argument"]
    [] c = "|" -> [r EXCEPT !.mode = "stage"]
    [] OTHER -> Rejected(r)

ReadStep(r, c) ==
  CASE r.mode = "stage" /\ IsBlank(c) /\ r.word = <<>> -> r
    [] r.mode = "stage" /\ c \in Letters -> [r EXCEPT !.word = Append(@, c)]
    [] r.mode = "stage" /\ c \notin Letters /\ r.word # <<>> -> AfterWord(OpenStage(r, r.word), c)
    [] r.mode = "after" -> AfterWord(r, c)
    [] r.mode = "argument" /\ r.word = <<>> /\ c \in {" ", "|"} -> AfterWord(r, c)
    [] r.mode = "argument" /\ c \in Letters -> [r EXCEPT !.word = Append(@, c)]
    [] r.mode = "argument" /\ c = "=" /\ r.word # <<>> /\ r.word \notin Seen(r) ->
         [r EXCEPT !.mode = "mark", !.key = r.word, !.word = <<>>]
    [] r.mode = "mark" /\ c = "\"" -> [r EXCEPT !.mode = "value"]
    [] r.mode = "value" /\ c = "\\" -> [r EXCEPT !.mode = "escape", !.word = Append(@, c)]
    [] r.mode = "value" /\ c = "\"" -> CloseValue(r)
    [] r.mode = "value" /\ c \notin {"\"", "\\"} -> [r EXCEPT !.word = Append(@, c)]
    [] r.mode = "escape" -> [r EXCEPT !.mode = "value", !.word = Append(@, c)]
    [] OTHER -> Rejected(r)

(* The stages of a header, and <<>> if it is rejected.                     *)
Pipeline(s) ==
  LET r == FoldLeft(ReadStep, StartOfReader, s)
  IN  CASE r.mode = "stage" /\ r.word # <<>> -> OpenStage(r, r.word).stages
        [] r.mode \in {"after", "argument"} /\ r.word = <<>> -> r.stages
        [] OTHER -> <<>>

-----------------------------------------------------------------------------
(* JSON's notation of a string                                             *)

Escaped(c) == IF c \in {"\"", "\\"} THEN <<"\\", c>> ELSE <<c>>
Quoted(s) == <<"\"">> \o FlattenSeq([i \in DOMAIN s |-> Escaped(s[i])]) \o <<"\"">>

-----------------------------------------------------------------------------
(* A header is typed                                                       *)

HeaderInit == text \in Openings /\ pieces = 0
Type ==
  /\ pieces < MaxPieces
  /\ pieces' = pieces + 1 /\ \E snippet \in Snippets : text' = text \o snippet

HeaderSpec == HeaderInit /\ [][Type]_headerVars

-----------------------------------------------------------------------------
(* Properties                                                              *)

(* A scan loses nothing and its pieces hold together: joined again they    *)
(* are the header, and a piece of a balanced header is balanced itself and *)
(* is not split again.                                                     *)
ScanIsStable(s) ==
  LET split == SplitDelimited(s, "|")
  IN  /\ FoldLeft(LAMBDA joined, part : joined \o <<"|">> \o part, Head(split.parts), Tail(split.parts)) = s
      /\ ~split.issue =>
           \A i \in DOMAIN split.parts :
             /\ SplitDelimited(split.parts[i], "|") = [parts |-> <<split.parts[i]>>, issue |-> FALSE]
             /\ \A token \in ToSet(TokenizeStage(split.parts[i])) : TokenizeStage(token) = <<token>>

(* Strings in JSON's notation, alone or in a list, are one token of the    *)
(* header and read as themselves, whatever they hold.  (Bound: one list    *)
(* for each of the shorter texts.)                                         *)
StringsReadBack(s) ==
  LET list == <<<<>>, s>>
      items == Quoted(<<>>) \o <<",", " ">> \o Quoted(s)
      argument == <<"=", "[">> \o items \o <<"]">>
      letter == CHOOSE c \in Letters : TRUE
  IN  /\ ReadHeader(<<letter, " ", letter>> \o argument \o <<" ">>) =
           [parts |-> <<[name |-> <<letter>>, args |-> <<[key |-> <<letter>>, value |->
               Value("list", [i \in DOMAIN list |-> Value("string", list[i])])]>>]>>, balanced |-> TRUE]
      /\ Decode(SubSeq(Quoted(s), 2, Len(Quoted(s)) - 1)) = s

(* Two implementations of one notation read headers alike, character by    *)
(* character: whatever is quoted, escaped or nested where, a header that   *)
(* the reference accepts is balanced to the parser and has the same stages *)
(* and arguments (runtime/parser.js:124-227, reference/scoped_text.py:22-84). *)
HeadersReadAlike ==
  /\ ScanIsStable(text) /\ (pieces < MaxPieces => StringsReadBack(text))
  /\ Pipeline(text) # <<>> => ReadHeader(text) = [parts |-> Pipeline(text), balanced |-> TRUE]

=============================================================================
