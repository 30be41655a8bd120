----------------------------- MODULE Translator -----------------------------
(***************************************************************************)
(* The translator the_art_of_c++/trans.cpp, which rewrites foreach, cases, *)
(* repeat, until and typeof and copies everything else.                    *)
(*                                                                         *)
(* A text is a sequence of symbols.  A symbol is one character, or a name: *)
(* letters that always come together.  `pos` symbols have been taken from  *)
(* fin; at the end of the file each further read fails and gives the empty *)
(* token.  `mode` is the loop that main or a handler is in.  Left out are  *)
(* indentation, the exponents of numbers, what was written before a syntax *)
(* error, and that a name after an escaped quote is read in two tokens.    *)
(***************************************************************************)
EXTENDS Integers, Sequences

CONSTANTS
  Texts,      \* texts to translate
  OtherWord,  \* names that are not keywords
  Digit,      \* digits
  LoopVars    \* names of generated loop variables: _ia, _ib, ...

Keyword == {"foreach", "cases", "repeat", "until", "typeof"}
Word    == Keyword \cup {"in", "to", "same", "as"} \cup OtherWord
Number  == Digit \cup {".", "-", "+"}
Quote   == "\""
Blank   == " "
Space   == {Blank, "\n"}
Garbage == "\\xff"   \* what get() returns at the end of the file

(* A name is of letters, and letters are no digits and none of the symbols *)
(* that gettoken and C++ tell from them.                                   *)
LoopVarsAssumption == LoopVars \in Seq(STRING) /\ LoopVars # <<>>
TextsAssumption ==
  /\ Texts \subseteq Seq(STRING)
  /\ (OtherWord \cup Digit) \cap {Quote, "'", "/", "*", "\\", Blank, "\n"} = {}
  /\ Word \cap Digit = {}

VARIABLES
  text,     \* the input
  pos,      \* symbols taken from fin
  mode,     \* the loop that runs
  out,      \* what has been written to fout
  counter,  \* foreach: the next loop variable
  paren,    \* until: parencount
  temp,     \* typeof: the token before
  handled,  \* history: positions of symbols that a handler has taken
  scan      \* history: what C++ sees, Scan(text)

vars == <<text, pos, mode, out, counter, paren, temp, handled, scan>>

(* What C++ sees: the state of its scanner after symbol i of t, when it was *)
(* s before.  A quote between single quotes is a character and opens no    *)
(* string.                                                                 *)
ScanStep(t, s, i) ==
  IF s \in {"code", "char2"}
  THEN CASE t[i] = Quote -> "string"
         [] i < Len(t) /\ t[i] = "/" /\ t[i + 1] = "/" -> "line"
         [] i < Len(t) /\ t[i] = "/" /\ t[i + 1] = "*" -> "open"
         [] s = "code" /\ i + 1 < Len(t) /\ t[i] = "'" /\ t[i + 1] = Quote /\ t[i + 2] = "'" -> "char1"
         [] OTHER -> "code"
  ELSE CASE s = "char1"  -> "char2"
         [] s = "string" -> IF t[i] = Quote THEN "code" ELSE "string"
         [] s = "line"   -> IF t[i] = "\n" THEN "code" ELSE "line"
         [] s = "star" /\ t[i] = "/"              -> "code"
         [] s \in {"block", "star"} /\ t[i] = "*" -> "star"
         [] OTHER -> "block"
Scan(t) ==
  LET state[i \in 0..Len(t)] == IF i = 0 THEN "code" ELSE ScanStep(t, state[i - 1], i)
  IN  state

Init ==
  /\ text = <<>> /\ pos = 0 /\ mode = "start" /\ out = <<>>
  /\ counter = 1 /\ paren = 0 /\ temp = <<>> /\ handled = {} /\ scan = Scan(text)

Open(t) ==
  /\ mode = "start" /\ mode' = "main"
  /\ text' = t /\ scan' = Scan(t)
  /\ UNCHANGED <<pos, out, counter, paren, temp, handled>>

-----------------------------------------------------------------------------
(* gettoken: where the token that starts after i symbols ends.  These are  *)
(* functions, so that TLC evaluates a position once.                       *)

AtEnd(i) == i = Len(text)
RunEnd(i, S) ==
  CHOOSE j \in i..Len(text) :
    (\A k \in i+1..j : text[k] \in S) /\ (AtEnd(j) \/ text[j + 1] \notin S)

(* Pairs that are one token, and everything else.  Mutant: the end of a    *)
(* comment is not told from a star.                                        *)
Pairs == {<<"'", Quote>>, <<"/", "/">>, <<"/", "*">>, <<"*", "/">>}
SymbolEnd_NoClose(i) ==
  IF i + 2 <= Len(text) /\ <<text[i + 1], text[i + 2]>> \in Pairs \ {<<"*", "/">>} THEN i + 2 ELSE i + 1
SymbolEnd(i) ==
  IF i + 2 <= Len(text) /\ <<text[i + 1], text[i + 2]>> \in Pairs THEN i + 2 ELSE i + 1

Escaped(i) == i + 2 <= Len(text) /\ text[i + 1] = "\\" /\ text[i + 2] = Quote

TokenEnd[i \in 0..Len(text)] ==
  CASE AtEnd(i)             -> i
    [] ~ AtEnd(i) /\ text[i + 1] \in Space -> RunEnd(i, Space)
    [] ~ AtEnd(i) /\ text[i + 1] \in Word  -> RunEnd(i, Word \cup Digit)
    [] ~ AtEnd(i) /\ text[i + 1] \in Digit -> RunEnd(i, Number)
    [] Escaped(i)           -> IF AtEnd(i + 2) THEN i + 2 ELSE SymbolEnd(i + 2)
    [] OTHER                -> SymbolEnd(i)

Token(i) ==
  SubSeq(text, i + 1, TokenEnd[i]) \o (IF Escaped(i) /\ AtEnd(i + 2) THEN <<Garbage>> ELSE <<>>)

SkipSpaces[i \in 0..Len(text)] == RunEnd(i, Space)
Starts(tok, c) == tok # <<>> /\ tok[1] = c

Took(j) == pos' = j /\ handled' = handled \cup (pos + 1)..j

-----------------------------------------------------------------------------
(* The loop of main.                                                       *)

Opening(tok) ==
  CASE tok = <<"/", "/">> -> "line"
    [] tok = <<"/", "*">> -> "block"
    [] tok = <<Quote>>     -> "string"
    [] OTHER              -> "main"

MainToken ==
  /\ mode = "main" /\ ~ AtEnd(pos)
  /\ \A k \in Keyword : Token(pos) # <<k>>
  /\ mode' = Opening(Token(pos))
  /\ out' = out \o Token(pos) /\ pos' = TokenEnd[pos]
  /\ UNCHANGED <<scan, text, counter, paren, temp, handled>>

(* The loops over comments and strings end at their own token only.        *)
(* Mutant: a string ends with its line, too.                               *)
Closing_String(tok) ==
  CASE mode = "line"   -> \E k \in DOMAIN tok : tok[k] = "\n"
    [] mode = "block"  -> tok = <<"*", "/">>
    [] mode = "string" -> tok = <<Quote>> \/ \E k \in DOMAIN tok : tok[k] = "\n"
Closing(tok) ==
  CASE mode = "line"   -> \E k \in DOMAIN tok : tok[k] = "\n"
    [] mode = "block"  -> tok = <<"*", "/">>
    [] mode = "string" -> tok = <<Quote>>

Copy ==
  /\ mode \in {"line", "block", "string"} /\ ~ AtEnd(pos)
  /\ mode' = IF Closing(Token(pos)) THEN "main" ELSE mode
  /\ out' = out \o Token(pos) /\ pos' = TokenEnd[pos]
  /\ UNCHANGED <<scan, text, counter, paren, temp, handled>>

(* The file ends inside one of them: gettoken fails, and the loop goes on. *)
Hang == mode \in {"line", "block", "string"} /\ AtEnd(pos) /\ UNCHANGED vars

MainEnd ==
  /\ mode = "main" /\ AtEnd(pos) /\ mode' = "done"
  /\ UNCHANGED <<scan, text, pos, out, counter, paren, temp, handled>>

-----------------------------------------------------------------------------
(* The handlers.  Each reads on after its keyword and may throw.           *)

Handler(k) == mode = "main" /\ ~ AtEnd(pos) /\ Token(pos) = <<k>>
Afterwards == TokenEnd[pos]
Throw ==
  /\ mode' = "error"
  /\ UNCHANGED <<scan, text, pos, out, counter, paren, temp, handled>>

(* foreach ( type name in array ).  The variable named last is never used, *)
(* since the counter is compared after it was increased.                   *)
Foreach ==
  /\ Handler("foreach")
  /\ LET open  == SkipSpaces[Afterwards]
         type  == SkipSpaces[TokenEnd[open]]
         name  == SkipSpaces[TokenEnd[type]]
         in    == SkipSpaces[TokenEnd[name]]
         array == SkipSpaces[TokenEnd[in]]
         close == SkipSpaces[TokenEnd[array]]
         i     == <<LoopVars[counter]>>
     IN  IF /\ counter < Len(LoopVars) /\ Starts(Token(open), "(")
            /\ Token(in) = <<"in">> /\ Starts(Token(close), ")")
         THEN /\ Took(TokenEnd[close])
              /\ counter' = counter + 1
              /\ out' = out \o <<"int">> \o i \o <<"=0;for(">> \o Token(type) \o <<Blank>> \o Token(name)
                        \o <<"=">> \o Token(array) \o <<"[0];">> \o i \o <<"<sizeof">> \o Token(array)
                        \o <<";">> \o i \o <<"++,">> \o Token(name) \o <<"=">> \o Token(array)
                        \o <<"[">> \o i \o <<"])">>
              /\ UNCHANGED <<scan, text, mode, paren, temp>>
         ELSE Throw

(* cases a to b: an integer or a character between quotes, which is read   *)
(* as a token.  "case" stands for the labels from a to b.                  *)
Limit[i \in 0..Len(text)] ==
  LET char == TokenEnd[i]
      quote == TokenEnd[char]
  IN  IF Starts(Token(i), "'")
      THEN [ok |-> Starts(Token(quote), "'"), value |-> Token(char), end |-> TokenEnd[quote]]
      ELSE [ok |-> \E d \in Digit : Starts(Token(i), d), value |-> Token(i), end |-> TokenEnd[i]]

Cases ==
  /\ Handler("cases")
  /\ LET start == Limit[SkipSpaces[Afterwards]]
         to    == SkipSpaces[start.end]
         stop  == Limit[SkipSpaces[TokenEnd[to]]]
         colon == SkipSpaces[stop.end]
     IN  IF start.ok /\ Token(to) = <<"to">> /\ stop.ok /\ Token(colon) = <<":">>
         THEN /\ Took(TokenEnd[colon])
              /\ out' = out \o <<"case">> \o start.value \o <<"..">> \o stop.value \o <<":">>
              /\ UNCHANGED <<scan, text, mode, counter, paren, temp>>
         ELSE Throw

Repeat ==
  /\ Handler("repeat")
  /\ Took(Afterwards)
  /\ out' = out \o <<"do">>
  /\ UNCHANGED <<scan, text, mode, counter, paren, temp>>

Until ==
  /\ Handler("until")
  /\ LET open == SkipSpaces[Afterwards]
     IN  IF Token(open) = <<"(">>
         THEN /\ Took(TokenEnd[open])
              /\ mode' = "until" /\ paren' = 1
              /\ out' = out \o <<"while", "(", "!", "(">>
              /\ UNCHANGED <<scan, text, counter, temp>>
         ELSE Throw

UntilToken ==
  /\ mode = "until"
  /\ IF AtEnd(pos) THEN Throw
     ELSE /\ Took(TokenEnd[pos])
          /\ paren' = CASE Token(pos) = <<"(">> -> paren + 1
                        [] Token(pos) = <<")">> -> paren - 1
                        [] OTHER                -> paren
          /\ mode' = IF paren' = 0 THEN "main" ELSE "until"
          /\ out' = out \o Token(pos) \o (IF paren' = 0 THEN <<")">> ELSE <<>>)
          /\ UNCHANGED <<scan, text, counter, temp>>

Typeof ==
  /\ Handler("typeof")
  /\ LET first == SkipSpaces[Afterwards]
     IN  Took(TokenEnd[first]) /\ temp' = Token(first)
  /\ mode' = "typeof"
  /\ out' = out \o <<"typeid(">>
  /\ UNCHANGED <<scan, text, counter, paren>>

(* Up to "same"; the token just before it is not written.                  *)
TypeofToken ==
  /\ mode = "typeof"
  /\ LET as == SkipSpaces[TokenEnd[pos]]
     IN  IF AtEnd(pos) \/ (Token(pos) = <<"same">> /\ Token(as) # <<"as">>) THEN Throw
         ELSE IF Token(pos) = <<"same">>
         THEN /\ Took(SkipSpaces[TokenEnd[as]])
              /\ out' = out \o <<")==typeid(">> /\ mode' = "as"
              /\ UNCHANGED <<scan, text, counter, paren, temp>>
         ELSE /\ Took(TokenEnd[pos])
              /\ out' = out \o temp /\ temp' = Token(pos)
              /\ UNCHANGED <<scan, text, mode, counter, paren>>

AsToken ==
  /\ mode = "as"
  /\ IF AtEnd(pos) THEN Throw
     ELSE /\ Took(TokenEnd[pos])
          /\ mode' = IF Token(pos) = <<")">> THEN "main" ELSE "as"
          /\ out' = out \o Token(pos) \o (IF Token(pos) = <<")">> THEN <<")">> ELSE <<>>)
          /\ UNCHANGED <<scan, text, counter, paren, temp>>

Ended == mode \in {"done", "error"} /\ UNCHANGED vars

Step ==
  \/ MainToken \/ Copy \/ MainEnd
  \/ Foreach \/ Cases \/ Repeat \/ Until \/ UntilToken \/ Typeof \/ TypeofToken \/ AsToken

Next == (\E t \in Texts : Open(t)) \/ Step \/ Hang \/ Ended

Spec == Init /\ [][Next]_vars
(* The program is sequential: it takes its next step.                      *)
Fairness == WF_vars(Step)

-----------------------------------------------------------------------------
(* Texts without the spellings that gettoken reads in its own way: escapes, *)
(* a single quote before the end of a string, star and slash next to each  *)
(* other outside a comment or the other way round inside.                  *)
Plain ==
  /\ \A i \in DOMAIN text : text[i] # "\\"
  /\ \A i \in 1..Len(text) - 1 :
       CASE <<text[i], text[i + 1]>> = <<"'", Quote>> -> scan[i] \in {"char1", "line", "block"}
         [] <<text[i], text[i + 1]>> = <<"*", "/">>  -> scan[i - 1] # "code"
         [] <<text[i], text[i + 1]>> = <<"/", "*">>  -> scan[i - 1] \notin {"block", "star"}
         [] OTHER                                    -> TRUE

(* No handler has taken a quote or a comment for a part of its construct.  *)
Clean == \A i \in handled : scan[i] = "code"

Sees == CASE mode = "main"   -> {"code", "char2"}
          [] mode = "line"   -> {"line"}
          [] mode = "block"  -> {"block", "star"}
          [] mode = "string" -> {"string"}
          [] OTHER           -> {"code"}

(* Keywords are translated in code only: on a plain text, whenever a token *)
(* has been read, the translator is in a string or comment exactly if C++  *)
(* is; and until a handler runs the output is the input.                   *)
CodeToldFromText ==
  Plain /\ Clean =>
    /\ mode \in {"main", "line", "block", "string"} => scan[pos] \in Sees
    /\ handled = {} => out = SubSeq(text, 1, pos)

(* The translator ends on each plain text whose strings and block comments *)
(* are closed and whose last line is ended: trans.cpp has no test for the  *)
(* end of the file in the loops over them.                                 *)
Closed == scan[Len(text)] = "code"
TranslationEnds ==
  (mode = "main" /\ Plain /\ Closed) ~> (mode \in {"done", "error"} \/ ~ Clean)

TypeOK ==
  /\ text \in Texts \cup {<<>>} /\ pos \in 0..Len(text)
  /\ mode \in {"start", "main", "line", "block", "string", "until", "typeof", "as", "done", "error"}
  /\ counter \in 1..Len(LoopVars) /\ paren \in Nat /\ handled \subseteq 1..pos
=============================================================================
