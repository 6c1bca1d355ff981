-------------------------------- MODULE Lexer --------------------------------
(***************************************************************************)
(* Lexical analysis, front/lexer/lexer.cpp, character by character: parseSym *)
(* skips what is between the tokens and reads one token after the other,   *)
(* with c the character read last and ungetc to give one back.             *)
(*                                                                         *)
(* The text is put together from lexemes, pieces of text that are known to *)
(* be one token or none; what the tokens should be follows from the pieces *)
(* and does not depend on how they are found.                              *)
(***************************************************************************)
EXTENDS Integers, Sequences, SequencesExt

CONSTANTS
  Lexemes,    \* records: chars (the text), tokens (<<>> or the one token it is),
              \* closed (FALSE: a comment or string that lacks its end)
  Keywords,   \* the words in reverseTable
  MaxLexemes, \* bound: lexemes in a text
  MaxToken,   \* bound: characters of a token, when the memory is full
  IntLimit    \* 2^31, the first value an int does not have

VARIABLES
  lexemes,        \* the pieces the text is made of; only the properties look at it
  in,             \* the characters the file has left
  c,              \* the character read last
  token,          \* the characters of the token so far
  tokenInfoList,
  base,           \* isHex, isOct or neither: 16, 8 or 10
  pc              \* the loop that is running

vars == <<lexemes, in, c, token, tokenInfoList, base, pc>>

EOF == "EOF"
Newline == "\n"
Blank == {" ", Newline, "\t"}
Control == {"\t", "\r", EOF}                     \* c < 32, but for the newline
DecimalDigit == {"0", "1", "2", "3", "4", "5", "6", "7", "8", "9"}
DigitValue ==
  [d \in DecimalDigit |-> CHOOSE n \in 0 .. 9 : ToString(n) = d] @@
  [a |-> 10, b |-> 11, c |-> 12, d |-> 13, e |-> 14, f |-> 15] @@
  [A |-> 10, B |-> 11, C |-> 12, D |-> 13, E |-> 14, F |-> 15]
Digit == DOMAIN DigitValue
Letter == (Digit \ DecimalDigit) \cup {"i", "n", "t", "x", "X", "_"}  \* those the texts have
OneCharacter == {"+", "-", "*", "/", "%", "(", ")", "[", "]", "{", "}", ",", ";"}
Doubled == {"|", "&"}
Compared == {"<", ">", "!", "="}

TokenInfo(sym, name, value) == [sym |-> sym, name |-> name, value |-> value]

-----------------------------------------------------------------------------
(* The texts: a piece does not run into the next one, the constant         *)
(* IntLimit is written as the operand of a minus sign only, and nothing    *)
(* can follow a comment or string that is not closed.                      *)
Blanks(l) == l.tokens = <<>>
Words == {"IDENT", "KEYWORD", "INTCONST"}
IsWord(l) == ~Blanks(l) /\ l.tokens[1].sym \in Words
IsLimit(l) == ~Blanks(l) /\ l.tokens[1].sym = "INTCONST" /\ l.tokens[1].value = IntLimit
IsMinus(l) == l.chars = <<"-">>
MayEnd(l) == ~Blanks(l) /\ (l.tokens[1].sym \in Words \/ l.chars \in {<<")">>, <<"]">>})

Apart(l, next) ==
  /\ ~(IsWord(l) /\ IsWord(next))
  /\ l.chars \in {<<x>> : x \in Compared} => Head(next.chars) # "="
  /\ l.chars = <<"/">> => Head(next.chars) \notin {"/", "*"}

Legal(ls) ==
  LET tokens == SelectSeq(ls, LAMBDA l : ~Blanks(l))
  IN /\ \A i \in 1 .. Len(ls) - 1 : ls[i].closed /\ Apart(ls[i], ls[i + 1])
     /\ \A i \in DOMAIN tokens : IsLimit(tokens[i]) =>
          /\ i > 1 /\ IsMinus(tokens[i - 1])
          /\ i > 2 => ~MayEnd(tokens[i - 2])

Closed == \A i \in DOMAIN lexemes : lexemes[i].closed

(* What the text says: its tokens in order, where the minus sign before    *)
(* IntLimit belongs to the constant, which an int has only with it.        *)
Meant(ls) ==
  Append(FoldLeft(LAMBDA said, l :
                    IF IsLimit(l)
                    THEN Append(Front(said), [l.tokens[1] EXCEPT !.value = -IntLimit])
                    ELSE said \o l.tokens,
                  <<>>, ls),
         TokenInfo("END", <<>>, 0))

-----------------------------------------------------------------------------
Ahead(chars) == IF chars = <<>> THEN EOF ELSE Head(chars)
Rest(chars) == IF chars = <<>> THEN <<>> ELSE Tail(chars)

(* c = fgetc(in), and ungetc(c, in), which does nothing for EOF. *)
Fgetc == c' = Ahead(in) /\ in' = Rest(in)
Ungetc(ch) == in' = IF ch = EOF THEN in ELSE <<ch>> \o in

Init ==
  /\ lexemes \in {ls \in UNION {[1 .. n -> Lexemes] : n \in 0 .. MaxLexemes} : Legal(ls)}
  /\ in = FlattenSeq([i \in DOMAIN lexemes |-> lexemes[i].chars])
  /\ c = "NUL"
  /\ token = <<>>
  /\ tokenInfoList = <<>>
  /\ base = 10
  /\ pc = "parseSym"

Push(info) == tokenInfoList' = Append(tokenInfoList, info)

-----------------------------------------------------------------------------
(* parseSym: the end, and the beginning of a round. *)
EndOfFile ==
  /\ pc = "parseSym" /\ c = EOF
  /\ Push(TokenInfo("END", <<>>, 0))
  /\ pc' = "done"
  /\ UNCHANGED <<lexemes, in, c, token, base>>

NextRound ==
  /\ pc = "parseSym" /\ c # EOF
  /\ Fgetc
  /\ token' = <<>>
  /\ pc' = "skipIllegalChar"
  /\ UNCHANGED <<lexemes, tokenInfoList, base>>

(* Mutant: only the loop's own condition ends it, and EOF < 32. *)
SkipIllegalToTheEnd ==
  /\ pc = "skipIllegalChar"
  /\ IF c \in Control THEN Fgetc /\ pc' = pc ELSE pc' = "skipSpace" /\ UNCHANGED <<c, in>>
  /\ UNCHANGED <<lexemes, token, tokenInfoList, base>>

(* EOF < 32: at the end of the file it is read once more. *)
SkipIllegalChar ==
  /\ pc = "skipIllegalChar"
  /\ IF c \in Control
     THEN Fgetc /\ pc' = IF c' = EOF THEN "skipSpace" ELSE pc
     ELSE pc' = "skipSpace" /\ UNCHANGED <<c, in>>
  /\ UNCHANGED <<lexemes, token, tokenInfoList, base>>

SkipSpaceOrNewlineOrTab ==
  /\ pc = "skipSpace"
  /\ IF c \in Blank THEN Fgetc /\ pc' = pc ELSE pc' = "slash" /\ UNCHANGED <<c, in>>
  /\ UNCHANGED <<lexemes, token, tokenInfoList, base>>

(* A slash may begin a comment; the character after it is given back if not. *)
Slash ==
  /\ pc = "slash"
  /\ IF c = "/" /\ Ahead(in) \in {"/", "*"}
     THEN Fgetc /\ pc' = IF Ahead(in) = "/" THEN "comment2" ELSE "comment1"
     ELSE pc' = "token" /\ UNCHANGED <<c, in>>
  /\ UNCHANGED <<lexemes, token, tokenInfoList, base>>

(* skipComment(1): after a star, the character behind it is read as well.  *)
(* Neither kind of comment ends with the file.                             *)
SkipComment1 ==
  /\ pc = "comment1"
  /\ IF Ahead(in) = "*"
     THEN /\ c' = Ahead(Rest(in))
          /\ in' = Rest(Rest(in))
          /\ pc' = IF c' = "/" THEN "parseSym" ELSE pc
     ELSE Fgetc /\ pc' = pc
  /\ UNCHANGED <<lexemes, token, tokenInfoList, base>>

SkipComment2 ==
  /\ pc = "comment2"
  /\ Fgetc
  /\ pc' = IF c' = Newline THEN "parseSym" ELSE pc
  /\ UNCHANGED <<lexemes, token, tokenInfoList, base>>

-----------------------------------------------------------------------------
(* What kind of token begins with c.  A letter is a word, although some    *)
(* letters are digits.                                                     *)
BeginWord ==
  /\ pc = "token" /\ c \in Letter
  /\ pc' = "word"
  /\ UNCHANGED <<lexemes, in, c, token, tokenInfoList, base>>

BeginConstDigit ==
  /\ pc = "token" /\ c \in Digit \ Letter
  /\ IF c = "0" /\ Ahead(in) \in {"x", "X"}
     THEN base' = 16 /\ c' = Ahead(Rest(in)) /\ in' = Rest(Rest(in))
     ELSE base' = (IF c = "0" THEN 8 ELSE 10) /\ UNCHANGED <<c, in>>
  /\ pc' = "digits"
  /\ UNCHANGED <<lexemes, token, tokenInfoList>>

BeginStr ==
  /\ pc = "token" /\ c = "\""
  /\ pc' = "str"
  /\ UNCHANGED <<lexemes, in, c, token, tokenInfoList, base>>

CatToken ==
  /\ \/ pc = "word" /\ c \in Letter \cup Digit
     \/ pc = "digits" /\ c \in Digit
  /\ token' = Append(token, c)
  /\ Fgetc
  /\ UNCHANGED <<lexemes, tokenInfoList, base, pc>>

(* Mutant: the character after the word is lost. *)
WordTaken ==
  /\ pc = "word" /\ c \notin Letter \cup Digit
  /\ Push(TokenInfo(IF token \in Keywords THEN "KEYWORD" ELSE "IDENT", token, 0))
  /\ pc' = "parseSym"
  /\ UNCHANGED <<lexemes, in, c, token, base>>

DealWithKeywordOrIdent ==
  /\ pc = "word" /\ c \notin Letter \cup Digit
  /\ Ungetc(c)
  /\ Push(TokenInfo(IF token \in Keywords THEN "KEYWORD" ELSE "IDENT", token, 0))
  /\ pc' = "parseSym"
  /\ UNCHANGED <<lexemes, c, token, base>>

(* strtoll reads up to the first character that is no digit of the base. *)
StrToInt ==
  LET bad == {i \in DOMAIN token : DigitValue[token[i]] >= base}
      digits == IF bad = {} THEN token ELSE SubSeq(token, 1, Min(bad) - 1)
  IN FoldLeft(LAMBDA n, d : n * base + DigitValue[d], 0, digits)

(* setValue takes an int. *)
ToInt(n) == ((n + IntLimit) % (2 * IntLimit)) - IntLimit

DealWithConstDigit ==
  /\ pc = "digits" /\ c \notin Digit
  /\ Ungetc(c)
  /\ tokenInfoList' =
       IF StrToInt = IntLimit /\ Last(tokenInfoList).name = <<"-">>
       THEN Append(Front(tokenInfoList), TokenInfo("INTCONST", token, ToInt(-StrToInt)))
       ELSE Append(tokenInfoList, TokenInfo("INTCONST", token, ToInt(StrToInt)))
  /\ pc' = "parseSym"
  /\ UNCHANGED <<lexemes, c, token, base>>

(* At the end of the file a string goes on, with one EOF after the other,  *)
(* until the memory is full and the program over.                          *)
DealWithStr ==
  /\ pc = "str"
  /\ Len(token) < MaxToken
  /\ Fgetc
  /\ token' = Append(token, c')
  /\ IF c' = "\""
     THEN Push(TokenInfo("STRCONST", token', 0)) /\ pc' = "parseSym"
     ELSE UNCHANGED <<tokenInfoList, pc>>
  /\ UNCHANGED <<lexemes, base>>

(* dealWithOtherTk.  Of || and && the second character is not looked at;   *)
(* the one after a comparison is kept in c, also when it is given back.    *)
Operator ==
  /\ pc = "token" /\ c \in OneCharacter
  /\ Push(TokenInfo("OPERATOR", <<c>>, 0))
  /\ pc' = "parseSym"
  /\ UNCHANGED <<lexemes, in, c, token, base>>

DoubledOperator ==
  /\ pc = "token" /\ c \in Doubled
  /\ in' = Rest(in)
  /\ Push(TokenInfo("OPERATOR", <<c, c>>, 0))
  /\ pc' = "parseSym"
  /\ UNCHANGED <<lexemes, c, token, base>>

Comparison ==
  /\ pc = "token" /\ c \in Compared
  /\ c' = Ahead(in)
  /\ IF c' = "="
     THEN token' = <<c, c'>> /\ in' = Rest(in)
     ELSE token' = <<c>> /\ in' = in
  /\ Push(TokenInfo("OPERATOR", token', 0))
  /\ pc' = "parseSym"
  /\ UNCHANGED <<lexemes, base>>

OtherCharacter ==
  /\ pc = "token"
  /\ c \notin Letter \cup Digit \cup OneCharacter \cup Doubled \cup Compared \cup {"\""}
  /\ pc' = "parseSym"
  /\ UNCHANGED <<lexemes, in, c, token, tokenInfoList, base>>

Next ==
  \/ EndOfFile \/ NextRound
  \/ SkipIllegalChar \/ SkipSpaceOrNewlineOrTab
  \/ Slash \/ SkipComment1 \/ SkipComment2
  \/ BeginWord \/ BeginConstDigit \/ BeginStr \/ CatToken
  \/ DealWithKeywordOrIdent \/ DealWithConstDigit \/ DealWithStr
  \/ Operator \/ DoubledOperator \/ Comparison \/ OtherCharacter

(* The compiler runs parseSym until it returns. *)
Spec == Init /\ [][Next]_vars /\ WF_vars(Next)

-----------------------------------------------------------------------------
(* The tokens syntax analysis is given are those the text says: nothing    *)
(* that was looked at to see where a token ends is lost or read twice,     *)
(* comments and blanks leave no trace, and numbers have their values.      *)
TokensRight == pc = "done" => tokenInfoList = Meant(lexemes)

(* A text whose comments and strings are all closed is read to its end,    *)
(* also when the file ends in the middle of a word, a number, blanks,      *)
(* control characters or what may begin a comment or a longer operator.    *)
(* The loops that look for the end of a comment or of a string do not see  *)
(* the end of the file: no token list is ever handed on for such a text.   *)
Terminates ==
  /\ Closed ~> pc = "done"
  /\ [](pc = "done" => Closed)
=============================================================================
