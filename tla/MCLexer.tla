------------------------------- MODULE MCLexer -------------------------------
(* An instance of Lexer with ints of four bits: the largest int is 7, and  *)
(* 8 stands for 2147483648.                                                *)
EXTENDS Lexer

Limit == 8

KeywordSet == {<<"i", "n", "t">>}

Number(chars, name, value) ==
  [chars |-> chars, tokens |-> <<TokenInfo("INTCONST", name, value)>>, closed |-> TRUE]
Named(sym, chars) ==
  [chars |-> chars, tokens |-> <<TokenInfo(sym, chars, 0)>>, closed |-> TRUE]
Ident(chars) == Named("IDENT", chars)
Keyword(chars) == Named("KEYWORD", chars)
Op(chars) == Named("OPERATOR", chars)
Str(chars) == [Named("STRCONST", chars) EXCEPT !.chars = <<"\"">> \o chars]
Skipped(chars) == [chars |-> chars, tokens |-> <<>>, closed |-> TRUE]
Open(chars) == [chars |-> chars, tokens |-> <<>>, closed |-> FALSE]

(* Words with letters that are digits, and the limit in every base;        *)
(* operators that are the beginning of another, or of a comment; comments  *)
(* that hold what ends or begins one; comments and a string that the file  *)
(* ends within.                                                            *)
Pieces ==
  {Ident(<<"a">>), Ident(<<"i", "n", "t", "1">>), Keyword(<<"i", "n", "t">>),
   Number(<<"0">>, <<"0">>, 0), Number(<<"0", "7">>, <<"0", "7">>, 7),
   Number(<<"0", "x", "8">>, <<"8">>, 8), Number(<<"0", "1", "0">>, <<"0", "1", "0">>, 8),
   Number(<<"8">>, <<"8">>, 8),
   Op(<<"-">>), Op(<<"/">>), Op(<<"*">>), Op(<<"<">>), Op(<<"=", "=">>), Op(<<"&", "&">>),
   Str(<<"/", "*", "\"">>),
   Skipped(<<" ">>), Skipped(<<"\r", "\n">>), Skipped(<<"\t">>),
   Skipped(<<"/", "/", "*", "\n">>), Skipped(<<"/", "*", "*", "/">>),
   Skipped(<<"/", "*", "/", "*", "/">>),
   Skipped(<<"/", "*", "*", " ", "*", "/">>),
   Open(<<"/", "/", "a">>), Open(<<"/", "*", "*">>), Open(<<"/", "*", "/">>),
   Open(<<"\"", "a">>)}
=============================================================================
