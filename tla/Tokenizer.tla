----------------------------- MODULE Tokenizer -----------------------------
(***************************************************************************)
(* tokenize() of tokenize.c: one action for each kind of thing that a      *)
(* round of its loop may find at p.  A character is a string of length     *)
(* one; read_file of holycc.c has made the last one a newline.             *)
(***************************************************************************)
EXTENDS Integers, Sequences

CONSTANTS
    Inputs,      \* the files that may be read
    MaxTokens    \* how many tokens fit in memory

Newline == "\n"
VerticalTab == "VT"
Blank == {" ", Newline, "\t", "\r", "\f", VerticalTab}     \* isspace
Digit == {"0", "1", "2", "3", "4", "5", "6", "7", "8", "9"}
Lower == {"a", "b", "c", "d", "e", "f", "g", "h", "i", "j", "k", "l", "m",
          "n", "o", "p", "q", "r", "s", "t", "u", "v", "w", "x", "y", "z"}
Upper == {"A", "B", "C", "D", "E", "F", "G", "H", "I", "J", "K", "L", "M",
          "N", "O", "P", "Q", "R", "S", "T", "U", "V", "W", "X", "Y", "Z"}
OneLetter == {"+", "-", "*", "/", "(", ")", "<", ">", "{", "}", "[", "]",
              "=", ";", ",", "&"}
TwoLetters == {<<"=", "=">>, <<"!", "=">>, <<">", "=">>, <<"<", "=">>}
Quote == "\""
Tick == "'"
LineOpen == <<"/", "/">>
BlockOpen == <<"/", "*">>
BlockClose == <<"*", "/">>
Keywords == {<<"i", "n", "t">>, <<"c", "h", "a", "r">>,
             <<"s", "i", "z", "e", "o", "f">>, <<"r", "e", "t", "u", "r", "n">>,
             <<"i", "f">>, <<"e", "l", "s", "e">>, <<"f", "o", "r">>,
             <<"w", "h", "i", "l", "e">>}

(* What is read at the end of the file.                                    *)
Nul == "NUL"

(* A file is text, with no NUL in it, that ends with a newline.            *)
ASSUME InputsAssumption ==
    /\ MaxTokens \in Nat
    /\ Inputs \subseteq Seq(STRING)
    /\ \A x \in Inputs :
          x # <<>> /\ x[Len(x)] = Newline /\ \A k \in DOMAIN x : x[k] # Nul

VARIABLES
    input,     \* the file
    p,         \* the position of tokenize's pointer
    tokens,    \* the list, in order
    status     \* scanning, done, or how it ended otherwise

vars == <<input, p, tokens, status>>

-----------------------------------------------------------------------------
(* The characters of a text x, and those of the file.                      *)
At(x, k) == IF k \in DOMAIN x THEN x[k] ELSE Nul
Begins(x, k, s) == \A n \in DOMAIN s : At(x, k + n - 1) = s[n]
Char(k) == At(input, k)
StartsWith(k, s) == Begins(input, k, s)

(* The first position from k on that is in S, or that of the NUL.          *)
Until(k, S) ==
    CHOOSE q \in k .. Len(input) + 1 :
        /\ q \in S \/ q = Len(input) + 1
        /\ \A x \in k .. q - 1 : x \notin S
Places(s) == {q \in DOMAIN input : StartsWith(q, s)}
Outside(C) == {q \in DOMAIN input : input[q] \notin C}

Alnum(c) == c \in Lower \cup Upper \cup Digit \cup {"_"}

(* A keyword that is not the beginning of a longer name.  An error: the    *)
(* character after it is not looked at.                                    *)
KeywordPrefix(w) == StartsWith(p, w)
KeywordHere(w) == StartsWith(p, w) /\ ~Alnum(Char(p + Len(w)))

(* The characters the identifier loop goes over.  Its test for the upper   *)
(* case compares the address of p with 'Z', which is never true.           *)
IdentChars == Lower \cup Digit \cup {"_"}

(* What the tests of the loop's body ask, in their order.                  *)
Tests == <<"blank", "line", "block", "two", "one", "string", "char",
           "keyword", "ident", "number">>
Finds(t) ==
    CASE t = "blank"   -> Char(p) \in Blank
      [] t = "line"    -> StartsWith(p, LineOpen)
      [] t = "block"   -> StartsWith(p, BlockOpen)
      [] t = "two"     -> \E s \in TwoLetters : StartsWith(p, s)
      [] t = "one"     -> Char(p) \in OneLetter
      [] t = "string"  -> Char(p) = Quote
      [] t = "char"    -> Char(p) = Tick
      [] t = "keyword" -> \E w \in Keywords : KeywordHere(w)
      [] t = "ident"   -> Char(p) \in Lower \cup Upper \cup {"_"}
      [] t = "number"  -> Char(p) \in Digit

(* The first test that succeeds decides what the round does.               *)
Scans(n) ==
    /\ status = "scanning"
    /\ Finds(Tests[n])
    /\ \A m \in 1 .. n - 1 : ~Finds(Tests[m])

Token(kind, k, n) == [kind |-> kind, loc |-> k, len |-> n]

(* new_token for each of ts, and p goes on to q.  When memory is used up   *)
(* calloc returns NULL, which new_token dereferences.                      *)
Add(ts, q) ==
    /\ IF Len(tokens) + Len(ts) <= MaxTokens
       THEN tokens' = tokens \o ts /\ p' = q /\ UNCHANGED status
       ELSE status' = "exhausted" /\ UNCHANGED <<p, tokens>>
    /\ UNCHANGED input

Reject == status' = "rejected" /\ UNCHANGED <<input, p, tokens>>

-----------------------------------------------------------------------------
Start(file) == input = file /\ p = 1 /\ tokens = <<>> /\ status = "scanning"
Init == \E file \in Inputs : Start(file)

SkipBlank == Scans(1) /\ Add(<<>>, p + 1)

SkipLine == Scans(2) /\ Add(<<>>, Until(p + 2, Places(<<Newline>>)))

(* p goes past the closing mark; if there is none, two characters past the *)
(* NUL, behind the memory of the file.  The byte there is mostly 0, which  *)
(* ends the loop as the NUL of the file does (Char is Nul there); if it is *)
(* not, what follows is open ("overrun").  Errors: p stops on the "/"; the *)
(* loop has gone past the mark already.                                    *)
PastCloseShort(q) == q + 1
PastCloseTwice(q) == q + 4
PastClose(q) == q + 2
SkipBlock ==
    /\ Scans(3)
    /\ LET q == Until(p + 2, Places(BlockClose)) IN
       /\ p' = PastClose(q)
       /\ status' \in IF q > Len(input) THEN {status, "overrun"} ELSE {status}
    /\ UNCHANGED <<input, tokens>>

Operator == Scans(4) /\ Add(<<Token("punct", p, 2)>>, p + 2)

Punctuator == Scans(5) /\ Add(<<Token("punct", p, 1)>>, p + 1)

(* The text between two quotes, with the quotes as tokens of their own.    *)
Quoted(kind, q) ==
    Add(<<Token("punct", p, 1), Token(kind, p + 1, q - p - 1), Token("punct", q, 1)>>, q + 1)

String ==
    /\ Scans(6)
    /\ LET q == Until(p + 1, Places(<<Quote>>))
       IN IF Char(q) = Quote THEN Quoted("str", q) ELSE Reject

Character ==
    /\ Scans(7)
    /\ IF Char(p + 2) = Tick THEN Quoted("char", p + 2) ELSE Reject

Keyword ==
    /\ Scans(8)
    /\ \E w \in Keywords :
          KeywordHere(w) /\ Add(<<Token("keyword", p, Len(w))>>, p + Len(w))

Identifier ==
    /\ Scans(9)
    /\ LET q == Until(p, Outside(IdentChars)) IN Add(<<Token("ident", p, q - p)>>, q)

Number ==
    /\ Scans(10)
    /\ LET q == Until(p, Outside(Digit)) IN Add(<<Token("num", p, q - p)>>, q)

(* error_at "invalid token".                                               *)
Invalid ==
    /\ status = "scanning" /\ Char(p) # Nul
    /\ \A n \in DOMAIN Tests : ~Finds(Tests[n])
    /\ Reject

End ==
    /\ status = "scanning" /\ Char(p) = Nul
    /\ tokens' = Append(tokens, Token("eof", p, 0)) /\ status' = "done"
    /\ UNCHANGED <<input, p>>

Stopped == status # "scanning" /\ UNCHANGED vars

Round ==
    \/ SkipBlank \/ SkipLine \/ SkipBlock \/ Operator \/ Punctuator \/ String
    \/ Character \/ Keyword \/ Identifier \/ Number \/ Invalid \/ End

Next == Round \/ Stopped

Spec == Init /\ [][Next]_vars

(* tokenize goes on once it is called.                                     *)
FairSpec == Spec /\ WF_vars(Round)

-----------------------------------------------------------------------------
TypeOK ==
    /\ p \in 1 .. Len(input) + 3
    /\ \A n \in DOMAIN tokens :
          /\ tokens[n].loc \in 1 .. Len(input) + 3
          /\ tokens[n].len \in 0 .. Len(input) + 3 - tokens[n].loc
          /\ tokens[n].kind \in {"punct", "str", "char", "keyword", "ident", "num", "eof"}
    /\ status \in {"scanning", "done", "rejected", "overrun", "exhausted"}

(* A blank, a line comment without its newline, a block comment that ends  *)
(* at its first close, or one without any, which takes the NUL and one     *)
(* character more with it, from b on to before e.                          *)
Skipped(x, b, e) ==
    \/ At(x, b) \in Blank /\ e = b + 1
    \/ /\ Begins(x, b, LineOpen)
       /\ e >= b + 2 /\ At(x, e) = Newline
       /\ \A k \in b + 2 .. e - 1 : At(x, k) # Newline
    \/ /\ Begins(x, b, BlockOpen)
       /\ e >= b + 4 /\ Begins(x, e - 2, BlockClose)
       /\ \A k \in b + 2 .. e - 3 : ~Begins(x, k, BlockClose)
    \/ /\ Begins(x, b, BlockOpen)
       /\ e = Len(x) + 3
       /\ \A k \in b + 2 .. Len(x) : ~Begins(x, k, BlockClose)

(* What may stand between two tokens, from i on to before j: nothing but   *)
(* blanks and comments.  led[k] is the set of positions up to k that they  *)
(* lead to from i.                                                         *)
Further(x, led, k) == led \cup {e \in {k} : \E b \in led : Skipped(x, b, e)}
Between(x, i, j) ==
    LET led[k \in i .. Len(x) + 3] ==
            IF k = i THEN {i} ELSE Further(x, led[k - 1], k)
    IN j \in led[j]

(* The tokens come in the order of the text, none overlaps the next, and   *)
(* everything that no token covers is blank or comment, up to the end of   *)
(* the file once it is done, or to where a comment without an end leaves   *)
(* p; no string goes on over a quote.  A comment or a literal that ends at *)
(* the wrong place leaves characters over or takes some of the next token. *)
(* The list has one token of the end, its last, where at_eof stops the     *)
(* parser.                                                                 *)
EndOf(n) == IF n = 0 THEN 1 ELSE tokens[n].loc + tokens[n].len
EofIsLast ==
    \A n \in DOMAIN tokens : tokens[n].kind = "eof" <=> status = "done" /\ n = Len(tokens)
NothingLost ==
    /\ \A n \in DOMAIN tokens :
          /\ EndOf(n - 1) <= tokens[n].loc
          /\ Between(input, EndOf(n - 1), tokens[n].loc)
          /\ tokens[n].kind = "str" =>
                \A k \in tokens[n].loc .. EndOf(n) - 1 : input[k] # Quote
    /\ status = "done" =>
          tokens # <<>> /\ EndOf(Len(tokens)) \in {Len(input) + 1, Len(input) + 3}
    /\ EofIsLast

(* Two tokens that touch could not have been read as one: no keyword or    *)
(* identifier is followed by a letter or digit, and no two punctuators     *)
(* make up an operator or open a comment (the order of the tests in the    *)
(* loop, and the look at the character after a keyword).                   *)
LongestMatch ==
    \A n \in 1 .. Len(tokens) - 1 :
        LET t == tokens[n] u == tokens[n + 1] IN
        EndOf(n) = u.loc =>
            /\ t.kind \in {"keyword", "ident"} => ~Alnum(Char(u.loc))
            /\ t.kind = "punct" /\ t.len = 1 /\ u.kind = "punct" =>
                  <<input[t.loc], input[u.loc]>> \notin TwoLetters \cup {LineOpen, BlockOpen}

(* tokenize.c:136 says that tokenize makes tokens of the input and returns *)
(* them: it does not go on for ever (until memory is used up).  The code   *)
(* violates it for a name with an upper-case letter, at which an           *)
(* identifier of no characters is found again and again.                   *)
Finishes == <>(status \in {"done", "rejected", "overrun"})
=============================================================================
