-------------------------- MODULE TokenizerProofs --------------------------
(***************************************************************************)
(* Proofs about tokenize(): for every set of files, whatever is in them,   *)
(* and any memory, its tokens cover the file in order but for blanks and   *)
(* comments, and none of them goes on into the next.                       *)
(***************************************************************************)
EXTENDS Tokenizer, LeastNumber

-----------------------------------------------------------------------------
(* Blanks and comments.                                                    *)

(* The positions that they lead to from i, as a recursive function.        *)
Led(x, i, n) ==
    CHOOSE led : led = [k \in i .. n |->
                           IF k = i THEN {i}
                           ELSE Further(x, led[k - 1], k)]

(* There is such a function.                                               *)
LEMMA LedExists ==
    ASSUME NEW x, NEW i \in Nat, NEW n \in Nat
    PROVE  \A k \in i .. n :
              Led(x, i, n)[k] = IF k = i THEN {i} ELSE Further(x, Led(x, i, n)[k - 1], k)
<1> DEFINE IsLed(g, m) == g = [k \in i .. m |->
                                  IF k = i THEN {i} ELSE Further(x, g[k - 1], k)]
           T == {m \in Nat : \E g : IsLed(g, m)}
<1>1. 0 \in T
    <2> DEFINE g == [k \in i .. 0 |-> {i}]
    <2>1. IsLed(g, 0)
        OBVIOUS
    <2> QED
        BY <2>1
<1>2. ASSUME NEW m \in Nat, m \in T
      PROVE  m + 1 \in T
    <2>1. PICK g : IsLed(g, m)
        BY <1>2
    <2> DEFINE h == [k \in i .. m + 1 |->
                        IF k = i THEN {i} ELSE Further(x, g[k - 1], k)]
    <2>2. \A k \in i .. m : h[k] = g[k]
        <3>1. \A k \in i .. m :
                 g[k] = IF k = i THEN {i} ELSE Further(x, g[k - 1], k)
            BY <2>1
        <3>2. \A k \in i .. m : k \in i .. m + 1
            OBVIOUS
        <3> QED
            BY <3>1, <3>2
    <2>3. \A k \in i .. m + 1 : k # i => k - 1 \in i .. m
        OBVIOUS
    <2>4. \A k \in i .. m + 1 :
             h[k] = IF k = i THEN {i} ELSE Further(x, h[k - 1], k)
        BY <2>2, <2>3
    <2>5. IsLed(h, m + 1)
        BY <2>4
    <2>6. \E f : IsLed(f, m + 1)
        BY <2>5
    <2> HIDE DEF IsLed
    <2> QED
        BY <2>6
<1> HIDE DEF T
<1>3. n \in T
    BY <1>1, <1>2, SetInduction
<1>4. \E g : IsLed(g, n)
    BY <1>3 DEF T
<1>5. IsLed(Led(x, i, n), n)
    BY <1>4 DEF Led
<1> QED
    BY <1>5

LEMMA LedSteps ==
    ASSUME NEW x, NEW i \in Nat, NEW n \in Nat, i <= n
    PROVE  /\ i \in Led(x, i, n)[i]
           /\ \A k \in i + 1 .. n :
                 Led(x, i, n)[k] = Further(x, Led(x, i, n)[k - 1], k)
<1>1. i \in i .. n /\ \A k \in i + 1 .. n : k \in i .. n /\ k # i
    OBVIOUS
<1>2. \A k \in i .. n :
         Led(x, i, n)[k] = IF k = i THEN {i} ELSE Further(x, Led(x, i, n)[k - 1], k)
    BY LedExists
<1> QED
    BY <1>1, <1>2

(* What is reached stays reached.                                          *)
LEMMA LedGrows ==
    ASSUME NEW x, NEW i \in Nat, NEW n \in Nat, i <= n,
           NEW k \in i .. n, NEW m \in k .. n
    PROVE  Led(x, i, n)[k] \subseteq Led(x, i, n)[m]
<1> DEFINE f == Led(x, i, n)
           T == {d \in Nat : k + d <= n => f[k] \subseteq f[k + d]}
<1>1. 0 \in T
    OBVIOUS
<1>2. ASSUME NEW d \in Nat, d \in T
      PROVE  d + 1 \in T
    <2> SUFFICES ASSUME k + (d + 1) <= n PROVE f[k] \subseteq f[k + (d + 1)]
        OBVIOUS
    <2>1. k + (d + 1) \in i + 1 .. n /\ k + (d + 1) - 1 = k + d
        OBVIOUS
    <2>2. f[k + (d + 1)] = Further(x, f[k + d], k + (d + 1))
        <3>1. \A y \in i + 1 .. n : f[y] = Further(x, f[y - 1], y)
            BY LedSteps
        <3> QED
            BY <2>1, <3>1
    <2>3. f[k + d] \subseteq f[k + (d + 1)]
        BY <2>2 DEF Further
    <2> QED
        BY <1>2, <2>3
<1> HIDE DEF T
<1>3. m - k \in Nat /\ k + (m - k) = m
    OBVIOUS
<1>4. m - k \in T
    BY <1>1, <1>2, <1>3, SetInduction
<1> QED
    BY <1>3, <1>4 DEF T

LEMMA BetweenLed ==
    ASSUME NEW x, NEW i, NEW j
    PROVE  Between(x, i, j) <=> j \in Led(x, i, Len(x) + 3)[j]
    BY DEF Between, Led

(* Nothing stands between a position and itself.                           *)
LEMMA BetweenSelf ==
    ASSUME NEW x, Len(x) \in Nat, NEW i \in 1 .. Len(x) + 3
    PROVE  Between(x, i, i)
<1>1. i \in Nat /\ Len(x) + 3 \in Nat /\ i <= Len(x) + 3
    OBVIOUS
<1>2. i \in Led(x, i, Len(x) + 3)[i]
    BY <1>1, LedSteps
<1> QED
    BY <1>2, BetweenLed

(* One more blank or comment.                                              *)
LEMMA BetweenMore ==
    ASSUME NEW x, Len(x) \in Nat,
           NEW i \in 1 .. Len(x) + 3, NEW k \in i .. Len(x) + 3,
           NEW e \in k + 1 .. Len(x) + 3,
           Between(x, i, k), Skipped(x, k, e)
    PROVE  Between(x, i, e)
<1> DEFINE n == Len(x) + 3
           f == Led(x, i, n)
<1>1. /\ i \in Nat /\ n \in Nat /\ i <= n /\ k \in i .. n
      /\ e - 1 \in k .. n /\ e \in i + 1 .. n
    OBVIOUS
<1>2. k \in f[k]
    BY BetweenLed
<1> HIDE DEF n
<1>3. k \in f[e - 1]
    BY <1>1, <1>2, LedGrows
<1>4. f[e] = Further(x, f[e - 1], e)
    BY <1>1, LedSteps
<1> HIDE DEF f
<1>5. e \in f[e]
    BY <1>3, <1>4 DEF Further
<1> QED
    BY <1>5, BetweenLed DEF f, n

-----------------------------------------------------------------------------
(* Reading the text.                                                       *)

(* The loops that look for the end of something end, at the first place    *)
(* there is.                                                               *)
LEMMA UntilFound ==
    ASSUME Len(input) \in Nat, NEW k \in 1 .. Len(input) + 1, NEW S
    PROVE  /\ Until(k, S) \in k .. Len(input) + 1
           /\ Until(k, S) \in S \/ Until(k, S) = Len(input) + 1
           /\ \A y \in k .. Until(k, S) - 1 : y \notin S
<1> DEFINE T == {q \in k .. Len(input) + 1 : q \in S \/ q = Len(input) + 1}
<1>1. T \in SUBSET Nat /\ Len(input) + 1 \in T
    OBVIOUS
<1>2. PICK q \in T : \A y \in T : q <= y
    BY <1>1, LeastElement
<1>3. \A y \in k .. q - 1 : y \notin S
    <2> SUFFICES ASSUME NEW y \in k .. q - 1, y \in S PROVE FALSE
        OBVIOUS
    <2>1. y \in T /\ ~(q <= y)
        OBVIOUS
    <2> QED
        BY <1>2, <2>1
<1>4. \E r \in k .. Len(input) + 1 :
         /\ r \in S \/ r = Len(input) + 1
         /\ \A y \in k .. r - 1 : y \notin S
    BY <1>3
<1> QED
    BY <1>4, Zenon DEF Until

(* Characters and marks are found inside the text.                         *)
LEMMA AtInside ==
    ASSUME NEW x \in Seq(STRING), NEW k \in Int, At(x, k) # Nul
    PROVE  k \in 1 .. Len(x) /\ At(x, k) = x[k]
    BY DEF At

LEMMA BeginsOne ==
    ASSUME NEW x, NEW k \in Int, NEW c
    PROVE  Begins(x, k, <<c>>) <=> At(x, k) = c
    BY DEF Begins

LEMMA BeginsTwo ==
    ASSUME NEW x, NEW k \in Int, NEW c, NEW d
    PROVE  Begins(x, k, <<c, d>>) <=> At(x, k) = c /\ At(x, k + 1) = d
    BY DEF Begins

LEMMA MarkInside ==
    ASSUME NEW x \in Seq(STRING), NEW k \in Int,
           NEW s \in TwoLetters \cup {LineOpen, BlockOpen, BlockClose}, Begins(x, k, s)
    PROVE  k \in 1 .. Len(x) /\ k + 1 \in 1 .. Len(x)
<1>1. PICK c, d \in {"=", "!", "<", ">", "/", "*"} : s = <<c, d>>
    BY DEF TwoLetters, LineOpen, BlockOpen, BlockClose
<1>2. At(x, k) # Nul /\ At(x, k + 1) # Nul
    BY <1>1, BeginsTwo DEF Nul
<1> QED
    BY <1>2, AtInside

-----------------------------------------------------------------------------
(* The inductive invariant: every token follows on the one before it and   *)
(* ends where it should, and from the last one to p there is nothing but   *)
(* blanks and comments.                                                    *)

Kinds == {"punct", "str", "char", "keyword", "ident", "num", "eof"}
TokenSet == [kind : Kinds, loc : Nat, len : Nat]

(* The first position after the first n tokens of toks.                    *)
EndIn(toks, n) == IF n = 0 THEN 1 ELSE toks[n].loc + toks[n].len

(* Token t of text x may follow on one that ends before position e.  Only  *)
(* the token of the end may lie behind the text.                           *)
Marks == TwoLetters \cup {LineOpen, BlockOpen}
Fits(x, e, t) ==
    /\ e <= t.loc /\ 1 <= t.loc
    /\ \/ t.loc + t.len <= Len(x) + 1
       \/ t.kind = "eof" /\ t.len = 0 /\ t.loc = Len(x) + 3
    /\ Between(x, e, t.loc)
    /\ t.kind = "str" => \A k \in t.loc .. t.loc + t.len - 1 : x[k] # Quote
    /\ t.kind = "keyword" => ~Alnum(At(x, t.loc + t.len))
    /\ t.kind = "ident" => At(x, t.loc + t.len) \notin IdentChars
    /\ t.kind = "punct" =>
          t.len > 0 /\ (t.len = 1 => \A s \in Marks : ~Begins(x, t.loc, s))

Sound(x, toks) ==
    /\ toks \in Seq(TokenSet)
    /\ \A n \in 1 .. Len(toks) : Fits(x, EndIn(toks, n - 1), toks[n])

ScanInv ==
    /\ input \in Inputs
    /\ Sound(input, tokens)
    /\ status \in {"scanning", "done", "rejected", "overrun", "exhausted"}
    /\ p \in 1 .. Len(input) + 3
    /\ status = "scanning" =>
          /\ p <= Len(input) + 1 \/ p = Len(input) + 3
          /\ EndIn(tokens, Len(tokens)) <= p
          /\ Between(input, EndIn(tokens, Len(tokens)), p)
    /\ status = "done" =>
          /\ tokens # <<>>
          /\ EndIn(tokens, Len(tokens)) \in {Len(input) + 1, Len(input) + 3}

(* p has not gone behind the file.                                         *)
InFile == p <= Len(input) + 1

LEMMA TokenType ==
    ASSUME NEW kind \in Kinds, NEW k \in Nat, NEW n \in Nat
    PROVE  \E t \in TokenSet :
              t = Token(kind, k, n) /\ t.kind = kind /\ t.loc = k /\ t.len = n
<1>1. Token(kind, k, n) \in TokenSet
    BY DEF Token, TokenSet
<1> QED
    BY <1>1 DEF Token

LEMMA EndInType ==
    ASSUME NEW toks \in Seq(TokenSet), NEW n \in 0 .. Len(toks)
    PROVE  EndIn(toks, n) \in Nat
<1>1. n # 0 => toks[n] \in TokenSet
    OBVIOUS
<1> QED
    BY <1>1 DEF EndIn, TokenSet

(* One more token.                                                         *)
LEMMA OneMore ==
    ASSUME NEW x, NEW toks, Sound(x, toks), NEW t \in TokenSet,
           Fits(x, EndIn(toks, Len(toks)), t)
    PROVE  /\ Sound(x, Append(toks, t))
           /\ EndIn(Append(toks, t), Len(Append(toks, t))) = t.loc + t.len
<1> DEFINE more == Append(toks, t)
           n == Len(toks)
<1>1. /\ toks \in Seq(TokenSet) /\ n \in Nat
      /\ \A k \in 1 .. n : Fits(x, EndIn(toks, k - 1), toks[k])
    BY DEF Sound
<1>2. /\ more \in Seq(TokenSet) /\ Len(more) = n + 1
      /\ more[n + 1] = t /\ \A k \in 1 .. n : more[k] = toks[k]
    BY <1>1
<1> HIDE DEF more, n
<1>3. \A k \in 0 .. n : EndIn(more, k) = EndIn(toks, k)
    BY <1>1, <1>2 DEF EndIn
<1>4. \A k \in 1 .. n : Fits(x, EndIn(more, k - 1), more[k])
    <2>1. \A k \in 1 .. n : k - 1 \in 0 .. n
        BY <1>1
    <2> QED
        BY <1>1, <1>2, <1>3, <2>1
<1>5. Fits(x, EndIn(more, n), more[n + 1])
    BY <1>1, <1>2, <1>3 DEF n
<1>6. \A k \in 1 .. n + 1 : Fits(x, EndIn(more, k - 1), more[k])
    <2>1. \A k \in 1 .. n + 1 : k \in 1 .. n \/ (k = n + 1 /\ k - 1 = n)
        BY <1>1
    <2> QED
        BY <1>4, <1>5, <2>1
<1>7. EndIn(more, n + 1) = t.loc + t.len
    BY <1>1, <1>2 DEF EndIn
<1> QED
    BY <1>2, <1>6, <1>7 DEF Sound, more

(* A round that adds sound tokens and goes on to a place that only blanks  *)
(* and comments separate from the last one.                                *)
LEMMA AddInv ==
    ASSUME ScanInv, status = "scanning", NEW ts, NEW q \in 1 .. Len(input) + 1,
           Add(ts, q), Sound(input, tokens \o ts),
           EndIn(tokens \o ts, Len(tokens \o ts)) <= q,
           Between(input, EndIn(tokens \o ts, Len(tokens \o ts)), q)
    PROVE  ScanInv'
<1>1. /\ input \in Inputs /\ input' = input /\ Sound(input, tokens)
      /\ p \in 1 .. Len(input) + 3 /\ Len(input) \in Nat
    BY InputsAssumption DEF ScanInv, Add
<1>2. CASE tokens' = tokens \o ts /\ p' = q /\ status' = "scanning"
    BY <1>1, <1>2 DEF ScanInv
<1>3. CASE status' = "exhausted" /\ p' = p /\ tokens' = tokens
    BY <1>1, <1>3 DEF ScanInv
<1> QED
    BY <1>2, <1>3 DEF Add

(* What a round starts from.                                               *)
LEMMA RoundStart ==
    ASSUME ScanInv, status = "scanning"
    PROVE  /\ input \in Seq(STRING) /\ Len(input) \in Nat /\ Len(input) > 0
           /\ At(input, Len(input)) = Newline
           /\ \A k \in 1 .. Len(input) : input[k] # Nul
           /\ Sound(input, tokens) /\ tokens \in Seq(TokenSet)
           /\ p \in 1 .. Len(input) + 3 /\ (InFile \/ p = Len(input) + 3)
           /\ InFile => p \in 1 .. Len(input) + 1
           /\ EndIn(tokens, Len(tokens)) \in 1 .. p
           /\ Between(input, EndIn(tokens, Len(tokens)), p)
<1>1. /\ input \in Seq(STRING) /\ input # <<>> /\ input[Len(input)] = Newline
      /\ \A k \in DOMAIN input : input[k] # Nul
    BY InputsAssumption DEF ScanInv
<1>2. /\ Len(input) \in Nat /\ Len(input) > 0
      /\ DOMAIN input = 1 .. Len(input)
    BY <1>1
<1>3. At(input, Len(input)) = Newline
    BY <1>1, <1>2 DEF At
<1>4. Sound(input, tokens) /\ tokens \in Seq(TokenSet) /\ Len(tokens) \in Nat
    BY DEF ScanInv, Sound
<1>5. EndIn(tokens, Len(tokens)) \in Nat /\ EndIn(tokens, Len(tokens)) >= 1
    <2>1. EndIn(tokens, Len(tokens)) \in Nat
        BY <1>4, EndInType
    <2>2. CASE Len(tokens) = 0
        BY <2>2 DEF EndIn
    <2>3. CASE Len(tokens) # 0
        <3>1. Len(tokens) \in 1 .. Len(tokens) /\ tokens[Len(tokens)] \in TokenSet
            BY <1>4, <2>3
        <3>2. 1 <= tokens[Len(tokens)].loc
            BY <1>4, <3>1 DEF Sound, Fits
        <3> QED
            BY <2>3, <3>1, <3>2 DEF EndIn, TokenSet
    <2> QED
        BY <2>1, <2>2, <2>3
<1> QED
    BY <1>1, <1>2, <1>3, <1>4, <1>5 DEF ScanInv, InFile

-----------------------------------------------------------------------------
(* Adding tokens in one round.                                             *)

(* No token.                                                               *)
LEMMA AddNone ==
    ASSUME ScanInv, status = "scanning", InFile, NEW q \in p + 1 .. Len(input) + 1,
           Add(<<>>, q), Skipped(input, p, q)
    PROVE  ScanInv'
<1>1. /\ Sound(input, tokens) /\ tokens \in Seq(TokenSet)
      /\ Len(input) \in Nat /\ p \in 1 .. Len(input) + 1
      /\ EndIn(tokens, Len(tokens)) \in 1 .. p
      /\ Between(input, EndIn(tokens, Len(tokens)), p)
    BY RoundStart
<1>2. tokens \o <<>> = tokens
    BY <1>1
<1>3. Between(input, EndIn(tokens, Len(tokens)), q)
    BY <1>1, BetweenMore
<1>4. EndIn(tokens, Len(tokens)) <= q /\ q \in 1 .. Len(input) + 1
    BY <1>1
<1> QED
    BY <1>1, <1>2, <1>3, <1>4, AddInv

(* One token, at p.                                                        *)
LEMMA AddOne ==
    ASSUME ScanInv, status = "scanning", InFile, NEW t \in TokenSet,
           t.loc = p, Add(<<t>>, p + t.len), Fits(input, p, t)
    PROVE  ScanInv'
<1>1. /\ Sound(input, tokens) /\ tokens \in Seq(TokenSet)
      /\ Len(input) \in Nat /\ p \in 1 .. Len(input) + 1
      /\ EndIn(tokens, Len(tokens)) \in 1 .. p
      /\ Between(input, EndIn(tokens, Len(tokens)), p)
    BY RoundStart
<1>2. tokens \o <<t>> = Append(tokens, t)
    BY <1>1
<1>3. Fits(input, EndIn(tokens, Len(tokens)), t)
    BY <1>1 DEF Fits
<1>4. /\ Sound(input, tokens \o <<t>>)
      /\ EndIn(tokens \o <<t>>, Len(tokens \o <<t>>)) = p + t.len
    BY <1>1, <1>2, <1>3, OneMore
<1>5. p + t.len \in 1 .. Len(input) + 1
    BY <1>1 DEF Fits, TokenSet
<1>6. Between(input, p + t.len, p + t.len)
    BY <1>1, <1>5, BetweenSelf
<1>7. /\ EndIn(tokens \o <<t>>, Len(tokens \o <<t>>)) <= p + t.len
      /\ Between(input, EndIn(tokens \o <<t>>, Len(tokens \o <<t>>)), p + t.len)
    BY <1>4, <1>5, <1>6
<1> QED
    BY <1>4, <1>5, <1>7, AddInv

(* The text between two quotes, each of them a token.                      *)
LEMMA AddQuoted ==
    ASSUME ScanInv, status = "scanning", InFile, NEW kind \in {"str", "char"},
           NEW q \in p + 1 .. Len(input), Quoted(kind, q),
           At(input, p) \in {Quote, Tick}, At(input, q) \in {Quote, Tick},
           kind = "str" => \A k \in p + 1 .. q - 1 : input[k] # Quote
    PROVE  ScanInv'
<1> DEFINE a == Token("punct", p, 1)
           b == Token(kind, p + 1, q - p - 1)
           c == Token("punct", q, 1)
           one == Append(tokens, a)
           two == Append(one, b)
           all == Append(two, c)
<1>1. /\ Sound(input, tokens) /\ tokens \in Seq(TokenSet)
      /\ Len(input) \in Nat /\ p \in 1 .. Len(input) + 1
      /\ EndIn(tokens, Len(tokens)) \in 1 .. p
      /\ Between(input, EndIn(tokens, Len(tokens)), p)
    BY RoundStart
<1>2. /\ a \in TokenSet /\ a.kind = "punct" /\ a.loc = p /\ a.len = 1
      /\ b \in TokenSet /\ b.kind = kind /\ b.loc = p + 1 /\ b.len = q - p - 1
      /\ c \in TokenSet /\ c.kind = "punct" /\ c.loc = q /\ c.len = 1
    BY <1>1 DEF Token, TokenSet, Kinds
<1>3. p + 1 + (q - p - 1) = q /\ p + 1 \in 1 .. Len(input) + 1 /\ q \in 1 .. Len(input) + 1
      /\ q + 1 \in 1 .. Len(input) + 1
    BY <1>1
<1>4. \A k \in 1 .. Len(input) + 1 : Between(input, k, k)
    BY <1>1, BetweenSelf
<1>5. \A k \in {p, q} : \A s \in Marks : ~Begins(input, k, s)
    <2> SUFFICES ASSUME NEW k \in {p, q}, NEW s \in Marks, Begins(input, k, s) PROVE FALSE
        OBVIOUS
    <2>1. PICK d, e \in {"=", "!", "<", ">", "/", "*"} : s = <<d, e>>
        BY DEF Marks, TwoLetters, LineOpen, BlockOpen
    <2>2. At(input, k) = d
        BY <1>1, <2>1, BeginsTwo
    <2> QED
        BY <2>1, <2>2 DEF Quote, Tick
<1> HIDE DEF a, b, c
<1>6. Fits(input, EndIn(tokens, Len(tokens)), a)
    BY <1>1, <1>2, <1>3, <1>5 DEF Fits
<1>7. Sound(input, one) /\ EndIn(one, Len(one)) = p + 1
    BY <1>1, <1>2, <1>6, OneMore
<1>8. Fits(input, EndIn(one, Len(one)), b)
    BY <1>1, <1>2, <1>3, <1>4, <1>7 DEF Fits
<1> HIDE DEF one
<1>9. Sound(input, two) /\ EndIn(two, Len(two)) = q
    BY <1>2, <1>3, <1>7, <1>8, OneMore
<1>10. Fits(input, EndIn(two, Len(two)), c)
    BY <1>1, <1>2, <1>3, <1>4, <1>5, <1>9 DEF Fits
<1> HIDE DEF two
<1>11. Sound(input, all) /\ EndIn(all, Len(all)) = q + 1
    BY <1>2, <1>9, <1>10, OneMore
<1>12. tokens \o <<a, b, c>> = all
    BY <1>1, <1>2 DEF all, two, one
<1> HIDE DEF all
<1>13. Add(<<a, b, c>>, q + 1)
    BY DEF Quoted, a, b, c
<1>14. EndIn(all, Len(all)) <= q + 1 /\ Between(input, EndIn(all, Len(all)), q + 1)
    BY <1>3, <1>4, <1>11
<1> QED
    BY <1>3, <1>11, <1>12, <1>13, <1>14, AddInv

-----------------------------------------------------------------------------
(* One lemma per action.                                                   *)

LEMMA InitScan == Init => ScanInv
<1> SUFFICES ASSUME Init PROVE ScanInv
    OBVIOUS
<1>1. /\ input \in Inputs /\ p = 1 /\ tokens = <<>> /\ status = "scanning"
    BY DEF Init, Start
<1>2. Len(input) \in Nat
    BY <1>1, InputsAssumption
<1>3. <<>> \in Seq(TokenSet) /\ Len(<<>>) = 0
    OBVIOUS
<1>4. Sound(input, <<>>) /\ EndIn(<<>>, Len(<<>>)) = 1
    BY <1>3 DEF Sound, EndIn
<1>5. Between(input, 1, 1)
    BY <1>2, BetweenSelf
<1> QED
    BY <1>1, <1>2, <1>4, <1>5 DEF ScanInv

LEMMA SkipBlankInv ==
    ASSUME ScanInv, InFile, SkipBlank
    PROVE  ScanInv'
<1>1. status = "scanning" /\ At(input, p) \in Blank /\ Add(<<>>, p + 1)
    BY DEF SkipBlank, Scans, Finds, Tests, Char
<1>2. /\ input \in Seq(STRING) /\ p \in 1 .. Len(input) + 1
    BY <1>1, RoundStart
<1>3. p \in 1 .. Len(input)
    <2>1. At(input, p) # Nul
        BY <1>1 DEF Blank, Nul, Newline, VerticalTab
    <2> QED
        BY <1>2, <2>1, AtInside
<1>4. p + 1 \in p + 1 .. Len(input) + 1 /\ Skipped(input, p, p + 1)
    BY <1>1, <1>2, <1>3 DEF Skipped
<1> QED
    BY <1>1, <1>4, AddNone

LEMMA SkipLineInv ==
    ASSUME ScanInv, InFile, SkipLine
    PROVE  ScanInv'
<1> DEFINE q == Until(p + 2, Places(<<Newline>>))
<1>1. status = "scanning" /\ Begins(input, p, LineOpen) /\ Add(<<>>, q)
    BY DEF SkipLine, Scans, Finds, Tests, StartsWith
<1>2. /\ input \in Seq(STRING) /\ p \in 1 .. Len(input) + 1 /\ Len(input) \in Nat
      /\ At(input, Len(input)) = Newline
    BY <1>1, RoundStart
<1>3. p \in 1 .. Len(input) /\ p + 1 \in 1 .. Len(input)
    BY <1>1, <1>2, MarkInside
<1>4. p + 1 # Len(input)
    BY <1>1, <1>2, BeginsTwo DEF LineOpen, Newline
<1>5. p + 2 \in 1 .. Len(input) + 1 /\ Len(input) \in p + 2 .. Len(input)
    BY <1>2, <1>3, <1>4
<1>6. \A k \in 1 .. Len(input) : k \in Places(<<Newline>>) <=> At(input, k) = Newline
    BY <1>2, BeginsOne DEF Places, StartsWith
<1>7. /\ q \in p + 2 .. Len(input) + 1
      /\ q \in Places(<<Newline>>) \/ q = Len(input) + 1
      /\ \A k \in p + 2 .. q - 1 : k \notin Places(<<Newline>>)
    BY <1>2, <1>5, UntilFound
<1> HIDE DEF q
<1>8. Len(input) \in Places(<<Newline>>)
    BY <1>2, <1>3, <1>6
<1>9. q # Len(input) + 1
    BY <1>5, <1>7, <1>8
<1>10. At(input, q) = Newline
    BY <1>3, <1>6, <1>7, <1>9
<1>11. \A k \in p + 2 .. q - 1 : At(input, k) # Newline
    BY <1>3, <1>6, <1>7
<1>12. q \in p + 1 .. Len(input) + 1 /\ Skipped(input, p, q)
    BY <1>1, <1>3, <1>7, <1>10, <1>11 DEF Skipped
<1> QED
    BY <1>1, <1>12, AddNone

LEMMA SkipBlockInv ==
    ASSUME ScanInv, InFile, SkipBlock
    PROVE  ScanInv'
<1> DEFINE q == Until(p + 2, Places(BlockClose))
<1>1. /\ status = "scanning" /\ Begins(input, p, BlockOpen)
      /\ p' = q + 2
      /\ status' \in IF q > Len(input) THEN {status, "overrun"} ELSE {status}
      /\ input' = input /\ tokens' = tokens
    BY DEF SkipBlock, Scans, Finds, Tests, StartsWith, PastClose
<1>2. /\ input \in Seq(STRING) /\ p \in 1 .. Len(input) + 1 /\ Len(input) \in Nat
      /\ Sound(input, tokens)
      /\ EndIn(tokens, Len(tokens)) \in 1 .. p
      /\ Between(input, EndIn(tokens, Len(tokens)), p)
    BY <1>1, RoundStart
<1>3. p \in 1 .. Len(input) /\ p + 1 \in 1 .. Len(input) /\ p + 2 \in 1 .. Len(input) + 1
    BY <1>1, <1>2, MarkInside
<1>4. /\ q \in p + 2 .. Len(input) + 1
      /\ q \in Places(BlockClose) \/ q = Len(input) + 1
      /\ \A k \in p + 2 .. q - 1 : k \notin Places(BlockClose)
    BY <1>2, <1>3, UntilFound
<1> HIDE DEF q
<1>5. CASE q > Len(input)
    <2>1. q = Len(input) + 1 /\ p' = Len(input) + 3 /\ status' \in {"scanning", "overrun"}
        BY <1>1, <1>2, <1>4, <1>5
    <2>2. \A k \in p + 2 .. Len(input) : ~Begins(input, k, BlockClose)
        BY <1>2, <1>3, <1>4, <2>1 DEF Places, StartsWith
    <2>3. PICK e : e = Len(input) + 3
        OBVIOUS
    <2>4. Skipped(input, p, e)
        BY <1>1, <2>2, <2>3 DEF Skipped
    <2>5. Between(input, EndIn(tokens, Len(tokens)), e)
        <3>1. e \in p + 1 .. Len(input) + 3
            BY <1>2, <2>3
        <3> QED
            BY <1>2, <2>3, <2>4, <3>1, BetweenMore
    <2> QED
        BY <1>1, <1>2, <2>1, <2>3, <2>5 DEF ScanInv
<1>6. CASE ~(q > Len(input))
    <2>1. q \in Places(BlockClose) /\ q \in p + 2 .. Len(input)
        BY <1>3, <1>4, <1>6
    <2>2. Begins(input, q, BlockClose)
        BY <2>1 DEF Places, StartsWith
    <2>3. q + 1 \in 1 .. Len(input)
        BY <1>2, <2>1, <2>2, MarkInside
    <2>4. \A k \in p + 2 .. q - 1 : ~Begins(input, k, BlockClose)
        BY <1>2, <1>3, <1>4, <2>1 DEF Places, StartsWith
    <2>5. PICK e : e = q + 2
        OBVIOUS
    <2>6. /\ e \in p + 1 .. Len(input) + 1 /\ e \in 1 .. Len(input) + 3
          /\ e >= p + 4 /\ e - 2 = q /\ e - 3 = q - 1
        BY <1>3, <2>1, <2>3, <2>5
    <2>7. Between(input, EndIn(tokens, Len(tokens)), e)
        <3>1. /\ Begins(input, e - 2, BlockClose)
              /\ \A k \in p + 2 .. e - 3 : ~Begins(input, k, BlockClose)
            BY <2>2, <2>4, <2>6
        <3>2. Skipped(input, p, e)
            BY <1>1, <2>6, <3>1 DEF Skipped
        <3> QED
            BY <1>2, <2>6, <3>2, BetweenMore
    <2>8. status' = "scanning"
        BY <1>1, <1>6
    <2> QED
        BY <1>1, <1>2, <2>5, <2>6, <2>7, <2>8 DEF ScanInv
<1> QED
    BY <1>5, <1>6

LEMMA OperatorInv ==
    ASSUME ScanInv, InFile, Operator
    PROVE  ScanInv'
<1> DEFINE t == Token("punct", p, 2)
<1>1. /\ status = "scanning" /\ Add(<<t>>, p + 2)
      /\ \E s \in TwoLetters : Begins(input, p, s)
    BY DEF Operator, Scans, Finds, Tests, StartsWith
<1>2. /\ input \in Seq(STRING) /\ p \in 1 .. Len(input) + 1 /\ Len(input) \in Nat
    BY <1>1, RoundStart
<1>3. p + 1 \in 1 .. Len(input)
    BY <1>1, <1>2, MarkInside
<1>4. t \in TokenSet /\ t.kind = "punct" /\ t.loc = p /\ t.len = 2
    BY <1>2 DEF Token, TokenSet, Kinds
<1> HIDE DEF t
<1>5. Fits(input, p, t)
    <2>1. Between(input, p, p)
        BY <1>2, BetweenSelf
    <2> QED
        BY <1>2, <1>3, <1>4, <2>1 DEF Fits
<1>6. Add(<<t>>, p + t.len)
    BY <1>1, <1>4
<1> QED
    BY <1>1, <1>4, <1>5, <1>6, AddOne

LEMMA PunctuatorInv ==
    ASSUME ScanInv, InFile, Punctuator
    PROVE  ScanInv'
<1> DEFINE t == Token("punct", p, 1)
<1>1. /\ status = "scanning" /\ Add(<<t>>, p + 1) /\ At(input, p) \in OneLetter
      /\ \A s \in Marks : ~Begins(input, p, s)
    BY DEF Punctuator, Scans, Finds, Tests, StartsWith, Char, Marks
<1>2. /\ input \in Seq(STRING) /\ p \in 1 .. Len(input) + 1 /\ Len(input) \in Nat
    BY <1>1, RoundStart
<1>3. p \in 1 .. Len(input)
    <2>1. At(input, p) # Nul
        BY <1>1 DEF OneLetter, Nul
    <2> QED
        BY <1>2, <2>1, AtInside
<1>4. t \in TokenSet /\ t.kind = "punct" /\ t.loc = p /\ t.len = 1
    BY <1>2 DEF Token, TokenSet, Kinds
<1> HIDE DEF t
<1>5. Fits(input, p, t)
    <2>1. Between(input, p, p)
        BY <1>2, BetweenSelf
    <2> QED
        BY <1>1, <1>2, <1>3, <1>4, <2>1 DEF Fits
<1>6. Add(<<t>>, p + t.len)
    BY <1>1, <1>4
<1> QED
    BY <1>1, <1>4, <1>5, <1>6, AddOne

(* A rejected file.                                                        *)
LEMMA RejectInv ==
    ASSUME ScanInv, Reject
    PROVE  ScanInv'
    BY DEF ScanInv, Reject

LEMMA StringInv ==
    ASSUME ScanInv, InFile, String
    PROVE  ScanInv'
<1> DEFINE q == Until(p + 1, Places(<<Quote>>))
<1>1. /\ status = "scanning" /\ At(input, p) = Quote
      /\ IF At(input, q) = Quote THEN Quoted("str", q) ELSE Reject
    BY DEF String, Scans, Finds, Tests, Char
<1>2. /\ input \in Seq(STRING) /\ p \in 1 .. Len(input) + 1 /\ Len(input) \in Nat
    BY <1>1, RoundStart
<1>3. p \in 1 .. Len(input)
    <2>1. At(input, p) # Nul
        BY <1>1 DEF Quote, Nul
    <2> QED
        BY <1>2, <2>1, AtInside
<1>4. p + 1 \in 1 .. Len(input) + 1
    BY <1>3
<1>5. /\ q \in p + 1 .. Len(input) + 1
      /\ \A k \in p + 1 .. q - 1 : k \notin Places(<<Quote>>)
    BY <1>2, <1>4, UntilFound
<1> HIDE DEF q
<1>6. CASE At(input, q) = Quote
    <2>1. q \in p + 1 .. Len(input)
        <3>1. At(input, q) # Nul
            BY <1>6 DEF Quote, Nul
        <3>2. q \in Int
            BY <1>2, <1>5
        <3> QED
            BY <1>2, <1>3, <1>5, <3>1, <3>2, AtInside
    <2>2. \A k \in 1 .. Len(input) : k \in Places(<<Quote>>) <=> At(input, k) = Quote
        BY <1>2, BeginsOne DEF Places, StartsWith
    <2>3. \A k \in p + 1 .. q - 1 : input[k] # Quote
        BY <1>2, <1>3, <1>5, <2>1, <2>2 DEF At
    <2> QED
        BY <1>1, <1>6, <2>1, <2>3, AddQuoted
<1>7. CASE At(input, q) # Quote
    BY <1>1, <1>7, RejectInv
<1> QED
    BY <1>6, <1>7

LEMMA CharacterInv ==
    ASSUME ScanInv, InFile, Character
    PROVE  ScanInv'
<1>1. /\ status = "scanning" /\ At(input, p) = Tick
      /\ IF At(input, p + 2) = Tick THEN Quoted("char", p + 2) ELSE Reject
    BY DEF Character, Scans, Finds, Tests, Char
<1>2. /\ input \in Seq(STRING) /\ p \in 1 .. Len(input) + 1 /\ Len(input) \in Nat
    BY <1>1, RoundStart
<1>3. CASE At(input, p + 2) = Tick
    <2>1. p + 2 \in p + 1 .. Len(input)
        <3>1. At(input, p + 2) # Nul /\ p + 2 \in Int
            BY <1>2, <1>3 DEF Tick, Nul
        <3> QED
            BY <1>2, <3>1, AtInside
    <2> QED
        BY <1>1, <1>3, <2>1, AddQuoted
<1>4. CASE At(input, p + 2) # Tick
    BY <1>1, <1>4, RejectInv
<1> QED
    BY <1>3, <1>4

(* The words are of characters.                                            *)
LEMMA KeywordShape ==
    ASSUME NEW w \in Keywords
    PROVE  /\ Len(w) \in Nat \ {0} /\ Len(w) \in DOMAIN w /\ w[Len(w)] # Nul
           /\ 1 \in DOMAIN w /\ w[1] # Nul
<1>1. CASE w = <<"i", "n", "t">>
    BY <1>1 DEF Nul
<1>2. CASE w = <<"c", "h", "a", "r">>
    BY <1>2 DEF Nul
<1>3. CASE w = <<"s", "i", "z", "e", "o", "f">>
    BY <1>3 DEF Nul
<1>4. CASE w = <<"r", "e", "t", "u", "r", "n">>
    BY <1>4 DEF Nul
<1>5. CASE w = <<"i", "f">>
    BY <1>5 DEF Nul
<1>6. CASE w = <<"e", "l", "s", "e">>
    BY <1>6 DEF Nul
<1>7. CASE w = <<"f", "o", "r">>
    BY <1>7 DEF Nul
<1>8. CASE w = <<"w", "h", "i", "l", "e">>
    BY <1>8 DEF Nul
<1> QED
    BY <1>1, <1>2, <1>3, <1>4, <1>5, <1>6, <1>7, <1>8 DEF Keywords

LEMMA KeywordInv ==
    ASSUME ScanInv, InFile, Keyword
    PROVE  ScanInv'
<1>1. /\ status = "scanning"
      /\ \E w \in Keywords :
            KeywordHere(w) /\ Add(<<Token("keyword", p, Len(w))>>, p + Len(w))
    BY DEF Keyword, Scans
<1>2. /\ input \in Seq(STRING) /\ p \in 1 .. Len(input) + 1 /\ Len(input) \in Nat
    BY <1>1, RoundStart
<1>3. PICK w \in Keywords :
         KeywordHere(w) /\ Add(<<Token("keyword", p, Len(w))>>, p + Len(w))
    BY <1>1
<1>4. Len(w) \in Nat \ {0} /\ Len(w) \in DOMAIN w /\ w[Len(w)] # Nul
    BY KeywordShape
<1>5. /\ At(input, p + Len(w) - 1) = w[Len(w)]
      /\ ~Alnum(At(input, p + Len(w)))
    BY <1>3, <1>4 DEF KeywordHere, StartsWith, Begins, Char
<1>6. p + Len(w) - 1 \in 1 .. Len(input)
    <2>1. At(input, p + Len(w) - 1) # Nul /\ p + Len(w) - 1 \in Int
        BY <1>2, <1>4, <1>5
    <2> QED
        BY <1>2, <2>1, AtInside
<1>7. PICK t \in TokenSet : /\ t = Token("keyword", p, Len(w))
                            /\ t.kind = "keyword" /\ t.loc = p /\ t.len = Len(w)
    <2>1. "keyword" \in Kinds /\ p \in Nat /\ Len(w) \in Nat
        BY <1>2, <1>4 DEF Kinds
    <2> QED
        BY <2>1, TokenType
<1>8. Fits(input, p, t)
    <2>1. Between(input, p, p)
        BY <1>2, BetweenSelf
    <2>2. p + Len(w) <= Len(input) + 1
        BY <1>2, <1>4, <1>6
    <2>3. ~Alnum(At(input, t.loc + t.len))
        BY <1>5, <1>7
    <2> QED
        BY <1>2, <1>7, <2>1, <2>2, <2>3 DEF Fits
<1>9. Add(<<t>>, p + t.len)
    BY <1>3, <1>7
<1> QED
    BY <1>1, <1>7, <1>8, <1>9, AddOne

(* A name or a number goes up to the first character that is not of it.    *)
LEMMA RunEnds ==
    ASSUME ScanInv, status = "scanning", InFile, NEW C, Nul \notin C
    PROVE  /\ Until(p, Outside(C)) \in p .. Len(input) + 1
           /\ At(input, Until(p, Outside(C))) \notin C
<1> DEFINE q == Until(p, Outside(C))
<1>1. /\ input \in Seq(STRING) /\ p \in 1 .. Len(input) + 1 /\ Len(input) \in Nat
    BY RoundStart
<1>2. q \in p .. Len(input) + 1 /\ (q \in Outside(C) \/ q = Len(input) + 1)
    BY <1>1, UntilFound
<1> HIDE DEF q
<1>3. q \in Outside(C) => At(input, q) \notin C
    BY DEF Outside, At
<1>4. q = Len(input) + 1 => At(input, q) \notin C
    BY <1>1 DEF At
<1> QED
    BY <1>2, <1>3, <1>4 DEF q

LEMMA RunInv ==
    ASSUME ScanInv, status = "scanning", InFile,
           NEW kind \in {"ident", "num"}, NEW C, Nul \notin C,
           kind = "ident" => C = IdentChars,
           Add(<<Token(kind, p, Until(p, Outside(C)) - p)>>, Until(p, Outside(C)))
    PROVE  ScanInv'
<1>1. /\ input \in Seq(STRING) /\ p \in 1 .. Len(input) + 1 /\ Len(input) \in Nat
    BY RoundStart
<1>2. PICK q : q = Until(p, Outside(C))
    OBVIOUS
<1>3. q \in p .. Len(input) + 1 /\ At(input, q) \notin C
    BY <1>2, RunEnds
<1>4. q - p \in Nat /\ p + (q - p) = q
    BY <1>1, <1>3
<1>5. PICK t \in TokenSet : /\ t = Token(kind, p, q - p)
                            /\ t.kind = kind /\ t.loc = p /\ t.len = q - p
    <2>1. kind \in Kinds /\ p \in Nat /\ q - p \in Nat
        BY <1>1, <1>4 DEF Kinds
    <2> QED
        BY <2>1, TokenType
<1>6. t.loc + t.len = q
    BY <1>4, <1>5
<1>7. Fits(input, p, t)
    <2>1. Between(input, p, p)
        BY <1>1, BetweenSelf
    <2>2. kind = "ident" => At(input, t.loc + t.len) \notin IdentChars
        BY <1>3, <1>6
    <2> QED
        BY <1>1, <1>3, <1>5, <1>6, <2>1, <2>2 DEF Fits
<1>8. Add(<<t>>, p + t.len)
    BY <1>2, <1>5, <1>6
<1> QED
    BY <1>5, <1>7, <1>8, AddOne

LEMMA IdentifierInv ==
    ASSUME ScanInv, InFile, Identifier
    PROVE  ScanInv'
<1>1. /\ status = "scanning"
      /\ Add(<<Token("ident", p, Until(p, Outside(IdentChars)) - p)>>,
             Until(p, Outside(IdentChars)))
    BY DEF Identifier, Scans
<1>2. Nul \notin IdentChars
    BY DEF Nul, IdentChars, Lower, Digit
<1> QED
    BY <1>1, <1>2, RunInv

LEMMA NumberInv ==
    ASSUME ScanInv, InFile, Number
    PROVE  ScanInv'
<1>1. /\ status = "scanning"
      /\ Add(<<Token("num", p, Until(p, Outside(Digit)) - p)>>, Until(p, Outside(Digit)))
    BY DEF Number, Scans
<1>2. Nul \notin Digit
    BY DEF Nul, Digit
<1> QED
    BY <1>1, <1>2, RunInv

LEMMA EndInv ==
    ASSUME ScanInv, End
    PROVE  ScanInv'
<1>1. /\ status = "scanning" /\ At(input, p) = Nul /\ input' = input /\ p' = p
      /\ tokens' = Append(tokens, Token("eof", p, 0)) /\ status' = "done"
    BY DEF End, Char
<1>2. /\ input \in Seq(STRING) /\ p \in 1 .. Len(input) + 3 /\ Len(input) \in Nat
      /\ InFile \/ p = Len(input) + 3
      /\ \A k \in 1 .. Len(input) : input[k] # Nul
      /\ Sound(input, tokens) /\ tokens \in Seq(TokenSet)
      /\ EndIn(tokens, Len(tokens)) \in 1 .. p
      /\ Between(input, EndIn(tokens, Len(tokens)), p)
    BY <1>1, RoundStart
<1>3. p = Len(input) + 1 \/ p = Len(input) + 3
    BY <1>1, <1>2 DEF At, InFile
<1>4. PICK t \in TokenSet : /\ t = Token("eof", p, 0)
                            /\ t.kind = "eof" /\ t.loc = p /\ t.len = 0
    <2>1. "eof" \in Kinds /\ p \in Nat /\ 0 \in Nat
        BY <1>2 DEF Kinds
    <2> QED
        BY <2>1, TokenType
<1>5. Fits(input, EndIn(tokens, Len(tokens)), t)
    BY <1>2, <1>3, <1>4 DEF Fits
<1>6. Sound(input, tokens') /\ EndIn(tokens', Len(tokens')) = p
    BY <1>1, <1>2, <1>4, <1>5, OneMore
<1>7. tokens' # <<>>
    BY <1>1, <1>2
<1> QED
    BY <1>1, <1>2, <1>3, <1>6, <1>7 DEF ScanInv

(* Behind the file there is nothing that a round could find but its end.   *)
LEMMA Found ==
    ASSUME ScanInv, Round, ~End
    PROVE  status = "scanning" /\ InFile
<1>1. status = "scanning"
    BY DEF Round, SkipBlank, SkipLine, SkipBlock, Operator, Punctuator, String, Character,
           Keyword, Identifier, Number, Invalid, Scans
<1>2. input \in Seq(STRING) /\ p \in Int /\ Len(input) \in Nat
    BY <1>1, RoundStart
<1>3. At(input, p) # Nul => InFile
    BY <1>2, AtInside DEF InFile
<1>4. CASE SkipBlank
    <2>1. At(input, p) # Nul
        BY <1>4 DEF SkipBlank, Scans, Finds, Tests, Char, Blank, Newline, VerticalTab, Nul
    <2> QED
        BY <1>1, <1>3, <2>1
<1>5. CASE SkipLine \/ SkipBlock \/ Operator
    <2>1. \E s \in TwoLetters \cup {LineOpen, BlockOpen, BlockClose} : Begins(input, p, s)
        BY <1>5 DEF SkipLine, SkipBlock, Operator, Scans, Finds, Tests, StartsWith
    <2> QED
        BY <1>1, <1>2, <2>1, MarkInside DEF InFile
<1>6. CASE Punctuator \/ String \/ Character
    <2>1. Char(p) \in OneLetter \/ Char(p) = Quote \/ Char(p) = Tick
        BY <1>6 DEF Punctuator, String, Character, Scans, Finds, Tests
    <2>2. At(input, p) # Nul
        BY <2>1 DEF Char, OneLetter, Quote, Tick, Nul
    <2> QED
        BY <1>1, <1>3, <2>2
<1>7. CASE Keyword
    <2>1. PICK w \in Keywords : StartsWith(p, w)
        BY <1>7 DEF Keyword, KeywordHere
    <2>2. 1 \in DOMAIN w /\ w[1] # Nul
        BY KeywordShape
    <2>3. At(input, p + 1 - 1) = w[1] /\ p + 1 - 1 = p
        BY <1>2, <2>1, <2>2 DEF StartsWith, Begins
    <2> QED
        BY <1>1, <1>3, <2>2, <2>3
<1>8. CASE Identifier \/ Number
    <2>1. Char(p) \in Lower \cup Upper \cup {"_"} \cup Digit
        BY <1>8 DEF Identifier, Number, Scans, Finds, Tests
    <2>2. At(input, p) # Nul
        BY <2>1 DEF Char, Lower, Upper, Digit, Nul
    <2> QED
        BY <1>1, <1>3, <2>2
<1>9. CASE Invalid
    BY <1>1, <1>3, <1>9 DEF Invalid, Char
<1> QED
    BY <1>4, <1>5, <1>6, <1>7, <1>8, <1>9 DEF Round

(* The invariant is inductive.                                             *)
LEMMA NextScan == ScanInv /\ [Next]_vars => ScanInv'
<1> SUFFICES ASSUME ScanInv, [Next]_vars PROVE ScanInv'
    OBVIOUS
<1>1. CASE Round
    <2>1. CASE Invalid
        BY <2>1, RejectInv DEF Invalid
    <2>2. CASE End
        BY <2>2, EndInv
    <2>3. ~End => InFile
        BY <1>1, Found
    <2> QED
        BY <1>1, <2>1, <2>2, <2>3, SkipBlankInv, SkipLineInv, SkipBlockInv, OperatorInv, PunctuatorInv,
           StringInv, CharacterInv, KeywordInv, IdentifierInv, NumberInv
        DEF Round
<1>2. CASE UNCHANGED vars
    BY <1>2 DEF vars, ScanInv
<1> QED
    BY <1>1, <1>2 DEF Next, Stopped

LEMMA SpecScan == Spec => []ScanInv
    BY InitScan, NextScan, PTL DEF Spec

-----------------------------------------------------------------------------
(* What the invariant says of each token.                                  *)
LEMMA TokenFacts ==
    ASSUME ScanInv, NEW n \in DOMAIN tokens
    PROVE  /\ Len(input) \in Nat /\ Len(tokens) \in Nat /\ n \in 1 .. Len(tokens)
           /\ tokens[n].kind \in Kinds /\ tokens[n].loc \in Nat /\ tokens[n].len \in Nat
           /\ EndOf(n) = tokens[n].loc + tokens[n].len
           /\ EndOf(n - 1) = EndIn(tokens, n - 1)
           /\ Fits(input, EndIn(tokens, n - 1), tokens[n])
<1>1. tokens \in Seq(TokenSet) /\ input \in Inputs
    BY DEF ScanInv, Sound
<1>2. n \in 1 .. Len(tokens) /\ Len(tokens) \in Nat
    BY <1>1
<1>3. tokens[n] \in TokenSet
    BY <1>1
<1>4. EndOf(n) = tokens[n].loc + tokens[n].len
    BY <1>2 DEF EndOf
<1>5. EndOf(n - 1) = EndIn(tokens, n - 1)
    BY DEF EndOf, EndIn
<1>6. Fits(input, EndIn(tokens, n - 1), tokens[n])
    BY <1>2 DEF ScanInv, Sound
<1>7. Len(input) \in Nat
    BY <1>1, InputsAssumption
<1> QED
    BY <1>2, <1>3, <1>4, <1>5, <1>6, <1>7 DEF TokenSet

(* The pointer and the tokens stay inside the file, but for what a block   *)
(* comment without an end takes past the NUL, the pointer and the token of *)
(* the end.                                                                *)
THEOREM TokensTyped == Spec => []TypeOK
<1>1. ScanInv => TypeOK
    <2> SUFFICES ASSUME ScanInv PROVE TypeOK
        OBVIOUS
    <2>1. ASSUME NEW n \in DOMAIN tokens
          PROVE  /\ tokens[n].loc \in 1 .. Len(input) + 3
                 /\ tokens[n].len \in 0 .. Len(input) + 3 - tokens[n].loc
                 /\ tokens[n].kind \in Kinds
        BY TokenFacts DEF Fits
    <2> QED
        BY <2>1 DEF TypeOK, ScanInv, Kinds
<1> QED
    BY <1>1, SpecScan, PTL

(* The token of the end of the file is the last, and comes when tokenize   *)
(* is done.                                                                *)
LEMMA AddKeepsEof ==
    ASSUME ScanInv, EofIsLast, status = "scanning", NEW ts \in Seq(TokenSet), NEW q,
           \A n \in 1 .. Len(ts) : ts[n].kind # "eof", Add(ts, q)
    PROVE  EofIsLast'
<1>1. CASE status' = "exhausted" /\ tokens' = tokens
    BY <1>1 DEF EofIsLast
<1>2. CASE status' = status /\ tokens' = tokens \o ts
    <2>1. /\ tokens \in Seq(TokenSet) /\ Len(tokens') = Len(tokens) + Len(ts)
          /\ \A n \in 1 .. Len(tokens') :
                tokens'[n] = IF n <= Len(tokens) THEN tokens[n] ELSE ts[n - Len(tokens)]
        BY <1>2 DEF ScanInv, Sound
    <2>2. DOMAIN tokens' = 1 .. Len(tokens') /\ DOMAIN tokens = 1 .. Len(tokens)
        BY <1>2, <2>1
    <2>3. ASSUME NEW n \in 1 .. Len(tokens') PROVE tokens'[n].kind # "eof"
        <3>1. CASE n <= Len(tokens)
            BY <2>1, <2>2, <3>1 DEF EofIsLast
        <3>2. CASE ~(n <= Len(tokens))
            BY <2>1, <3>2
        <3> QED
            BY <3>1, <3>2
    <2> QED
        BY <1>2, <2>2, <2>3 DEF EofIsLast
<1> QED
    BY <1>1, <1>2 DEF Add

LEMMA AddOneKeepsEof ==
    ASSUME ScanInv, EofIsLast, status = "scanning", NEW kind \in Kinds \ {"eof"},
           NEW k \in Nat, NEW n \in Nat, NEW q, Add(<<Token(kind, k, n)>>, q)
    PROVE  EofIsLast'
<1>1. PICK t \in TokenSet : t = Token(kind, k, n) /\ t.kind = kind
    BY TokenType
<1>2. PICK ts : ts = <<t>>
    OBVIOUS
<1>3. ts \in Seq(TokenSet) /\ Len(ts) = 1 /\ ts[1] = t
    BY <1>2
<1>4. \A m \in 1 .. Len(ts) : ts[m].kind # "eof"
    BY <1>1, <1>3
<1> QED
    BY <1>1, <1>2, <1>3, <1>4, AddKeepsEof

LEMMA QuotedKeepsEof ==
    ASSUME ScanInv, EofIsLast, status = "scanning", NEW kind \in {"str", "char"}, NEW q \in Nat,
           q >= p + 1, Quoted(kind, q)
    PROVE  EofIsLast'
<1>1. p \in Nat /\ p + 1 \in Nat /\ q - p - 1 \in Nat
    BY RoundStart
<1>2. PICK t \in TokenSet : t = Token("punct", p, 1) /\ t.kind = "punct"
    BY <1>1, TokenType DEF Kinds
<1>3. PICK u \in TokenSet : u = Token(kind, p + 1, q - p - 1) /\ u.kind = kind
    BY <1>1, TokenType DEF Kinds
<1>4. PICK v \in TokenSet : v = Token("punct", q, 1) /\ v.kind = "punct"
    BY TokenType DEF Kinds
<1>5. PICK ts : ts = <<t, u, v>>
    OBVIOUS
<1>6. ts \in Seq(TokenSet) /\ Len(ts) = 3 /\ ts[1] = t /\ ts[2] = u /\ ts[3] = v
    BY <1>5
<1>7. \A n \in 1 .. Len(ts) : ts[n].kind # "eof"
    <2>1. \A n \in 1 .. 3 : n = 1 \/ n = 2 \/ n = 3
        OBVIOUS
    <2> QED
        BY <1>2, <1>3, <1>4, <1>6, <2>1
<1>8. Add(ts, q + 1)
    BY <1>2, <1>3, <1>4, <1>5 DEF Quoted
<1> QED
    BY <1>6, <1>7, <1>8, AddKeepsEof

LEMMA RunKeepsEof ==
    ASSUME ScanInv, EofIsLast, status = "scanning", InFile, NEW kind \in {"ident", "num"}, NEW C,
           Nul \notin C,
           Add(<<Token(kind, p, Until(p, Outside(C)) - p)>>, Until(p, Outside(C)))
    PROVE  EofIsLast'
<1>1. PICK q : q = Until(p, Outside(C))
    OBVIOUS
<1>2. q \in p .. Len(input) + 1 /\ p \in Nat /\ Len(input) \in Nat
    BY <1>1, RunEnds, RoundStart
<1>3. q - p \in Nat
    BY <1>2
<1> QED
    BY <1>1, <1>2, <1>3, AddOneKeepsEof DEF Kinds

LEMMA NextKeepsEof == ScanInv /\ EofIsLast /\ [Next]_vars => EofIsLast'
<1> SUFFICES ASSUME ScanInv, EofIsLast, [Next]_vars PROVE EofIsLast'
    OBVIOUS
<1>1. CASE UNCHANGED vars \/ Stopped
    BY <1>1 DEF vars, Stopped, EofIsLast
<1>2. CASE Round
    <2>1. status = "scanning"
        BY <1>2 DEF Round, SkipBlank, SkipLine, SkipBlock, Operator, Punctuator, String,
               Character, Keyword, Identifier, Number, Invalid, End, Scans
    <2>2. input \in Seq(STRING) /\ p \in Nat /\ 1 \in Nat /\ 2 \in Nat /\ Len(input) \in Nat
          /\ tokens \in Seq(TokenSet) /\ p \in 1 .. Len(input) + 3
          /\ (~End => InFile)
        BY <1>2, <2>1, RoundStart, Found
    <2>3. CASE SkipBlank \/ SkipLine
        <3>1. PICK q : Add(<<>>, q)
            BY <2>3 DEF SkipBlank, SkipLine
        <3>2. PICK ts : ts = <<>>
            OBVIOUS
        <3>3. ts \in Seq(TokenSet) /\ \A n \in 1 .. Len(ts) : ts[n].kind # "eof"
            BY <3>2
        <3> QED
            BY <2>1, <3>1, <3>2, <3>3, AddKeepsEof
    <2>4. CASE SkipBlock \/ Invalid
        BY <2>1, <2>4 DEF SkipBlock, Invalid, Reject, EofIsLast
    <2>5. CASE Operator
        BY <2>1, <2>2, <2>5, AddOneKeepsEof DEF Operator, Kinds
    <2>6. CASE Punctuator
        BY <2>1, <2>2, <2>6, AddOneKeepsEof DEF Punctuator, Kinds
    <2>7. CASE String
        <3>1. At(input, p) = Quote
            BY <2>7 DEF String, Scans, Finds, Tests, Char
        <3>2. p \in 1 .. Len(input)
            <4>1. At(input, p) # Nul
                BY <3>1 DEF Quote, Nul
            <4> QED
                BY <2>2, <4>1, AtInside
        <3>3. PICK q : q = Until(p + 1, Places(<<Quote>>))
            OBVIOUS
        <3>4. q \in p + 1 .. Len(input) + 1
            BY <2>2, <3>2, <3>3, UntilFound
        <3>5. Quoted("str", q) \/ Reject
            BY <2>7, <3>3 DEF String
        <3>6. CASE Quoted("str", q)
            BY <2>1, <2>2, <3>4, <3>6, QuotedKeepsEof
        <3>7. CASE Reject
            BY <2>1, <3>7 DEF Reject, EofIsLast
        <3> QED
            BY <3>5, <3>6, <3>7
    <2>8. CASE Character
        <3>1. CASE Quoted("char", p + 2)
            <4>1. p + 2 \in Nat /\ p + 2 >= p + 1
                BY <2>2
            <4> QED
                BY <2>1, <3>1, <4>1, QuotedKeepsEof
        <3>2. CASE Reject
            BY <2>1, <3>2 DEF Reject, EofIsLast
        <3> QED
            BY <2>8, <3>1, <3>2 DEF Character
    <2>9. CASE Keyword
        <3>1. PICK w \in Keywords : Add(<<Token("keyword", p, Len(w))>>, p + Len(w))
            BY <2>9 DEF Keyword
        <3>2. Len(w) \in Nat
            BY KeywordShape
        <3> QED
            BY <2>1, <2>2, <3>1, <3>2, AddOneKeepsEof DEF Kinds
    <2>10. CASE Identifier /\ ~End
        BY <2>1, <2>2, <2>10, RunKeepsEof DEF Identifier, IdentChars, Nul, Lower, Digit
    <2>11. CASE Number /\ ~End
        BY <2>1, <2>2, <2>11, RunKeepsEof DEF Number, Nul, Digit
    <2>12. CASE End
        <3>1. /\ tokens' = Append(tokens, Token("eof", p, 0)) /\ status' = "done"
            BY <2>12 DEF End
        <3>2. PICK t \in TokenSet : t = Token("eof", p, 0) /\ t.kind = "eof"
            <4>1. 0 \in Nat /\ "eof" \in Kinds
                BY DEF Kinds
            <4> QED
                BY <2>2, <4>1, TokenType
        <3>3. /\ Len(tokens') = Len(tokens) + 1 /\ tokens'[Len(tokens) + 1] = t
              /\ \A n \in 1 .. Len(tokens) : tokens'[n] = tokens[n]
              /\ DOMAIN tokens' = 1 .. Len(tokens) + 1 /\ DOMAIN tokens = 1 .. Len(tokens)
              /\ Len(tokens) \in Nat
            BY <2>2, <3>1, <3>2
        <3>4. \A n \in 1 .. Len(tokens) : tokens'[n].kind # "eof" /\ n # Len(tokens) + 1
            BY <2>1, <3>3 DEF EofIsLast
        <3> QED
            BY <3>1, <3>2, <3>3, <3>4 DEF EofIsLast
    <2> QED
        BY <1>2, <2>3, <2>4, <2>5, <2>6, <2>7, <2>8, <2>9, <2>10, <2>11, <2>12 DEF Round
<1> QED
    BY <1>1, <1>2 DEF Next

LEMMA SpecEof == Spec => []EofIsLast
<1>1. Init => EofIsLast
    BY DEF Init, Start, EofIsLast
<1> QED
    BY <1>1, NextKeepsEof, SpecScan, PTL DEF Spec

(* Whatever the file, the tokens of a finished run cover it from its first *)
(* character to its last, in order, but for blanks and comments, a last    *)
(* one without its end included; so does, at any time, what has been read  *)
(* so far.                                                                 *)
THEOREM NothingIsLost == Spec => []NothingLost
<1>1. ScanInv /\ EofIsLast => NothingLost
    <2> SUFFICES ASSUME ScanInv, EofIsLast PROVE NothingLost
        OBVIOUS
    <2>1. ASSUME NEW n \in DOMAIN tokens
          PROVE  /\ EndOf(n - 1) <= tokens[n].loc
                 /\ Between(input, EndOf(n - 1), tokens[n].loc)
                 /\ tokens[n].kind = "str" =>
                       \A k \in tokens[n].loc .. EndOf(n) - 1 : input[k] # Quote
        BY TokenFacts DEF Fits
    <2>2. EndOf(Len(tokens)) = EndIn(tokens, Len(tokens))
        BY DEF EndOf, EndIn
    <2> QED
        BY <2>1, <2>2 DEF NothingLost, ScanInv
<1> QED
    BY <1>1, SpecScan, SpecEof, PTL

(* No name ends at a capital, which the identifier loop does not go over.  *)
NamesLower ==
    \A n \in DOMAIN tokens : tokens[n].kind = "ident" => Char(EndOf(n)) \notin Upper

(* As long as no name meets a capital, the tokens are as long as they can  *)
(* be: a word ends where letters and digits end, and what reads as an      *)
(* operator or opens a comment was not read as two punctuators.            *)
THEOREM MatchIsLongest == Spec => [](NamesLower => LongestMatch)
<1>1. ScanInv => (NamesLower => LongestMatch)
    <2> SUFFICES ASSUME ScanInv, NamesLower, NEW n \in 1 .. Len(tokens) - 1,
                        EndOf(n) = tokens[n + 1].loc
                 PROVE  /\ tokens[n].kind \in {"keyword", "ident"} =>
                              ~Alnum(Char(tokens[n + 1].loc))
                        /\ tokens[n].kind = "punct" /\ tokens[n].len = 1
                              /\ tokens[n + 1].kind = "punct" =>
                              <<input[tokens[n].loc], input[tokens[n + 1].loc]>>
                                  \notin TwoLetters \cup {LineOpen, BlockOpen}
        BY DEF LongestMatch
    <2>1. tokens \in Seq(TokenSet) /\ Len(tokens) \in Nat
        BY DEF ScanInv, Sound
    <2>2. n \in DOMAIN tokens /\ n + 1 \in DOMAIN tokens
        BY <2>1
    <2>3. /\ tokens[n].loc \in Nat /\ tokens[n].len \in Nat
          /\ EndOf(n) = tokens[n].loc + tokens[n].len
          /\ Fits(input, EndIn(tokens, n - 1), tokens[n])
        BY <2>2, TokenFacts
    <2>4. /\ tokens[n + 1].loc \in Nat /\ tokens[n + 1].len \in Nat
          /\ Len(input) \in Nat /\ input \in Seq(STRING)
          /\ Fits(input, EndIn(tokens, n + 1 - 1), tokens[n + 1])
        BY <2>2, TokenFacts, InputsAssumption DEF ScanInv
    <2>5. tokens[n].kind = "keyword" => ~Alnum(Char(tokens[n + 1].loc))
        BY <2>3 DEF Fits, Char
    <2>6. tokens[n].kind = "ident" => ~Alnum(Char(tokens[n + 1].loc))
        BY <2>2, <2>3 DEF Fits, Char, NamesLower, Alnum, IdentChars
    <2>7. ASSUME tokens[n].kind = "punct", tokens[n].len = 1, tokens[n + 1].kind = "punct"
          PROVE  <<input[tokens[n].loc], input[tokens[n + 1].loc]>> \notin Marks
        <3> DEFINE k == tokens[n].loc
        <3>1. tokens[n + 1].loc = k + 1 /\ k \in 1 .. Len(input) /\ k + 1 \in 1 .. Len(input)
            BY <2>3, <2>4, <2>7 DEF Fits
        <3>2. At(input, k) = input[k] /\ At(input, k + 1) = input[k + 1]
            BY <2>4, <3>1 DEF At
        <3>3. \A s \in Marks : ~Begins(input, k, s)
            BY <2>3, <2>7 DEF Fits
        <3> HIDE DEF k
        <3>4. Begins(input, k, <<input[k], input[k + 1]>>)
            BY <3>1, <3>2, BeginsTwo
        <3> QED
            BY <3>1, <3>3, <3>4 DEF k
    <2> QED
        BY <2>5, <2>6, <2>7 DEF Marks
<1> QED
    BY <1>1, SpecScan, PTL

-----------------------------------------------------------------------------
(* What a round of the loop does to p.                                     *)
Advances == p' > p \/ status' # "scanning" \/ Char(p) \in Upper

LEMMA AddAdvances ==
    ASSUME NEW ts, NEW q, Add(ts, q), q > p
    PROVE  Advances
    BY DEF Add, Advances

LEMMA QuotedAdvances ==
    ASSUME NEW kind, NEW q, Quoted(kind, q), q + 1 > p
    PROVE  Advances
    BY DEF Quoted, Add, Advances

(* A name or a number has the character that it was recognised by.         *)
LEMMA RunAdvances ==
    ASSUME ScanInv, status = "scanning", InFile, NEW C, Nul \notin C, Char(p) \in C
    PROVE  Until(p, Outside(C)) > p
<1>1. PICK q : q = Until(p, Outside(C))
    OBVIOUS
<1>2. q \in p .. Len(input) + 1 /\ At(input, q) \notin C
    BY <1>1, RunEnds
<1>3. p \in Nat /\ Len(input) \in Nat
    BY RoundStart
<1> QED
    BY <1>1, <1>2, <1>3 DEF Char

LEMMA RoundAdvances == ScanInv /\ Round => Advances
<1> SUFFICES ASSUME ScanInv, Round PROVE Advances
    OBVIOUS
<1>1. CASE Invalid \/ End
    BY <1>1 DEF Invalid, Reject, End, Advances
<1> SUFFICES ASSUME ~(Invalid \/ End) PROVE Advances
    BY <1>1
<1>2. status = "scanning"
    BY DEF Round, SkipBlank, SkipLine, SkipBlock, Operator, Punctuator, String, Character,
           Keyword, Identifier, Number, Scans
<1>3. /\ input \in Seq(STRING) /\ InFile
      /\ p \in 1 .. Len(input) + 1 /\ Len(input) \in Nat
    BY <1>2, RoundStart, Found
<1>4. CASE SkipBlank
    BY <1>3, <1>4, AddAdvances DEF SkipBlank
<1>5. CASE SkipLine
    <2>1. Begins(input, p, LineOpen)
        BY <1>5 DEF SkipLine, Scans, Finds, Tests, StartsWith
    <2>2. p + 2 \in 1 .. Len(input) + 1
        BY <1>3, <2>1, MarkInside DEF Marks
    <2>3. PICK q : q = Until(p + 2, Places(<<Newline>>))
        OBVIOUS
    <2>4. q \in p + 2 .. Len(input) + 1
        BY <1>3, <2>2, <2>3, UntilFound
    <2> QED
        BY <1>3, <1>5, <2>3, <2>4, AddAdvances DEF SkipLine
<1>6. CASE SkipBlock
    <2>1. Begins(input, p, BlockOpen)
        BY <1>6 DEF SkipBlock, Scans, Finds, Tests, StartsWith
    <2>2. p + 2 \in 1 .. Len(input) + 1
        BY <1>3, <2>1, MarkInside DEF Marks
    <2>3. PICK q : q = Until(p + 2, Places(BlockClose))
        OBVIOUS
    <2>4. q \in p + 2 .. Len(input) + 1
        BY <1>3, <2>2, <2>3, UntilFound
    <2>5. p' = q + 2
        BY <1>6, <2>3 DEF SkipBlock, PastClose
    <2> QED
        BY <1>3, <2>4, <2>5 DEF Advances
<1>7. CASE Operator
    BY <1>3, <1>7, AddAdvances DEF Operator
<1>8. CASE Punctuator
    BY <1>3, <1>8, AddAdvances DEF Punctuator
<1>9. CASE String
    <2>1. At(input, p) = Quote
        BY <1>9 DEF String, Scans, Finds, Tests, Char
    <2>2. p \in 1 .. Len(input)
        <3>1. At(input, p) # Nul
            BY <2>1 DEF Quote, Nul
        <3> QED
            BY <1>3, <3>1, AtInside
    <2>3. PICK q : q = Until(p + 1, Places(<<Quote>>))
        OBVIOUS
    <2>4. q \in p + 1 .. Len(input) + 1
        BY <1>3, <2>2, <2>3, UntilFound
    <2>5. Quoted("str", q) \/ Reject
        BY <1>9, <2>3 DEF String
    <2> QED
        BY <1>3, <2>4, <2>5, QuotedAdvances DEF Reject, Advances
<1>10. CASE Character
    BY <1>3, <1>10, QuotedAdvances DEF Character, Reject, Advances
<1>11. CASE Keyword
    <2>1. PICK w \in Keywords : Add(<<Token("keyword", p, Len(w))>>, p + Len(w))
        BY <1>11 DEF Keyword
    <2>2. Len(w) \in Nat \ {0}
        BY KeywordShape
    <2> QED
        BY <1>3, <2>1, <2>2, AddAdvances
<1>12. CASE Identifier
    <2>1. Char(p) \in Lower \cup Upper \cup {"_"}
        BY <1>12 DEF Identifier, Scans, Finds, Tests
    <2>2. CASE Char(p) \in Upper
        BY <2>2 DEF Advances
    <2>3. CASE Char(p) \notin Upper
        <3>1. Char(p) \in IdentChars /\ Nul \notin IdentChars
            BY <2>1, <2>3 DEF IdentChars, Nul, Lower, Digit
        <3> QED
            BY <1>2, <1>3, <1>12, <3>1, RunAdvances, AddAdvances DEF Identifier
    <2> QED
        BY <2>2, <2>3
<1>13. CASE Number
    <2>1. Char(p) \in Digit /\ Nul \notin Digit
        BY <1>13 DEF Number, Scans, Finds, Tests, Nul, Digit
    <2> QED
        BY <1>2, <1>3, <1>13, <2>1, RunAdvances, AddAdvances DEF Number
<1> QED
    BY <1>4, <1>5, <1>6, <1>7, <1>8, <1>9, <1>10, <1>11, <1>12, <1>13 DEF Round

(* Every round of tokenize is the last or takes p further on, which stays  *)
(* within three characters of the file: tokenize ends after as many rounds *)
(* as the file has characters, but for the round that finds a capital at   *)
(* p, after which p is where it was (what Finishes fails for).             *)
THEOREM RoundsAdvance ==
    Spec => [](p <= Len(input) + 3) /\ [][Round => Advances]_vars
<1>1. ScanInv => p <= Len(input) + 3
    BY InputsAssumption DEF ScanInv
<1>2. ScanInv /\ [Next]_vars => [Round => Advances]_vars
    BY RoundAdvances
<1> QED
    BY <1>1, <1>2, SpecScan, PTL DEF Spec
=============================================================================
