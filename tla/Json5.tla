------------------------------- MODULE Json5 --------------------------------
(***************************************************************************)
(* common/json5: the text of a configuration file is cleaned of comments    *)
(* and trailing commas before it is decoded.  prep walks once over the text *)
(* and overwrites in place; a step is one turn of one of its loops.         *)
(***************************************************************************)
EXTENDS Naturals, Sequences, FiniteSets

CONSTANT MaxLen     \* bound: the length of the text

ASSUME MaxLenAssumption == MaxLen \in Nat

Quote == "\""
Escape == "\\"

Blank == " "

(* "}" stands for both closing brackets, "nl" for all white space that ends *)
(* a line and Blank for the other, "a" for any byte without a role.         *)
Bytes == {Quote, Escape, "/", "*", ",", "}", "nl", Blank, "a"}

VARIABLES
    text,   \* what was read
    s,      \* what it has become
    i,      \* the position, from 1
    loop,   \* the loop the walk is in
    j       \* the comma that may be a trailing one, or 0

vars == <<text, s, i, loop, j>>

(* Type invariant: prep overwrites with blanks and nothing else, and runs   *)
(* past the end of the text by no more than one look ahead per loop.        *)
TypeOK ==
    /\ text \in Seq(Bytes) /\ Len(text) <= MaxLen
    /\ s \in [DOMAIN text -> Bytes]
    /\ \A k \in DOMAIN text : s[k] \in {text[k], Blank}
    /\ i \in 1..(Len(text) + 3)
    /\ loop \in {"top", "string", "comma", "line", "block", "done"}
    /\ j \in 0..Len(text)

Init ==
    /\ text \in UNION {[1..n -> Bytes] : n \in 0..MaxLen}
    /\ s = text
    /\ i = 1 /\ loop = "top" /\ j = 0

isNL(c) == c = "nl"

isWS(c) == c = Blank \/ isNL(c)

More == i <= Len(s)

AtByte(l, B) == loop = l /\ More /\ s[i] \in B

Goto(l, k) == loop' = l /\ i' = k

Overwrite(K) == s' = [k \in DOMAIN s |-> IF k \in K THEN Blank ELSE s[k]]

-----------------------------------------------------------------------------
ReturnSkips(k) ==
    IF j = 0 THEN Goto("top", k) ELSE Goto("comma", k + 2)

(* consumeComment returns k to the loop that called it; the loop that       *)
(* follows a comma goes one further.                                        *)
Return(k) ==
    IF j = 0 THEN Goto("top", k) ELSE Goto("comma", k + 1)

SlashStays ==
    /\ IF i < Len(s) /\ s[i + 1] \in {"/", "*"}
       THEN /\ Overwrite({i, i + 1})
            /\ Goto(IF s[i + 1] = "/" THEN "line" ELSE "block", i + 1)
       ELSE Return(i) /\ UNCHANGED s

(* consumeComment is called at a slash. *)
Slash ==
    /\ IF i < Len(s) /\ s[i + 1] \in {"/", "*"}
       THEN /\ Overwrite({i, i + 1})
            /\ Goto(IF s[i + 1] = "/" THEN "line" ELSE "block", i + 1)
       ELSE Return(i + 1) /\ UNCHANGED s

LineComment ==
    /\ loop = "line"
    /\ IF More /\ ~isNL(s[i])
       THEN Overwrite({i}) /\ Goto("line", i + 1)
       ELSE Return(i) /\ UNCHANGED s
    /\ UNCHANGED <<text, j>>

BlockByte ==
    /\ loop = "block"
    /\ IF More /\ s[i] # "*"
       THEN Overwrite({i}) /\ Goto("block", i + 1)
       ELSE ~More /\ Return(i) /\ UNCHANGED s
    /\ UNCHANGED <<text, j>>

(* The byte after a star ends the comment or is stepped over unseen. *)
BlockStar ==
    /\ AtByte("block", {"*"})
    /\ IF i < Len(s) /\ s[i + 1] = "/"
       THEN Overwrite({i, i + 1}) /\ Return(i + 1)
       ELSE Overwrite({i}) /\ Goto("block", i + 2)
    /\ UNCHANGED <<text, j>>

-----------------------------------------------------------------------------
TopOther ==
    /\ AtByte("top", {Quote, Escape, "*", "}", "nl", "a", Blank})
    /\ Goto(IF s[i] = Quote THEN "string" ELSE "top", i + 1)
    /\ UNCHANGED <<text, s, j>>

TopSlash ==
    /\ AtByte("top", {"/"})
    /\ Slash
    /\ UNCHANGED <<text, j>>

TopComma ==
    /\ AtByte("top", {","})
    /\ j' = i
    /\ Goto("comma", i + 1)
    /\ UNCHANGED <<text, s>>

StringByteNoEscape ==
    /\ loop = "string" /\ More
    /\ Goto(IF s[i] = Quote THEN "top" ELSE "string", i + 1)
    /\ UNCHANGED <<text, s, j>>

StringByte ==
    /\ loop = "string" /\ More
    /\ IF s[i] = Quote THEN Goto("top", i + 1)
       ELSE Goto("string", IF s[i] = Escape THEN i + 2 ELSE i + 1)
    /\ UNCHANGED <<text, s, j>>

(* After a comma: a closing bracket, a comment, white space, or anything    *)
(* else, which the outer loop takes up.                                     *)
CommaByte ==
    /\ loop = "comma" /\ More
    /\ \/ /\ s[i] = "}"
          /\ Overwrite({j}) /\ Goto("top", i) /\ j' = 0
       \/ s[i] = "/" /\ Slash /\ UNCHANGED j
       \/ isWS(s[i]) /\ Goto("comma", i + 1) /\ UNCHANGED <<s, j>>
       \/ /\ s[i] \notin {"}", "/"} /\ ~isWS(s[i])
          /\ Goto("top", i) /\ j' = 0 /\ UNCHANGED s
    /\ UNCHANGED text

(* The text is used up. *)
End ==
    /\ loop \in {"top", "string", "comma"} /\ ~More
    /\ Goto("done", i)
    /\ UNCHANGED <<text, s, j>>

Next ==
    \/ TopOther \/ TopSlash \/ TopComma
    \/ StringByte
    \/ CommaByte
    \/ LineComment \/ BlockByte \/ BlockStar
    \/ End

Spec == Init /\ [][Next]_vars

(* prep runs in the goroutine that loads the file. *)
FairSpec == Spec /\ WF_vars(Next)

-----------------------------------------------------------------------------
(* What cleaning a text t means, without walking: t is a row of tokens, each *)
(* a string, a comment or a byte.                                           *)
First(K, other) == IF K = {} THEN other ELSE CHOOSE k \in K : \A l \in K : k <= l

Opens(t, n, c) == t[n] = "/" /\ n < Len(t) /\ t[n + 1] = c

OpensComment(t, n) == Opens(t, n, "/") \/ Opens(t, n, "*")

(* In the string that begins at n, does an odd number of escapes precede k? *)
Escaped(t, n, k) ==
    Cardinality({m \in (n + 1)..(k - 1) : \A l \in m..(k - 1) : t[l] = Escape}) % 2 = 1

ClosesString(t, n, k) == t[k] = Quote /\ ~Escaped(t, n, k)

ClosesBlock(t, n, k) == k > n + 2 /\ t[k - 1] = "*" /\ t[k] = "/"

(* The last position of the token that begins at n. *)
TokenEnd(t, n) ==
    LET after == (n + 1)..Len(t) IN
    CASE t[n] = Quote      -> First({k \in after : ClosesString(t, n, k)}, Len(t))
      [] Opens(t, n, "/")  -> First({k \in after : isNL(t[k])}, Len(t) + 1) - 1
      [] Opens(t, n, "*")  -> First({k \in after : ClosesBlock(t, n, k)}, Len(t))
      [] OTHER             -> n

(* B has the positions where the tokens of t begin. *)
Row(t, B) ==
    /\ t # <<>> => 1 \in B
    /\ \A n \in B :
         /\ TokenEnd(t, n) = Len(t) \/ TokenEnd(t, n) + 1 \in B
         /\ \A k \in (n + 1)..TokenEnd(t, n) : k \notin B

Tokens(t) == CHOOSE B \in SUBSET DOMAIN t : Row(t, B)

Comment(t, B, k) == \E n \in B : OpensComment(t, n) /\ k \in n..TokenEnd(t, n)

Trailing(t, B, k) ==
    /\ k \in B /\ t[k] = ","
    /\ \E n \in B :
         /\ n > k /\ t[n] = "}"
         /\ \A m \in (k + 1)..(n - 1) : Comment(t, B, m) \/ isWS(t[m])

Clean(t, B) ==
    [k \in DOMAIN t |-> IF Comment(t, B, k) \/ Trailing(t, B, k) THEN Blank ELSE t[k]]

(* No slash is stray, and no star stands inside a block comment. *)
Plain(t, B) ==
    \A n \in B :
        /\ t[n] = "/" => OpensComment(t, n)
        /\ Opens(t, n, "*") =>
             \A m \in (n + 2)..TokenEnd(t, n) :
                 t[m] = "*" => m = Len(t) \/ t[m + 1] = "/"

(* prep blanks comments and trailing commas, and nothing else: whatever     *)
(* quotes, escapes, slashes and commas stand inside strings and comments    *)
(* (json5.go 21-88).  The text must have no stray slash and no star inside  *)
(* a block comment: the byte after such a star is neither blanked nor seen  *)
(* (json5.go 34-43), so that it stays in the text or, when it is the star   *)
(* of the closing mark, the comment swallows what follows.                  *)
Cleaned ==
    loop = "done" => LET B == Tokens(text) IN Plain(text, B) => s = Clean(text, B)

(* prep comes to an end on every text (json5.go 58-88). *)
PrepEnds == <>(loop = "done")
=============================================================================
