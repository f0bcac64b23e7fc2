------------------------------ MODULE Redactor ------------------------------
(***************************************************************************)
(* The literal redactor of the evidence sanitizer (evidence/core.py).      *)
(* Text arrives in fragments of any size, and configured literals have to  *)
(* be replaced in it, also those that a boundary of fragments cuts; so the *)
(* redactor keeps back what may yet become a literal.  It works character  *)
(* by character, which makes the fragments irrelevant: Feed takes one.     *)
(***************************************************************************)
EXTENDS Naturals, Sequences, SequencesExt

CONSTANTS
    Chars,           \* the characters of the text
    Mark,            \* the replacement, none of them
    Literals,        \* secrets, and personal paths in both spellings: texts, not empty
    MaxText          \* bound: length of the text

VARIABLES
    fed,         \* the text so far
    pending,     \* kept back
    out,         \* given out
    finished

vars == <<fed, pending, out, finished>>

(* A literal is the last of its prefixes.                                  *)
Beginnings == UNION {Prefixes(item) : item \in Literals} \ {<<>>}

Init ==
    /\ fed = <<>>
    /\ pending = <<>>
    /\ out = <<>>
    /\ finished = FALSE

Drop(s, n) == SubSeq(s, n + 1, Len(s))

(* The loop gives out the first character of what is kept back until the   *)
(* rest may become a literal, or is one, or is empty.                      *)
Released(s) == CHOOSE n \in 0 .. Len(s) :
                   /\ Drop(s, n) \in Beginnings \cup {<<>>}
                   /\ \A k \in 0 .. n - 1 : Drop(s, k) \notin Beginnings

Feed(char) ==
    /\ ~finished /\ Len(fed) < MaxText
    /\ fed' = Append(fed, char)
    /\ LET now  == Append(pending, char)
           n    == Released(now)
           rest == Drop(now, n)
       IN  /\ out' = out \o SubSeq(now, 1, n) \o (IF rest \in Literals THEN <<Mark>> ELSE <<>>)
           /\ pending' = IF rest \in Literals THEN <<>> ELSE rest
    /\ UNCHANGED finished

Finish ==
    /\ ~finished
    /\ finished' = TRUE
    /\ out' = out \o pending
    /\ pending' = <<>>
    /\ UNCHANGED fed

Next == Finish \/ \E char \in Chars : Feed(char)

Spec == Init /\ [][Next]_vars

-----------------------------------------------------------------------------
TypeOK ==
    /\ fed \in Seq(Chars) /\ Len(fed) <= MaxText
    /\ pending \in Seq(Chars)
    /\ out \in Seq(Chars \cup {Mark})
    /\ finished \in BOOLEAN

Occurs(s, text) == \E k \in 0 .. Len(text) - Len(s) : SubSeq(text, k + 1, k + Len(s)) = s

(* docs/evidence/IL-007.md:11 lists "Exact configured secret and           *)
(* personal-path variant redaction across arbitrary input-fragment         *)
(* boundaries": what is given out has no literal in it.  It is so when no  *)
(* literal is inside another one.  A shorter literal inside a longer one   *)
(* is not looked for while the longer one is possible, and given out with  *)
(* it when that fails; and one that begins a longer one is replaced before *)
(* the longer one is complete.                                             *)
LiteralsRemoved == \A item \in Literals : ~Occurs(item, out)

=============================================================================
