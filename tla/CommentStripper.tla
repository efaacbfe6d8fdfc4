--------------------------- MODULE CommentStripper ---------------------------
(***************************************************************************)
(* strip_comments (codewiki-resolution): which characters of a source are     *)
(* blanked before the route scanners read it.  A source is a sequence of      *)
(* characters; "nl" is a newline, "tick" a backquote, "=begin" and "=end"     *)
(* stand for the words of Ruby.  Newlines inside a blanked range stay, so a   *)
(* line keeps its number.                                                     *)
(***************************************************************************)
LOCAL INSTANCE Integers
LOCAL INSTANCE Sequences
LOCAL INSTANCE FiniteSets

CommentLang == {"python", "ruby", "javascript", "java", "go", "rust", "php"}

At(s, i) == IF i \in DOMAIN s THEN s[i] ELSE "end"
Two(s, i, a, b) == At(s, i) = a /\ At(s, i + 1) = b

(* The ends of what starts at i: the first position after it.                 *)
LineEnd(s, i) ==
  LET e[j \in Nat] == IF At(s, j) \in {"nl", "end"} THEN j ELSE e[j + 1]
  IN e[i]

\* The last character of a comment that is not closed is not part of it.
BlockEnd(s, i) ==
  LET e[j \in Nat] == IF j >= Len(s) THEN j ELSE IF Two(s, j, "*", "/") THEN j + 2 ELSE e[j + 1]
  IN e[i + 2]

NestedEnd(s, i) ==
  LET e[j \in Nat, depth \in Nat] ==
        IF j >= Len(s) \/ depth = 0 THEN j
        ELSE IF Two(s, j, "/", "*") THEN e[j + 2, depth + 1]
        ELSE IF Two(s, j, "*", "/") THEN e[j + 2, depth - 1]
        ELSE e[j + 1, depth]
  IN e[i + 2, 1]

\* A string with escapes or none, that a newline ends or not.
StringEnd(s, i, escapes, stops) ==
  LET e[j \in Nat] == IF j > Len(s) THEN j
                      ELSE IF escapes /\ s[j] = "\\" /\ j < Len(s) THEN e[j + 2]
                      ELSE IF s[j] = s[i] THEN j + 1
                      ELSE IF stops /\ s[j] = "nl" THEN j ELSE e[j + 1]
  IN e[i + 1]

Triple(s, i) == At(s, i) \in {"'", "\""} /\ At(s, i + 1) = s[i] /\ At(s, i + 2) = s[i]

TripleEnd(s, i) ==
  LET e[j \in Nat] == IF j > Len(s) THEN j
                      ELSE IF s[j] = "\\" /\ j < Len(s) THEN e[j + 2]
                      ELSE IF Triple(s, j) /\ s[j] = s[i] THEN j + 3 ELSE e[j + 1]
  IN e[i + 3]

BeginEnd(s, i) ==
  LET e[j \in Nat] == IF j > Len(s) THEN j
                      ELSE IF Two(s, j, "nl", "=end") THEN LineEnd(s, j + 2) ELSE e[j + 1]
  IN e[i + 1]

Blank(to) == [to |-> to, blank |-> TRUE]
Kept(to) == [to |-> to, blank |-> FALSE]

(* What starts at i in each language, and whether it is blanked.              *)
Python(s, i) ==
  CASE Triple(s, i) -> Blank(TripleEnd(s, i))
    [] s[i] = "#" -> Blank(LineEnd(s, i))
    [] s[i] \in {"'", "\""} -> Kept(StringEnd(s, i, TRUE, TRUE))
    [] OTHER -> Kept(i + 1)

Ruby(s, i) ==
  CASE s[i] = "=begin" /\ (i = 1 \/ s[i - 1] = "nl") -> Blank(BeginEnd(s, i))
    [] s[i] = "#" -> Blank(LineEnd(s, i))
    [] s[i] \in {"'", "\""} -> Kept(StringEnd(s, i, TRUE, TRUE))
    [] OTHER -> Kept(i + 1)

CStyle(s, i, quotes) ==
  CASE Two(s, i, "/", "*") -> Blank(BlockEnd(s, i))
    [] Two(s, i, "/", "/") -> Blank(LineEnd(s, i))
    [] s[i] = "tick" -> Kept(StringEnd(s, i, TRUE, FALSE))
    [] s[i] \in quotes -> Kept(StringEnd(s, i, TRUE, TRUE))
    [] OTHER -> Kept(i + 1)

Go(s, i) ==
  CASE Two(s, i, "/", "*") -> Blank(BlockEnd(s, i))
    [] Two(s, i, "/", "/") -> Blank(LineEnd(s, i))
    [] s[i] = "tick" -> Kept(StringEnd(s, i, FALSE, FALSE))
    [] s[i] = "\"" -> Kept(StringEnd(s, i, TRUE, TRUE))
    [] OTHER -> Kept(i + 1)

Rust(s, i) ==
  CASE Two(s, i, "/", "/") -> Blank(LineEnd(s, i))
    [] Two(s, i, "/", "*") -> Blank(NestedEnd(s, i))
    [] s[i] = "\"" -> Blank(StringEnd(s, i, TRUE, FALSE))
    [] OTHER -> Kept(i + 1)

Php(s, i) ==
  CASE Two(s, i, "/", "/") \/ s[i] = "#" -> Blank(LineEnd(s, i))
    [] Two(s, i, "/", "*") -> Blank(BlockEnd(s, i))
    [] s[i] \in {"'", "\""} -> Kept(StringEnd(s, i, TRUE, TRUE))
    [] s[i] = "tick" -> Kept(StringEnd(s, i, TRUE, FALSE))
    [] OTHER -> Kept(i + 1)

Region(lang, s, i) ==
  CASE lang = "python" -> Python(s, i)
    [] lang = "ruby" -> Ruby(s, i)
    [] lang = "javascript" -> CStyle(s, i, {"'", "\""})
    [] lang = "java" -> CStyle(s, i, {"\""})
    [] lang = "go" -> Go(s, i)
    [] lang = "rust" -> Rust(s, i)
    [] lang = "php" -> Php(s, i)

\* The positions that are blanked.
Blanked(lang, s) ==
  LET from[i \in Nat] ==
        IF i > Len(s) THEN {}
        ELSE LET r == Region(lang, s, i)
             IN (IF r.blank THEN {j \in i..(r.to - 1) : j <= Len(s)} ELSE {}) \union from[r.to]
  IN from[1]

StripComments(lang, s) ==
  [i \in DOMAIN s |-> IF i \in Blanked(lang, s) /\ s[i] # "nl" THEN " " ELSE s[i]]
=============================================================================
