------------------------------ MODULE EditedTexts ------------------------------
(* The blocks that codewiki keeps between markers inside files of the user:   *)
(* the instructions of an agent (installer/shared.rs, targets/claude.rs,      *)
(* targets/cursor.rs) and the git hooks (codewiki-sync/src/git_hooks.rs).     *)
(*                                                                            *)
(* A markdown text is a sequence of tokens, a token being NL or a run of      *)
(* characters without one; the text of a hook is a sequence of lines.  A file *)
(* that is missing is the empty text: the operators treat the two alike.      *)
EXTENDS Naturals, Sequences, SequencesExt

NL == "\n"
SectionStart == "<!-- CODEWIKI_START -->"
SectionEnd == "<!-- CODEWIKI_END -->"
LegacyHeader == "## CodeWiki"

(* The instructions template that version v of the program carries.           *)
Template(v) == <<SectionStart, NL, v, NL, SectionEnd>>

(* Position of the first occurrence of a token, 0 when there is none.         *)
Find(text, token) == SelectInSeq(text, LAMBDA t : t = token)

TrimEnd(text) ==
  SubSeq(text, 1, SelectLastInSeq(text, LAMBDA t : t # NL))

TrimStart(text) ==
  LET first == SelectInSeq(text, LAMBDA t : t # NL) IN
  IF first = 0 THEN <<>> ELSE SubSeq(text, first, Len(text))

(* What stands before and after the marked block of a text that has one.      *)
HasBlock(text) ==
  Find(text, SectionStart) > 0 /\ Find(text, SectionEnd) > Find(text, SectionStart)
BeforeBlock(text) == SubSeq(text, 1, Find(text, SectionStart) - 1)
AfterBlock(text) == SubSeq(text, Find(text, SectionEnd) + 1, Len(text))

(* Two parts with an empty line between them, when both say something.        *)
Joined(before, after) ==
  IF before = <<>> \/ after = <<>> THEN before \o after
  ELSE before \o <<NL, NL>> \o after

ReplaceOrAppend(text, body) ==
  IF HasBlock(text) THEN BeforeBlock(text) \o body \o AfterBlock(text)
  ELSE Joined(TrimEnd(text), body) \o <<NL>>

(* What is left of a text without its block, trimmed: empty when the block    *)
(* was all there was.                                                         *)
Remainder(text) ==
  TrimEnd(TrimStart(Joined(TrimEnd(BeforeBlock(text)), TrimStart(AfterBlock(text)))))

Written(trimmed) == IF trimmed = <<>> THEN <<>> ELSE trimmed \o <<NL>>

RemoveMarked(text) == IF HasBlock(text) THEN Written(Remainder(text)) ELSE text

-----------------------------------------------------------------------------
(* Claude: installs of old left a section without markers; it reaches to the  *)
(* next header of its level, which then follows the end marker directly.      *)
CONSTANT Headers       \* the lines "## ..." a user writes

LineStart(text, i) == i = 1 \/ text[i - 1] = NL

LegacyAt(text) ==
  LET at == {i \in 1 .. Len(text) - 2 :
               SubSeq(text, i, i + 2) = <<NL, LegacyHeader, NL>>}
  IN IF at = {} THEN 0 ELSE Min(at)

AfterLegacy(text) ==
  LET next == {i \in LegacyAt(text) + 3 .. Len(text) :
                 text[i] \in Headers /\ LineStart(text, i)}
  IN IF next = {} THEN <<>> ELSE SubSeq(text, Min(next), Len(text))

ClaudeInstructions(text, v) ==
  IF Find(text, SectionStart) = 0 /\ LegacyAt(text) > 0
    THEN SubSeq(text, 1, LegacyAt(text) - 1) \o <<NL>> \o Template(v) \o AfterLegacy(text)
    ELSE ReplaceOrAppend(text, Template(v))

(* Cursor: the rules file starts with a front matter when codewiki creates it *)
(* and goes away with the block when nothing else is left.                    *)
FrontMatter == <<"---", NL, "alwaysApply", NL, "---">>

CursorRules(text, v) ==
  IF text = <<>> THEN FrontMatter \o <<NL, NL>> \o Template(v) \o <<NL>>
  ELSE ReplaceOrAppend(text, Template(v))

RemoveCursorRules(text) ==
  IF HasBlock(text)
    THEN IF Remainder(text) = FrontMatter THEN <<>> ELSE Written(Remainder(text))
    ELSE IF TrimEnd(TrimStart(text)) = FrontMatter THEN <<>> ELSE text

-----------------------------------------------------------------------------
(* Git hooks: lines.                                                          *)
HookBegin == "# >>> codewiki sync hook >>>"
HookEnd == "# <<< codewiki sync hook <<<"
Blank == ""
Shebangs == {"#!/bin/sh", "#!/usr/bin/env bash"}

(* A line that is not valid UTF-8: the file that holds it cannot be read as a *)
(* string, and the code goes on with an empty one.                            *)
Latin == "latin-1"
Read(lines) == IF Contains(lines, Latin) THEN <<>> ELSE lines

(* Part of a line, where a write in place was cut off.                        *)
CutLine == "cut"

HookBlock(v) == <<HookBegin, v, HookEnd>>

(* Mutant: the end marker does not end the block.                             *)
StripToEnd(lines) ==
  LET at == SelectInSeq(lines, LAMBDA l : l = HookBegin) IN
  IF at = 0 THEN lines ELSE SubSeq(lines, 1, at - 1)

StripBlock(lines) ==
  FoldLeft(LAMBDA s, l :
             CASE l = HookBegin -> [s EXCEPT !.inside = TRUE]
               [] l = HookEnd -> [s EXCEPT !.inside = FALSE]
               [] s.inside -> s
               [] OTHER -> [s EXCEPT !.kept = Append(@, l)],
           [inside |-> FALSE, kept |-> <<>>], lines).kept

(* trim_end over lines.                                                       *)
NoBlankEnd(lines) == SubSeq(lines, 1, SelectLastInSeq(lines, LAMBDA l : l # Blank))

(* Mutant: every install starts with its own shebang.                         *)
InstallHookShebang(lines, v) ==
  <<"#!/bin/sh">> \o NoBlankEnd(StripBlock(Read(lines))) \o HookBlock(v)

InstallHook(lines, v) ==
  LET base == NoBlankEnd(StripBlock(Read(lines))) IN
  IF base = <<>> THEN <<"#!/bin/sh">> \o HookBlock(v)
  ELSE base \o <<Blank>> \o HookBlock(v)

EffectivelyEmpty(lines) == \A i \in DOMAIN lines : lines[i] \in Shebangs \cup {Blank}

RemoveHook(lines) ==
  LET text == Read(lines) IN
  IF ~Contains(text, HookBegin) THEN lines
  ELSE IF EffectivelyEmpty(StripBlock(text)) THEN <<>>
  ELSE NoBlankEnd(StripBlock(text))

-----------------------------------------------------------------------------
(* The two configuration files that codewiki edits line by line, without a    *)
(* parser: the TOML of Codex (installer/targets/codex.rs) and the YAML of     *)
(* Hermes (installer/targets/hermes.rs).                                      *)
(*                                                                            *)
(* A line is a record: its kind (what the code tells from its first           *)
(* character), its indentation and what it says.                              *)

Line(kind, indent, says) == [kind |-> kind, indent |-> indent, says |-> says]
BlankLine == Line("blank", 0, "")
Key(indent, says) == Line("key", indent, says)       \* `says:`
Item(indent, says) == Line("item", indent, says)     \* `- says`
Comment(says) == Line("comment", 0, says)            \* `# says`, at column 0
Table(says) == Line("table", 0, says)                \* `[says]`

NoBlankTail(lines) == SubSeq(lines, 1, SelectLastInSeq(lines, LAMBDA l : l # BlankLine))

(* The first index from `from` up to `to` whose line passes, `to` + 1 if none. *)
FirstOr(lines, from, to, Passes(_)) ==
  LET at == SelectInSubSeq(lines, from, to, Passes) IN IF at = 0 THEN to + 1 ELSE at

(* lines without first .. beyond - 1, with others in their place.             *)
Spliced(lines, first, beyond, others) ==
  SubSeq(lines, 1, first - 1) \o others \o SubSeq(lines, beyond, Len(lines))

-----------------------------------------------------------------------------
(* Codex: [mcp_servers.codewiki]                                              *)
CodexHeader == Table("mcp_servers.codewiki")
CodexBlock(v) == <<CodexHeader, Key(0, "command"), Key(0, v)>>

CodexAt(lines) == SelectInSeq(lines, LAMBDA l : l = CodexHeader)
CodexBeyond(lines) ==
  FirstOr(lines, CodexAt(lines) + 1, Len(lines), LAMBDA l : l.kind = "table")

UpsertTable(lines, v) ==
  IF CodexAt(lines) = 0
    THEN IF NoBlankTail(lines) = <<>> THEN CodexBlock(v)
         ELSE NoBlankTail(lines) \o <<BlankLine>> \o CodexBlock(v)
  ELSE IF NoBlankTail(SubSeq(lines, CodexAt(lines), CodexBeyond(lines) - 1)) = CodexBlock(v)
    THEN lines
  ELSE Spliced(lines, CodexAt(lines), CodexBeyond(lines), CodexBlock(v))

RemoveTable(lines) ==
  IF CodexAt(lines) = 0 THEN lines
  ELSE NoBlankTail(Spliced(lines, CodexAt(lines), CodexBeyond(lines), <<>>))

-----------------------------------------------------------------------------
(* Hermes: mcp_servers.codewiki and the item mcp-codewiki of                  *)
(* platform_toolsets.cli.  A range is a record: its first line and the one    *)
(* beyond its last; the range of a key that is not there begins at 0.         *)
TopLevelRange(lines, key) ==
  LET start == SelectInSeq(lines, LAMBDA l : l.kind = "key" /\ l.says = key) IN
  [start |-> start,
   beyond |-> FirstOr(lines, start + 1, Len(lines),
                      LAMBDA l : l.kind \in {"key", "item"} /\ l.indent = 0)]

ChildRange(lines, parent, child) ==
  LET start == SelectInSubSeq(lines, parent.start + 1, parent.beyond - 1,
                              LAMBDA l : l = Key(2, child))
      next == FirstOr(lines, start + 1, parent.beyond - 1, LAMBDA l : l.indent = 2)
      last == SelectLastInSubSeq(lines, start + 1, next - 1, LAMBDA l : l # BlankLine)
  IN [start |-> start, beyond |-> 1 + IF last = 0 THEN start ELSE last]

HermesServer(v) == <<Key(2, "codewiki"), Key(4, "command"), Key(4, v)>>
Toolset == Item(4, "mcp-codewiki")

(* Splitting at the newlines leaves an empty piece after the last one.        *)
Split(text) == Append(text, BlankLine)

(* A new top-level section goes to the end, after an empty line.              *)
WithSection(lines, section) ==
  LET base == IF Last(lines) = BlankLine THEN Front(lines) ELSE lines IN
  (IF base = <<>> THEN <<>> ELSE Append(base, BlankLine)) \o section

UpsertServer(text, v) ==
  LET lines == Split(text)
      parent == TopLevelRange(lines, "mcp_servers")
      child == ChildRange(lines, parent, "codewiki")
  IN NoBlankTail(
       IF parent.start = 0
         THEN WithSection(lines, <<Key(0, "mcp_servers")>> \o HermesServer(v))
       ELSE IF child.start = 0
         THEN Spliced(lines, parent.beyond, parent.beyond, HermesServer(v))
       ELSE Spliced(lines, child.start, child.beyond, HermesServer(v)))

RemoveServer(text) ==
  LET lines == Split(text)
      parent == TopLevelRange(lines, "mcp_servers")
      child == ChildRange(lines, parent, "codewiki")
  IN NoBlankTail(IF parent.start = 0 \/ child.start = 0 THEN lines
                 ELSE Spliced(lines, child.start, child.beyond, <<>>))

WithoutAt(lines, dropped) ==
  FoldLeftDomain(LAMBDA kept, i : IF i \in dropped THEN kept ELSE Append(kept, lines[i]),
                 <<>>, lines)

ToolsetIn(lines, first, last) ==
  {i \in first .. last : lines[i].kind = "item" /\ lines[i].says = Toolset.says}

UpsertToolset(text) ==
  LET lines == Split(text)
      parent == TopLevelRange(lines, "platform_toolsets")
      cli == ChildRange(lines, parent, "cli")
      fresh == <<Key(2, "cli"), Item(4, "hermes-cli"), Toolset>>
  IN NoBlankTail(
       IF parent.start = 0
         THEN WithSection(lines, <<Key(0, "platform_toolsets")>> \o fresh)
       ELSE IF cli.start = 0 THEN Spliced(lines, parent.beyond, parent.beyond, fresh)
       ELSE IF ToolsetIn(lines, cli.start + 1, cli.beyond - 1) # {} THEN lines
       ELSE Spliced(lines, cli.beyond, cli.beyond, <<Toolset>>))

(* Mutant: the last item of the list is not looked at.                        *)
RemoveToolsetButLast(text) ==
  LET lines == Split(text)
      cli == ChildRange(lines, TopLevelRange(lines, "platform_toolsets"), "cli")
  IN NoBlankTail(IF cli.start = 0 THEN lines
                 ELSE WithoutAt(lines, ToolsetIn(lines, cli.start + 1, cli.beyond - 2)))

RemoveToolset(text) ==
  LET lines == Split(text)
      parent == TopLevelRange(lines, "platform_toolsets")
      cli == ChildRange(lines, parent, "cli")
  IN NoBlankTail(IF parent.start = 0 \/ cli.start = 0 THEN lines
                 ELSE WithoutAt(lines, ToolsetIn(lines, cli.start + 1, cli.beyond - 1)))

HermesInstall(text, v) == UpsertToolset(UpsertServer(text, v))
HermesRemove(text) == RemoveToolset(RemoveServer(text))
=============================================================================
