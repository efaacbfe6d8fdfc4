----------------------------- MODULE AgentTargets -----------------------------
(* `codewiki install`, `codewiki uninstall` and the git hooks of `codewiki    *)
(* init`: the files of one agent, or of the hooks, between the hands of the   *)
(* user and those of several versions of the program                          *)
(* (codewiki-cli/src/installer, codewiki-sync/src/git_hooks.rs).              *)
(*                                                                            *)
(* An install is a list of steps, one per file; the files of agents are       *)
(* written with a rename, so that a write error or a kill leaves a prefix of  *)
(* the steps done.  Git hooks are written in place: the same leaves a cut     *)
(* file.  JSON files are objects (functions from keys to values), texts that  *)
(* parse to something else, or texts that do not parse; the arrays the code   *)
(* searches are sets.                                                         *)
EXTENDS EditedTexts, Functions, FiniteSets

CONSTANTS
  Versions,     \* versions of codewiki: what they write differs
  Starts,       \* what the user may have: records [target, text, json]
  Edits,        \* what the user may add to each text file: sets of lines
  Breaks,       \* texts that do not parse, for the JSON files
  Lists,        \* texts that parse to something that is no object
  MaxSteps      \* bound on the commands and edits of a behaviour

VARIABLES
  target,       \* whose files these are
  text,         \* text files: tokens or lines
  json,         \* JSON files
  backup,       \* the copy beside a JSON file that did not parse
  mine,         \* what of the text files is the user's
  settings,     \* what of the JSON files is the user's
  tampered,     \* the user has removed an end marker
  cut,          \* hooks whose writing was cut off since the user last wrote
  last,         \* the last command, when nothing was edited since
  steps

vars == <<target, text, json, backup, mine, settings, tampered, cut, last, steps>>

-----------------------------------------------------------------------------
(* JSON.                                                                      *)
Empty == [k \in {} |-> {}]
NoFile == [missing |-> TRUE]
Broken(b) == [broken |-> b]
IsBroken(c) == c # NoFile /\ "broken" \in DOMAIN c
List(l) == [list |-> l]
IsList(c) == c # NoFile /\ "list" \in DOMAIN c
Object(c) == IF c = NoFile \/ IsBroken(c) \/ IsList(c) THEN Empty ELSE c

Has(o, k) == k \in DOMAIN o
Put(o, k, v) == [x \in DOMAIN o \cup {k} |-> IF x = k THEN v ELSE o[x]]
Without(o, k) == Restrict(o, DOMAIN o \ {k})
Part(o, k) == IF Has(o, k) THEN o[k] ELSE Empty
Pruned(o, k) == IF Part(o, k) = Empty THEN Without(o, k) ELSE o
Items(o, k) == IF Has(o, k) THEN o[k].items ELSE {}

Entry(v) == [entry |-> v]
HasServer(o, key) == Has(Part(o, key), "codewiki")
WithServer(o, key, v) == Put(o, key, Put(Part(o, key), "codewiki", Entry(v)))
WithoutServer(o, key) == Pruned(Put(o, key, Without(o[key], "codewiki")), key)

(* Claude's settings.json: the tools that need no question.                   *)
Permissions == {"mcp__codewiki__search", "mcp__codewiki__node"}

Allowed(o) == Items(Part(o, "permissions"), "allow")
WithAllowed(o, tools) ==
  Put(o, "permissions", Put(Part(o, "permissions"), "allow", [items |-> tools]))
WithoutPermissions(o) ==
  IF Allowed(o) \cap Permissions = {} THEN o
  ELSE LET left == Allowed(o) \ Permissions
           permissions == IF left = {} THEN Without(o["permissions"], "allow")
                          ELSE WithAllowed(o, left)["permissions"]
       IN Pruned(Put(o, "permissions", permissions), "permissions")

(* ... and its hooks: of each event a set of groups, of each group a set of   *)
(* commands.                                                                  *)
LegacyCommands == {"codewiki mark-dirty", "codewiki sync-if-dirty"}

WithoutLegacyHooks(o) ==
  LET hooks == Part(o, "hooks")
      stale == \E e \in DOMAIN hooks : \E g \in hooks[e].items :
                 g.commands \cap LegacyCommands # {}
      Cleaned(e) == {g \in {[h EXCEPT !.commands = @ \ LegacyCommands] : h \in hooks[e].items} :
                       g.commands # {}}
      events == {e \in DOMAIN hooks : Cleaned(e) # {}}
  IN IF ~stale THEN o
     ELSE Pruned(Put(o, "hooks", [e \in events |-> [items |-> Cleaned(e)]]), "hooks")

-----------------------------------------------------------------------------
(* The steps of a command, on the files as a record [text, json, backup].     *)
Files == [text |-> text, json |-> json, backup |-> backup]

(* read_json_file: a text that does not parse is copied first; one that       *)
(* parses to no object is not, and counts as {} all the same.                 *)
Backed(fs, f) ==
  IF IsBroken(fs.json[f]) THEN [fs EXCEPT !.backup[f] = fs.json[f]] ELSE fs
SetJson(fs, f, c) == [fs EXCEPT !.json[f] = c]
SetText(fs, f, t) == [fs EXCEPT !.text[f] = t]

(* opencode: the .jsonc when it is there, then the .json.                     *)
ConfigName(fs) ==
  IF fs.json["jsonc"] = NoFile /\ fs.json["json"] # NoFile THEN "json" ELSE "jsonc"

WriteMcp(fs, v) == SetJson(Backed(fs, "mcp"), "mcp", WithServer(Object(fs.json["mcp"]), "mcpServers", v))
RemoveMcp(fs) ==
  IF HasServer(Object(fs.json["mcp"]), "mcpServers")
    THEN SetJson(fs, "mcp", WithoutServer(fs.json["mcp"], "mcpServers"))
    ELSE Backed(fs, "mcp")

CleanLegacyMcp(fs) ==
  IF ~HasServer(Object(fs.json["legacy"]), "mcpServers") THEN Backed(fs, "legacy")
  ELSE LET left == WithoutServer(fs.json["legacy"], "mcpServers")
       IN SetJson(fs, "legacy", IF left = Empty THEN NoFile ELSE left)

WritePermissions(fs) ==
  LET o == Object(fs.json["settings"]) IN
  SetJson(Backed(fs, "settings"), "settings", WithAllowed(o, Allowed(o) \cup Permissions))

(* Reads the file and gives it back without something, when it is there.      *)
CleanSettings(fs, Clean(_)) ==
  LET o == Object(fs.json["settings"]) IN
  IF Clean(o) = o THEN Backed(fs, "settings") ELSE SetJson(fs, "settings", Clean(o))

OpencodeSchema == "$schema"
WriteOpencode(fs, v) ==
  LET f == ConfigName(fs)
      o == Object(fs.json[f])
      seeded == IF Has(o, OpencodeSchema) THEN o ELSE Put(o, OpencodeSchema, Entry(OpencodeSchema))
  IN IF Has(Part(o, "mcp"), "codewiki") /\ o["mcp"]["codewiki"] = Entry(v) THEN fs
     ELSE SetJson(fs, f, WithServer(seeded, "mcp", v))
RemoveOpencode(fs) ==
  LET f == ConfigName(fs) IN
  IF HasServer(Object(fs.json[f]), "mcp") THEN SetJson(fs, f, WithoutServer(fs.json[f], "mcp"))
  ELSE fs

(* opencode refuses a file that does not parse, and its install panics on one *)
(* that holds no object (opencode.rs:143); the others go on.                  *)
Refused(fs, step, name) ==
  LET c == fs.json[ConfigName(fs)] IN
  step = "opencode" /\ (IsBroken(c) \/ (IsList(c) /\ name[1] = "install"))

InstallStep(fs, step, v) ==
  CASE step = "mcp" -> WriteMcp(fs, v)
    [] step = "legacy" -> CleanLegacyMcp(fs)
    [] step = "permissions" -> WritePermissions(fs)
    [] step = "hooks" -> CleanSettings(fs, WithoutLegacyHooks)
    [] step = "opencode" -> WriteOpencode(fs, v)
    [] step = "claude.md" -> SetText(fs, step, ClaudeInstructions(fs.text[step], v))
    [] step = "agents.md" -> SetText(fs, step, ReplaceOrAppend(fs.text[step], Template(v)))
    [] step = "rules" -> SetText(fs, step, CursorRules(fs.text[step], v))
    [] step = "toml" -> SetText(fs, step, UpsertTable(fs.text[step], v))
    [] step = "yaml" -> SetText(fs, step, HermesInstall(fs.text[step], v))
    [] OTHER -> SetText(fs, step, InstallHook(fs.text[step], v))

UninstallStep(fs, step) ==
  CASE step = "mcp" -> RemoveMcp(fs)
    [] step = "legacy" -> CleanLegacyMcp(fs)
    [] step = "permissions" -> CleanSettings(fs, WithoutPermissions)
    [] step = "hooks" -> CleanSettings(fs, WithoutLegacyHooks)
    [] step = "opencode" -> RemoveOpencode(fs)
    [] step \in {"claude.md", "agents.md"} -> SetText(fs, step, RemoveMarked(fs.text[step]))
    [] step = "rules" -> SetText(fs, step, RemoveCursorRules(fs.text[step]))
    [] step = "toml" -> SetText(fs, step, RemoveTable(fs.text[step]))
    [] step = "yaml" -> SetText(fs, step, HermesRemove(fs.text[step]))
    [] OTHER -> SetText(fs, step, RemoveHook(fs.text[step]))

HookFiles == {"post-commit", "post-merge"}

StepsOf(t) ==
  CASE t = "claude" -> <<"mcp", "legacy", "permissions", "hooks", "claude.md">>
    [] t = "cursor" -> <<"mcp", "rules">>
    [] t = "codex" -> <<"toml", "agents.md">>
    [] t = "opencode" -> <<"opencode", "agents.md">>
    [] t = "hermes" -> <<"yaml">>
    [] t = "hooks" -> <<"post-commit", "post-merge">>

(* The first n steps, up to one that refuses.                                 *)
Done(n, name, Step(_, _)) ==
  FoldLeft(LAMBDA s, step :
             IF ~s.ok \/ Refused(s.files, step, name) THEN [s EXCEPT !.ok = FALSE]
             ELSE [s EXCEPT !.files = Step(s.files, step)],
           [ok |-> TRUE, files |-> Files],
           SubSeq(StepsOf(target), 1, n))

Command(n, name, Step(_, _)) ==
  LET done == Done(n, name, Step) IN
  /\ steps < MaxSteps
  /\ text' = done.files.text
  /\ json' = done.files.json
  /\ backup' = done.files.backup
  /\ last' = IF done.ok /\ n = Len(StepsOf(target)) THEN name ELSE <<"stopped">>
  /\ steps' = steps + 1
  /\ UNCHANGED <<target, mine, settings, tampered, cut>>

(* What a write that stops leaves of a text: some of its lines, and part of   *)
(* the next.                                                                  *)
Rests(lines) ==
  UNION {{SubSeq(lines, 1, k), Append(SubSeq(lines, 1, k), CutLine)} : k \in 0 .. Len(lines) - 1}

(* The n-th step is the write of a hook, which truncates the file first, and  *)
(* the command ends in it.  An uninstall leaves a hook without the block      *)
(* alone and deletes one with nothing else in it.                             *)
StoppedInHook(n, name, Step(_, _)) ==
  LET before == Done(n - 1, name, Step).files
      f == StepsOf(target)[n]
      new == Step(before, f).text[f]
  IN /\ target = "hooks"
     /\ steps < MaxSteps
     /\ name[1] = "install" \/ new \notin {before.text[f], <<>>}
     /\ \E rest \in Rests(new) : text' = [before.text EXCEPT ![f] = rest]
     /\ cut' = cut \cup {f}
     /\ last' = <<"stopped">>
     /\ steps' = steps + 1
     /\ UNCHANGED <<target, json, backup, mine, settings, tampered>>

Install(v) ==
  \E n \in 1 .. Len(StepsOf(target)) :
    \/ Command(n, <<"install", v>>, LAMBDA fs, step : InstallStep(fs, step, v))
    \/ StoppedInHook(n, <<"install", v>>, LAMBDA fs, step : InstallStep(fs, step, v))

Uninstall ==
  \E n \in 1 .. Len(StepsOf(target)) :
    \/ Command(n, <<"uninstall">>, UninstallStep)
    \/ StoppedInHook(n, <<"uninstall">>, UninstallStep)

(* `codewiki uninit`: the index goes, nothing is done to the hooks.           *)
Uninit ==
  /\ target = "hooks"
  /\ steps < MaxSteps
  /\ last' = <<"uninit">>
  /\ steps' = steps + 1
  /\ UNCHANGED <<target, text, json, backup, mine, settings, tampered, cut>>

-----------------------------------------------------------------------------
(* The user.  What is theirs of a text is all that codewiki never writes.     *)
Codewikis == {NL, Blank, SectionStart, SectionEnd, LegacyHeader, "legacy text", HookBegin, HookEnd, CutLine,
              "---", "alwaysApply"} \cup Shebangs \cup Versions
CodewikiLines ==
  {BlankLine, CodexHeader, Key(0, "command"), Key(0, "mcp_servers"), Key(2, "codewiki"),
   Key(4, "command"), Key(0, "platform_toolsets"), Key(2, "cli"), Item(4, "hermes-cli"), Toolset}
     \cup {Key(i, v) : i \in {0, 4}, v \in Versions}

Own(f, lines) ==
  SelectSeq(lines, LAMBDA l : l \notin IF f \in {"toml", "yaml"} THEN CodewikiLines ELSE Codewikis)

(* ... and of a JSON file what is left without codewiki's keys, empty objects *)
(* apart.                                                                     *)
OwnSettings(c) ==
  IF IsBroken(c) \/ IsList(c) THEN c
  ELSE LET o == WithoutLegacyHooks(WithoutPermissions(Object(c)))
           Clear(p, key) == IF HasServer(p, key) THEN WithoutServer(p, key) ELSE Pruned(p, key)
       IN Without(Clear(Clear(o, "mcpServers"), "mcp"), OpencodeSchema)

Edited(newText, newJson) ==
  /\ steps < MaxSteps
  /\ text' = newText
  /\ json' = newJson
  /\ mine' = [f \in DOMAIN newText |-> Own(f, newText[f])]
  /\ settings' = [f \in DOMAIN newJson |-> OwnSettings(newJson[f])]
  /\ cut' = {}
  /\ last' = <<"edited">>
  /\ steps' = steps + 1
  /\ UNCHANGED <<target, backup>>

(* Outside codewiki's block or its section of old, and where the file takes such lines.             *)
InBlock(f, i) ==
  LET opened == SelectLastInSubSeq(text[f], 1, i, LAMBDA l : l \in {SectionStart, HookBegin, LegacyHeader})
      closed == SelectLastInSubSeq(text[f], 1, i, LAMBDA l : l \in {SectionEnd, HookEnd} \cup Headers)
  IN opened > closed

Takes(f, lines, i) ==
  LET follows == IF i < Len(text[f]) THEN text[f][i + 1] ELSE BlankLine IN
  CASE f = "toml" -> i = Len(text[f]) \/ follows.kind = "table"
    [] f = "yaml" -> IF lines[1].indent = 0
                       THEN i = Len(text[f]) \/ (follows.kind = "key" /\ follows.indent = 0)
                       ELSE i > 0 /\ text[f][i] = Key(0, "mcp_servers")
    [] f \in HookFiles -> ~InBlock(f, i) /\ (i > 0 \/ text[f] = <<>>)
    [] OTHER -> ~InBlock(f, i) /\ (i = 0 \/ text[f][i] = NL)

Write ==
  \E f \in DOMAIN text : \E lines \in Edits[f] :
  \E i \in {p \in 0 .. Len(text[f]) : Takes(f, lines, p)} :
    /\ Edited([text EXCEPT ![f] = SubSeq(@, 1, i) \o lines \o SubSeq(@, i + 1, Len(@))], json)
    /\ UNCHANGED tampered

(* "delete this block", says the hook.                                        *)
DeleteBlock ==
  \E f \in HookFiles \cap DOMAIN text :
    /\ Contains(text[f], HookBegin)
    /\ Edited([text EXCEPT ![f] = StripBlock(@)], json)
    /\ UNCHANGED tampered

LoseEndMarker ==
  \E f \in DOMAIN text, end \in {SectionEnd, HookEnd} :
    /\ f \notin {"toml", "yaml"}
    /\ Contains(text[f], end)
    /\ Edited([text EXCEPT ![f] = RemoveFirst(@, end)], json)
    /\ tampered' = TRUE

BreakJson ==
  \E f \in DOMAIN json, b \in Breaks :
    /\ \A g \in DOMAIN json : Broken(b) # json[g] /\ Broken(b) # backup[g]
    /\ Edited(text, [json EXCEPT ![f] = Broken(b)])
    /\ UNCHANGED tampered

WriteList ==
  \E f \in DOMAIN json, l \in Lists :
    /\ Edited(text, [json EXCEPT ![f] = List(l)])
    /\ UNCHANGED tampered

-----------------------------------------------------------------------------
Init ==
  \E s \in Starts :
    /\ target = s.target
    /\ text = s.text
    /\ json = s.json
    /\ backup = [f \in DOMAIN s.json |-> NoFile]
    /\ mine = [f \in DOMAIN s.text |-> Own(f, s.text[f])]
    /\ settings = [f \in DOMAIN s.json |-> OwnSettings(s.json[f])]
    /\ tampered = FALSE
    /\ cut = {}
    /\ last = <<"edited">>
    /\ steps = 0

Next ==
  \/ \E v \in Versions : Install(v)
  \/ Uninstall
  \/ Uninit
  \/ Write
  \/ DeleteBlock
  \/ LoseEndMarker
  \/ BreakJson
  \/ WriteList

Spec == Init /\ [][Next]_vars

-----------------------------------------------------------------------------
(* What the installer owes to the files it shares with the user.              *)

(* Every text file is a sequence, every JSON file an object, a text that      *)
(* holds none or no file; a copy holds a text that did not parse.             *)
TypeOK ==
  /\ target \in {s.target : s \in Starts}
  /\ \A f \in DOMAIN text : text[f] = SubSeq(text[f], 1, Len(text[f]))
  /\ \A f \in DOMAIN json :
       /\ IsBroken(json[f]) => json[f] \in {Broken(b) : b \in Breaks}
       /\ IsList(json[f]) => json[f] \in {List(l) : l \in Lists}
       /\ backup[f] \in {NoFile} \cup {Broken(b) : b \in Breaks}
  /\ tampered \in BOOLEAN
  /\ cut \subseteq HookFiles \cap DOMAIN text
  /\ last \in {<<"edited">>, <<"stopped">>, <<"uninstall">>, <<"uninit">>}
                 \cup {<<"install", v>> : v \in Versions}
  /\ steps \in 0 .. MaxSteps

(* However often the versions of the program install and remove themselves,   *)
(* wherever the user writes and after whatever step a command stops, the      *)
(* lines of the user are all there, in their order.  Once an end marker is    *)
(* gone the lines above the block are (git_hooks.rs:118, shared.rs:141,       *)
(* codex.rs:55).  A command that stops while it writes a hook in place        *)
(* (git_hooks.rs:147, 199) loses lines of this hook, from the end, and of no  *)
(* other; later commands lose no more and bring nothing in.                   *)
AboveBlock(f, lines) ==
  LET at == SelectInSeq(lines, LAMBDA l : l \in {SectionStart, HookBegin, LegacyHeader}) IN
  IF f \in {"toml", "yaml"} \/ at = 0 THEN lines ELSE SubSeq(lines, 1, at - 1)

OwnLinesKept ==
  \A f \in DOMAIN text :
    IF tampered THEN IsPrefix(Own(f, AboveBlock(f, text[f])), mine[f])
    ELSE IF f \in cut THEN IsPrefix(Own(f, text[f]), mine[f])
    ELSE Own(f, text[f]) = mine[f]

(* The settings of the user stay what they are; a file that did not parse is  *)
(* untouched or in its copy ("an idempotent re-run never silently deletes     *)
(* user config", shared.rs:73).  One that parses to something else than an    *)
(* object has no copy (shared.rs:80): it is untouched, or an install wrote    *)
(* codewiki's keys, and nothing else, in its place; never the file of         *)
(* opencode or the one of old that is only cleaned.                           *)
OwnSettingsKept ==
  \A f \in DOMAIN json :
    CASE IsBroken(settings[f]) -> settings[f] \in {json[f], backup[f]}
      [] IsList(settings[f]) ->
           json[f] = settings[f] \/ (f \in {"mcp", "settings"} /\ OwnSettings(json[f]) = Empty)
      [] OTHER -> OwnSettings(json[f]) = settings[f]

(* After an install that ran to its end every file says once, and under the   *)
(* key where the agent looks for it, what this version says, in a block that  *)
(* is closed.                                                                 *)
Occurrences(s, e) == Cardinality({i \in DOMAIN s : s[i] = e})

Says(f, v) ==
  LET t == text[f] IN
  CASE f = "toml" ->
         /\ Occurrences(t, CodexHeader) = 1
         /\ SubSeq(t, CodexAt(t), CodexAt(t) + 2) = CodexBlock(v)
    [] f = "yaml" ->
         LET servers == TopLevelRange(t, "mcp_servers") IN
         /\ Occurrences(t, Key(2, "codewiki")) = 1
         /\ Occurrences(t, Toolset) = 1
         /\ t[servers.start].indent = 0
         /\ \E i \in servers.start + 1 .. servers.beyond - 3 :
              SubSeq(t, i, i + 2) = HermesServer(v)
    [] f \in HookFiles ->
         /\ Occurrences(t, HookBegin) = 1
         /\ SubSeq(t, SelectInSeq(t, LAMBDA l : l = HookBegin), Len(t)) = HookBlock(v)
    [] OTHER ->
         /\ Occurrences(t, SectionStart) = 1
         /\ IndexFirstSubSeq(Template(v), t) = Find(t, SectionStart)

InstalledSaysOnce ==
  \A v \in Versions :
    last = <<"install", v>> /\ ~tampered =>
      /\ \A f \in DOMAIN text : Says(f, v)
      /\ target \in {"claude", "cursor"} => json["mcp"]["mcpServers"]["codewiki"] = Entry(v)
      /\ target = "opencode" => json[ConfigName(Files)]["mcp"]["codewiki"] = Entry(v)
      /\ target = "claude" => /\ Permissions \subseteq Allowed(json["settings"])
                              /\ ~HasServer(Object(json["legacy"]), "mcpServers")

(* After an uninstall that ran to its end nothing names codewiki any more,    *)
(* whatever was installed, edited and stopped before it, but a marker line    *)
(* cut in two.  Of opencode's two files the one it goes by counts.            *)
Traces == {SectionStart, HookBegin} \cup Versions
TraceLines == {CodexHeader, Key(2, "codewiki"), Toolset}

UninstalledLeavesNothing ==
  last = <<"uninstall">> /\ ~tampered =>
    /\ \A f \in DOMAIN text :
         ToSet(text[f]) \cap (IF f \in {"toml", "yaml"} THEN TraceLines ELSE Traces) = {}
    /\ \A f \in DOMAIN json :
         /\ ~HasServer(Object(json[f]), "mcpServers")
         /\ target = "opencode" /\ f = ConfigName(Files) => ~HasServer(Object(json[f]), "mcp")
         /\ Allowed(Object(json[f])) \cap Permissions = {}

(* Installing again what is installed changes nothing but empty lines         *)
(* ("Idempotent: re-running replaces our marker block", git_hooks.rs:117).    *)
NonBlank(f, lines) == SelectSeq(lines, LAMBDA l : l \notin IF f \in {"toml", "yaml"} THEN {BlankLine} ELSE {Blank})

InstallIsStable ==
  [][\A v \in Versions :
       last = <<"install", v>> /\ last' = last /\ ~tampered =>
         /\ json' = json
         /\ \A f \in DOMAIN text : NonBlank(f, text'[f]) = NonBlank(f, text[f])]_vars

-----------------------------------------------------------------------------
(* The properties above, by what they are about. *)

(* What the user wrote is still there, in texts and in settings.              *)
OwnKept == TypeOK /\ OwnLinesKept /\ OwnSettingsKept

(* A command that ran to its end has done what it says, and all of it.         *)
EndsAsSaid == InstalledSaysOnce /\ UninstalledLeavesNothing
=============================================================================
