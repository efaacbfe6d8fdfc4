------------------------------- MODULE MCAgents -------------------------------
(* Six sets of files with what users keep in them: nothing, their own, what a *)
(* version before this one left.                                              *)
EXTENDS AgentTargets

MCHeaders == {"## Mine"}
Notes == <<"# Notes", NL, "a note", NL>>
Legacy == <<"# Notes", NL, LegacyHeader, NL, "legacy text", NL, "## Mine", NL, "more", NL>>

NoText == <<>>
Theme == [theme |-> Entry("dark")]
Servers == [mcpServers |-> [other |-> Entry("other")]]
OldServer == [mcpServers |-> [codewiki |-> Entry("v1")]]
Hooked ==
  [hooks |-> [Stop |-> [items |-> {[matcher |-> "a", commands |-> {"codewiki mark-dirty"}],
                                   [matcher |-> "b", commands |-> {"codewiki sync-if-dirty", "mine"}]}]],
   permissions |-> [allow |-> [items |-> {"Bash"}]]]
OnlyHooked ==
  [hooks |-> [Stop |-> [items |-> {[matcher |-> "a", commands |-> {"codewiki mark-dirty"}]}]]]

Start(t, texts, jsons) == [target |-> t, text |-> texts, json |-> jsons]
NoJson == [f \in {} |-> NoFile]

MCStarts ==
  {Start("claude", "claude.md" :> t, [mcp |-> m, legacy |-> l, settings |-> s]) :
     t \in {NoText, Notes, Legacy}, m \in {NoFile, Servers}, l \in {NoFile, OldServer},
     s \in {NoFile, Hooked, OnlyHooked}}
  \cup {Start("cursor", "rules" :> t, "mcp" :> m) :
          t \in {NoText, Notes}, m \in {NoFile, Theme, Servers}}
  \cup {Start("codex", [f \in {"toml", "agents.md"} |-> IF f = "toml" THEN t ELSE n], NoJson) :
          t \in {NoText, <<Key(0, "model"), BlankLine, Table("tools"), Key(0, "web")>>,
                 <<CodexHeader, Key(0, "command"), Key(0, "v1"), BlankLine, Table("tools"), Key(0, "web")>>},
          n \in {NoText, Notes}}
  \cup {Start("opencode", "agents.md" :> Notes, [jsonc |-> c, json |-> j]) :
          c \in {NoFile, Theme}, j \in {NoFile, Theme}}
  \cup {Start("hermes", "yaml" :> t, NoJson) :
          t \in {NoText,
                 <<Key(0, "model"), BlankLine, Key(0, "mcp_servers"), Key(2, "other"), Key(4, "command"),
                   BlankLine, Comment("tools"), Key(0, "platform_toolsets"), Key(2, "web"), Item(4, "x")>>,
                 <<Key(0, "platform_toolsets"), Key(2, "cli"), Item(4, "x"), BlankLine, Key(2, "web"),
                   Item(4, "y"), Key(0, "mcp_servers")>>}}
  \cup {Start("hooks", [f \in HookFiles |-> IF f = "post-commit" THEN t ELSE NoText], NoJson) :
          t \in {NoText, <<"#!/usr/bin/env bash", "mine">>, <<"#!/bin/sh">>}}

MCEdits ==
  [f \in {"claude.md", "agents.md", "rules", "toml", "yaml"} \cup HookFiles |->
     CASE f = "toml" -> {<<Table("edit"), Key(0, "edit")>>}
       [] f = "yaml" -> {<<Key(0, "edit"), Key(2, "edit")>>, <<Key(2, "edit"), Key(4, "edit")>>}
       [] f \in HookFiles -> {<<"edit">>}
       [] OTHER -> {<<"edit", NL>>}]

MCVersions == {"v1", "v2"}
=============================================================================
