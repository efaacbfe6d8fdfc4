------------------------------ MODULE MCSearch ------------------------------
(* Up to four of eight symbols, with names that contain, start or resemble      *)
(* each other, in two languages and four files, one of tests.                *)
EXTENDS SearchSystem, TLC

S(name, kind, lang, dirs, stem, from, to, test) ==
  [name |-> name, qname |-> name, words |-> <<name>>, kind |-> kind, lang |-> lang, dirs |-> dirs,
   stem |-> stem, from |-> from, to |-> to, test |-> test]

MCSymbol == <<
  S("cache", "function", "ts", <<"lib">>, "cache", 1, 3, FALSE),
  S("cacheevict", "class", "ts", <<"lib">>, "cache", 5, 14, FALSE),
  S("cachestore", "class", "ts", <<"lib">>, "cache", 7, 9, FALSE),
  S("cachestore", "class", "ts", <<"lib", "test">>, "cache", 1, 4, TRUE),
  [S("evict", "function", "python", <<"lib">>, "old", 1, 5, FALSE) EXCEPT !.words = <<"evict", "cache">>],
  [S("getuser", "method", "ts", <<"app">>, "user", 2, 4, FALSE) EXCEPT !.qname = "user::getuser"],
  S("getusers", "variable", "python", <<"app">>, "user", 20, 20, FALSE),
  S("mutate", "function", "ts", <<"lib">>, "cache", 13, 14, FALSE) >>

MCBm25 == <<6000, 24000, 24000, 24000, 12000, 18000, 18000, 30000>>

T(key, sep, value) == [key |-> key, sep |-> sep, value |-> value]
P(w) == T("", "", w)
MCQueries ==
  { <<P("cache")>>, <<P("getuser")>>, <<P("etuse")>>, <<P("getusers")>>, <<P("gutuser")>>, <<P("x")>>,
    <<P("cache"), P("cache")>>, <<P("cache"), P("evict")>>, <<P("get"), P("user")>>,
    <<T("user", "::", "getuser")>>, <<T("path", "::", "getuser")>>, <<T("todo", ":", "cache")>>,
    <<T("kind", ":", "class")>>, <<T("kind", ":", "class"), P("evict")>>,
    <<T("kind", ":", "nothing"), P("cache")>>, <<T("lang", ":", "ts"), P("etuser")>>,
    <<T("lang", ":", "python"), P("cache")>>, <<T("lang", ":", "python"), P("getuser")>>,
    <<T("path", ":", "lib"), P("cache")>>, <<T("name", ":", "store"), P("cache")>>,
    <<T("path", ":", "app"), T("name", ":", "s")>> }
MCQuestions ==
  { <<"cache">>, <<"cache", "evict">>, <<"caching">>, <<"cached", "users">>, <<"store", "cache">>,
    <<"how", "does", "cache", "evict">>, <<"the", "mutation", "of", "users">>,
    <<"cache", "test">>, <<"cache", "evict", "user">> }

MCCanonical == ("ts" :> "ts" @@ "typescript" :> "ts" @@ "python" :> "python")
MCLn == <<0, 69, 110, 139>>    \* 100 ln n
MCIdf == [n \in 0..4, d \in 0..4 |->
            IF n > d + 1 THEN 100 + MCLn[n] - MCLn[d + 1] ELSE 100]
MCWords == UNION {{""}, {"a", "b"}, {"aa", "ab", "ba", "bb"}, {"aba", "bab", "abb", "baa"},
                  {"abab", "bbaa", "aabb", "baba"}}
=============================================================================
