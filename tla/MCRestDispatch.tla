---------------------------- MODULE MCRestDispatch ----------------------------
(* Instance of RestDispatch: a users API with a stub per user and a default *)
(* one, creation that turns into an update, wrapped updates, deletes.       *)
EXTENDS RestDispatch, TLC

User(id) == [dir |-> "users", name |-> <<id>>]

MCDisk == ( User("7") :> ("x" :> <<"old">>) ) @@ ( User("default") :> ("x" :> <<"d">>) )

MCNewNames == {<<"u1">>}

MCRegexMatches == [any |-> {<<"/", "health">>}, seven |-> {<<"7">>}]

Route(method, match, conditions, transitions, cases, fallback) ==
    [enabled |-> TRUE, method |-> method, match |-> match, conditions |-> conditions,
     transitions |-> transitions, cases |-> cases, fallback |-> fallback]

ById == <<"/", "users", "/", "{id}">>
Starred == <<"/", "users", "/", "*">>
ByPath == [dir |-> "users", source |-> "path", field |-> "{id}"]
InDir == [dir |-> "users", name |-> <<>>]
Cond(op, source, field, value, case) ==
    [op |-> op, source |-> source, field |-> field, value |-> value, case |-> case]

Persist(merge, file) == [NoCase EXCEPT !.persist = TRUE, !.merge = merge, !.file = file]

MCRoutes == <<
    [Route("GET", Starred, <<>>, <<>>, ("ok" :> NoCase), "ok") EXCEPT !.enabled = FALSE],
    Route("GET", ById, <<>>, <<>>, ("one" :> [NoCase EXCEPT !.file = ByPath]), "one"),
    Route("GET", Starred, <<>>, <<>>, ("any" :> [NoCase EXCEPT !.file = User("default")]), "any"),
    Route("GET", <<"~", "any">>, <<>>, <<>>, ("ok" :> [NoCase EXCEPT !.json = TRUE]), "none"),
    Route("POST", ById, <<>>, <<"soon", "ready">>,
          ("created" :> [Persist("append", InDir) EXCEPT !.key = "{id}", !.source = "user",
                                                         !.wrap = "user"])
          @@ ("ready" :> [Persist("update", ByPath) EXCEPT !.defaults = ("s" :> <<"ready">>)]),
          "created"),
    Route("POST", <<"/", "users">>, << Cond("exists", "body", "name", None, "named") >>, <<>>,
          ("auto" :> [Persist("append", InDir) EXCEPT !.key = "id"])
          @@ ("named" :> [Persist("append", [dir |-> "users", source |-> "body",
                                             field |-> "name"]) EXCEPT !.key = "id"]),
          "auto"),
    Route("PUT", Starred,
          << Cond("eq", "header", "mode", <<"cascade">>, "cascade"),
             Cond("contains", "path", "id", <<"seven">>, "none"),
             Cond("eq", "query", "mode", <<"full">>, "full") >>, <<>>,
          ("merge" :> [Persist("update", ByPath) EXCEPT !.source = "user", !.wrap = "user"])
          @@ ("full" :> [Persist(None, None) EXCEPT !.defaults = ("user" :> <<"anon">>)])
          @@ ("cascade" :> Persist("cascade", None)),
          "merge"),
    Route("DELETE", ById, << Cond("regex", "path", "{id}", "seven", "gone") >>, <<>>,
          ("gone" :> Persist("delete", None)) @@ ("other" :> Persist("purge", ByPath))
          @@ ("root" :> [Persist("delete", ByPath) EXCEPT !.source = "user"]),
          "root") >>

Req(method, path, fields, sub) ==
    [method |-> method, path |-> path, query |-> NoParams, header |-> NoParams,
     fields |-> fields, sub |-> sub]

Api == <<"/", "api">>
At(id) == Api \o <<"/", "users", "/", id>>
Sub == "user" :> ("x" :> <<"new">>)

MCRequests == {
    Req("GET", At("7"), NoParams, NoParams),
    Req("GET", At("9"), NoParams, NoParams),
    Req("GET", Api, NoParams, NoParams),
    Req("GET", <<"/", "health">>, NoParams, NoParams),
    Req("GET", <<"/", "v2", "/", "users", "/", "7">>, NoParams, NoParams),
    Req("POST", Api \o <<"/", "users">>, "id" :> <<"a", "/", "b">>, NoParams),
    Req("POST", At("7"), NoParams, Sub),
    Req("POST", At("9"), "x" :> <<"flat">>, NoParams),
    Req("POST", Api \o <<"/", "users">>, NoParams, NoParams),
    Req("POST", Api \o <<"/", "users">>, "name" :> <<"a", "/", "b">>, NoParams),
    Req("PUT", At("7"), NoParams, Sub),
    Req("PUT", At("7"), "user" :> <<"text">>, NoParams),
    [Req("PUT", At("7"), NoParams, NoParams) EXCEPT !.query = ("mode" :> <<"full">>)],
    [Req("PUT", At("7"), NoParams, NoParams) EXCEPT !.header = ("mode" :> <<"cascade">>)],
    Req("DELETE", At("7"), NoParams, NoParams),
    Req("DELETE", At("9"), NoParams, NoParams) }

\* A star with text after it, and a path in which that text comes twice.
MCReadRoutes == <<
    Route("GET", Starred \o <<"/", "all">>, <<>>, <<>>,
          ("all" :> [NoCase EXCEPT !.json = TRUE]), "all"),
    Route("GET", Starred, <<>>, <<>>, ("any" :> [NoCase EXCEPT !.file = User("default")]), "any") >>

MCReadRequests == {
    Req("GET", At("7") \o <<"/", "all">>, NoParams, NoParams),
    Req("GET", At("7") \o <<"/", "all", "/", "all">>, NoParams, NoParams) }

\* The goroutines are alike.
Goroutines == Permutations(Threads)
=============================================================================
