----------------------------- MODULE MCSources -----------------------------
EXTENDS IndexReports

Nothing == [nodes |-> {}, classes |-> {}, calls |-> {}, constants |-> {},
            wrappers |-> {}]
File(id, ext, syntax) ==
  [id |-> id, ext |-> ext, dirs |-> {}, linked |-> FALSE, symlink |-> FALSE,
   size |-> 1, nul |-> FALSE, utf8 |-> TRUE, raises |-> FALSE, syntax |-> syntax]

Literal(v) == [kind |-> "literal", value |-> v]
Constant(k) == [kind |-> "constant", value |-> k]
Name(v) == [kind |-> "name", value |-> v]
Path(segments) == [segments |-> segments]
Expression(e) == [object |-> FALSE, expr |-> e, url |-> Absent, method |-> Absent]
Object(url, method) == [object |-> TRUE, expr |-> Name("object"), url |-> url,
                        method |-> method]
Call(line, at, client, property, arg, options) ==
  [line |-> line, at |-> at, client |-> client, property |-> property,
   first |-> {arg}, options |-> options]

Method(name, line, mappings, calls) ==
  [name |-> name, line |-> line, mappings |-> mappings, calls |-> calls]
Mapping(paths, verbs) == [paths |-> paths, verbs |-> verbs]
Class(name, line, annotations, bases, methods) ==
  [scopes |-> <<>>, name |-> name, line |-> line, annotations |-> annotations,
   bases |-> bases, methods |-> methods, fields |-> {}, constructor |-> {}]
Java(id, classes) == File(id, ".java", [Nothing EXCEPT !.classes = classes])

On(x, method) == [on |-> x, method |-> method]

\* A controller whose service is injected, with one route and one call.
Controller ==
  [Class("UserController", 1, {"RestController"}, {<<"users">>},
         {Method("get", 3, {Mapping({<<"{id}">>, <<>>}, {"GET"})}, {On("users", "find")}),
          Method("all", 5, {Mapping({<<>>}, {})}, {On("users", "find"), On("mail", "send")})})
   EXCEPT !.fields = {[name |-> "users", type |-> <<"UserService">>, injected |-> TRUE],
                      [name |-> "mail", type |-> <<"Mail">>, injected |-> FALSE]}]
Service == Class("UserService", 1, {"Service"}, {}, {Method("find", 2, {}, {})})
Overloaded ==
  Class("UserService", 1, {"Service"}, {}, {Method("find", 2, {}, {}), Method("find", 4, {}, {})})
Inner ==
  [Class("UserService", 4, {"Service"}, {}, {Method("find", 5, {}, {})})
   EXCEPT !.scopes = <<"Outer">>]
Mailer ==
  [Class("Mailer", 1, {"Service"}, {}, {Method("send", 2, {}, {On("users", "find")})})
   EXCEPT !.constructor = {[field |-> "users", type |-> <<"UserService">>]}]

\* A second controller that answers the same path and verb.
People ==
  Class("PeopleController", 1, {"Controller"}, {},
        {Method("list", 2, {Mapping({<<"users">>}, {"GET"})}, {})})

Script(id, ext, calls, constants, wrappers) ==
  File(id, ext, [Nothing EXCEPT !.calls = calls, !.constants = constants,
                                !.wrappers = wrappers])
Users == Path(<<"users">>)
Url(value) == [key |-> <<"API", "USERS">>, value |-> value]

Scripts == {
  Script(1, ".vue",
    {Call(1, 10, "axios", "GET", Expression(Literal(Path(<<"users", "42">>))), Absent),
     Call(2, 20, "fetch", Absent, Expression(Constant(<<"API", "USERS">>)),
          Literal("POST")),
     Call(3, 30, "request", Absent, Object(Constant(<<"API", "USERS">>), Absent), Absent),
     Call(4, 40, "console", "GET", Expression(Literal(Users)), Absent)}, {}, {}),
  Script(2, ".js", {}, {Url(Users)}, {[name |-> "request", body |-> <<"GET">>]}),
  Script(3, ".ts",
    {Call(1, 10, "http", "request", Object(Literal(Users), Name("verb")), Absent),
     Call(2, 20, "fetch", Absent, Expression(Name("url")), Absent)},
    {Url(Path(<<"people">>))},
    {[name |-> "request", body |-> <<"POST">>], [name |-> "get", body |-> <<>>]}),
  Script(4, ".js",
    {Call(1, 10, "axios", "GET", Expression(Literal(Users)), Absent),
     Call(1, 30, "axios", "GET", Expression(Literal(Users)), Absent)}, {}, {}),
  Script(5, ".js",
    {Call(1, 10, "axios", "GET", Expression(Literal(Broken)), Absent)}, {}, {})}

Sources_ == {
  Java(6, {Controller}), Java(7, {Service}), Java(8, {Overloaded}),
  Java(9, {Inner}), Java(10, {Mailer}),
  [Java(11, {Service}) EXCEPT !.raises = TRUE],
  [Java(12, {Service}) EXCEPT !.utf8 = FALSE, !.size = 2],
  [Java(13, {Service}) EXCEPT !.dirs = {"target"}],
  [Java(14, {Service}) EXCEPT !.symlink = TRUE],
  File(15, ".py", [Nothing EXCEPT !.nodes =
    {[kind |-> "class", name |-> "A", scopes |-> <<>>, line |-> 1],
     [kind |-> "function", name |-> "f",
      scopes |-> <<[kind |-> "class", name |-> "A", line |-> 1]>>, line |-> 2],
     [kind |-> "function", name |-> "g",
      scopes |-> <<[kind |-> "class", name |-> "A", line |-> 1],
                   [kind |-> "function", name |-> "f", line |-> 2]>>, line |-> 3]}]),
  [File(16, ".json", Nothing) EXCEPT !.nul = TRUE],
  Java(17, {People}), Java(18, {Service})}

\* The paths of 7 and 18 differ in case only.
MCFolded == [id \in 1..18 |-> IF id = 18 THEN 7 ELSE id]

MCTrees == UNION {kSubset(k, Scripts \cup Sources_) : k \in 1..4}
MCLanguages == (".java" :> "java") @@ (".py" :> "python") @@ (".vue" :> "vue")
  @@ (".js" :> "javascript") @@ (".ts" :> "typescript") @@ (".json" :> "json")
=============================================================================
