--------------------------- MODULE MCRunPreparation ---------------------------
(* Small documents and projects for TLC, by what they exercise.            *)
EXTENDS ReferenceRuntime, Representation

Arg(key, kind, value) == [key |-> key, value |-> [kind |-> kind, value |-> value]]
S(name) == [name |-> name, args |-> <<>>]
With(name, args) == [name |-> name, args |-> args]
H(parts) == [parts |-> parts, balanced |-> TRUE]

Line(lexical, text) == [lexical |-> lexical, width |-> 1, text |-> text, property |-> FALSE]
Text(text) == Line("TextLine", text)
Fence(n) == [length |-> n] @@ Line("FenceLine", <<"~">>)
Interval(header) == [header |-> header] @@ Line("IntervalOpenLine", <<"+">>)
EndInterval(target) == [target |-> target] @@ Line("IntervalCloseLine", <<"-">>)
Block(header) == [header |-> header] @@ Line("BlockOpenLine", <<"<">>)
More(header) == [header |-> header] @@ Line("PipelineContinuationLine", <<"|">>)
EndBlock(target) == [target |-> target] @@ Line("BlockCloseLine", <<">">>)
Include(path) == [valid |-> TRUE, directive |-> [kind |-> "include", path |-> path, order |-> NoName]]
                   @@ Line("DirectiveLine", <<"!">>)
Config(order) == [valid |-> TRUE, directive |-> [kind |-> "config", path |-> NoName, order |-> order]]
                   @@ Line("DirectiveLine", <<"!">>)
UnknownDirective == [valid |-> FALSE, directive |-> [kind |-> "unknown"]]
                      @@ Line("DirectiveLine", <<"!">>)

a == Text(<<"a">>)
b == Text(<<"b", "b">>)
aWithProperty == [a EXCEPT !.property = TRUE]

Module(path, includes, functions) ==
  [path |-> path, includes |-> includes, functions |-> functions, package |-> NoPackage]
Project(modules) == [modules |-> modules, lock |-> NoLock, grants |-> {}]

Library == Project(<<Module("m", <<>>, {"f", "g", "h", "n", "p"})>>)

(* Markers that nest, cross, miss or repeat.                               *)
Markers ==
  [prefix |-> <<Include("m")>>, length |-> 6,
   lines |-> {a, Interval(H(<<S("f")>>)), EndInterval("f"),
              Block(H(<<S("g")>>)), EndBlock("g"),
              Interval(H(<<With("h", <<Arg("@id", "string", "f")>>)>>))},
   edits |-> {}, projects |-> {Library}]

(* Blocks closed by another's name.                                        *)
Nesting ==
  [prefix |-> <<Include("m"), Block(H(<<S("g")>>))>>, length |-> 5,
   lines |-> {Block(H(<<S("g")>>)), EndBlock("g"), Block(H(<<S("h")>>)), EndBlock("h"),
              Interval(H(<<S("f")>>)), EndInterval("f")},
   edits |-> {}, projects |-> {Library}]

(* Two intervals, the second first by its order, and blocks that take them *)
(* as they are, choose among them or place them.                           *)
Early == With("h", <<Arg("@id", "string", "x"), Arg("@order", "number", 1)>>)
Placed(args) == With("@intervals", args)
Inheriting(mode, selection) ==
  With("g", <<Arg("@inherit", "string", mode), Arg("@intervals", "list", selection)>>)

Pipelines ==
  [prefix |-> <<Include("m"), b, Interval(H(<<With("f", <<Arg("@order", "number", 2)>>)>>)),
                Interval(H(<<Early>>))>>, length |-> 5,
   lines |-> {a, EndInterval("x"), EndInterval("f"), EndBlock("g"), More(H(<<S("n")>>))}
             \cup {Block(H(stages)) : stages \in
                    {<<S("g")>>, <<S("g"), Placed(<<Arg("order", "string", "desc")>>), S("n")>>,
                     <<S("g"), Placed(<<Arg("except", "list", {"x"})>>)>>,
                     <<Inheriting("only", {"x"})>>, <<Inheriting("none", {})>>}},
   edits |-> {Config("desc")}, projects |-> {Library}]

(* Edits of documents that run: another text, another argument, a hidden   *)
(* property, a line that becomes another.                                  *)
Edits ==
  [prefix |-> <<Include("m")>>, length |-> 5,
   lines |-> {a, Interval(H(<<S("f")>>)), EndInterval("f"),
              Block(H(<<S("g"), S("h")>>)), EndBlock("g")},
   edits |-> {a, b, aWithProperty, Fence(3), Config("desc"),
              Interval(H(<<With("f", <<Arg("n", "number", 1)>>)>>)), Interval(H(<<S("n")>>)),
              Block(H(<<S("g"), With("h", <<Arg("n", "number", 1)>>)>>))},
   projects |-> {Library}]

(* Edits of documents most of whose stages a cache may serve.              *)
Revisions ==
  [prefix |-> <<Include("m")>>, length |-> 5,
   lines |-> {a, Interval(H(<<S("p")>>)), EndInterval("p"),
              Block(H(<<S("g"), S("p")>>)), Block(H(<<S("g"), S("h")>>)), EndBlock("g")},
   edits |-> {a, b, aWithProperty, Config("desc"), Interval(H(<<S("f")>>)),
              Interval(H(<<With("p", <<Arg("n", "number", 1)>>)>>)),
              Block(H(<<S("g"), With("p", <<Arg("n", "number", 1)>>)>>)),
              Block(H(<<With("g", <<Arg("n", "number", 1)>>), S("h")>>)),
              Block(H(<<With("g", <<Arg("@inherit", "string", "none")>>), S("p")>>))},
   projects |-> {Library}]

(* Everything that is not a well-formed marker, and literals.              *)
Lexical ==
  [prefix |-> <<Block(H(<<S("g")>>))>>, length |-> 4,
   lines |-> {a, Fence(3), Fence(4), Line("EscapedMarkerLine", <<"+">>), Line("PropertyLine", <<>>),
              Line("BlankLine", <<>>), Line("InvalidMarkerLine", <<"?">>), UnknownDirective,
              Block([parts |-> <<S("h")>>, balanced |-> FALSE]), Interval(H(<<S("f"), S("g")>>)),
              EndInterval(NoName), Block(H(<<S(NoName)>>)), More(H(<<S("f")>>)),
              EndBlock(NoName), EndBlock("g")},
   edits |-> {}, projects |-> {Library}]

(* Headers whose stages are at fault or just not.                          *)
Placements ==
  {With(name, args) : name \in {"f", "@intervals"},
     args \in {<<>>, <<Arg("only", "list", {"x"})>>, <<Arg("only", "string", "x")>>,
              <<Arg("only", "list", {}), Arg("except", "list", {})>>, <<Arg("order", "string", "up")>>,
              <<Arg("order", "string", "asc")>>, <<Arg("@order", "number", 1)>>,
              <<Arg("n", "number", 1), Arg("n", "number", 2)>>, <<Arg("n", "malformed", 0)>>,
              <<Arg(NoName, "number", 1)>>}}
OpeningStages ==
  {With(name, args) : name \in {"f", "@intervals", NoName},
     args \in {<<>>, <<Arg("@id", "string", "x")>>, <<Arg("@id", "number", 1)>>,
              <<Arg("@order", "number", 1)>>, <<Arg("@order", "string", "1")>>,
              <<Arg("@inherit", "string", "only"), Arg("@intervals", "list", {"x"})>>,
              <<Arg("@inherit", "string", "some")>>, <<Arg("@intervals", "string", "x")>>,
              <<Arg("@cross", "string", "error")>>, <<Arg("@cross", "string", "split")>>,
              <<Arg("@unknown", "string", "x")>>}}

Headers ==
  [prefix |-> <<Include("m")>>, length |-> 2,
   lines |-> {Interval(H(<<s>>)) : s \in OpeningStages} \cup {Block(H(<<s>>)) : s \in OpeningStages}
             \cup {Block(H(<<S("f"), s>>)) : s \in Placements}
             \cup {EndInterval("f"), EndBlock("f")},
   edits |-> {}, projects |-> {Library}]

Continuations ==
  [prefix |-> <<Include("m"), Block(H(<<S("f")>>))>>, length |-> 2,
   lines |-> {More(H(<<s>>)) : s \in Placements} \cup {EndBlock("f")},
   edits |-> {}, projects |-> {Library}]

(* Modules that include each other, overlap or are not there.              *)
Sources(path) == {Module(path, includes, functions) :
                   includes \in {<<>>, <<"k">>, <<"l">>, <<"m">>},
                   functions \in {{}, {"f"}, {"g"}}}

Inclusions ==
  [prefix |-> <<>>, length |-> 2,
   lines |-> {Include("k"), Include("l"), Include("m")}, edits |-> {},
   projects |-> {Project(modules) : modules \in
                   {<<x, y, z>> : x \in Sources("k"), y \in Sources("l"), z \in Sources("m")}
                   \cup {<<x, y>> : x, y \in Sources("k") \cup Sources("l")}}]

(* Packages: what they claim and what the lockfile pins.                   *)
Package(module, identity, entrypoint, digest, required) ==
  [module EXCEPT !.package =
    [identity |-> identity, entrypoint |-> entrypoint, digest |-> digest,
     required |-> required, declared |-> {"f"}]]

Packaged(path) ==
  LET module(functions) == Module(path, <<>>, functions)
  IN  {module({"f"}), Package(module({"g"}), "p", path, Content(module({"g"})), {}),
       Package(module({"f"}), "q", path, Content(module({"f"})), {"channel:notes"})}
      \cup {Package(module({"f"}), "p", entrypoint, Content(module(digest)), {}) :
              entrypoint \in {"k", "l"}, digest \in {{"f"}, {"g"}}}

Entries == {[identity |-> identity, entrypoint |-> path, digest |-> Content(Module(path, <<>>, {"f"}))] :
             identity \in {"p", "q"}, path \in {"k", "l"}}

Packages ==
  [prefix |-> <<>>, length |-> 1, lines |-> {Include("k"), Include("l"), a}, edits |-> {},
   projects |->
     [modules : {<<x>> : x \in Packaged("k")} \cup {<<x, y>> : x \in Packaged("k"), y \in Packaged("l")},
      lock : {NoLock, <<>>} \cup {<<e>> : e \in Entries} \cup {<<d, e>> : d, e \in Entries},
      grants : {{}, {"channel:notes"}}]]

(* Intervals that are given an id again once it is free.                   *)
ReusedIds ==
  [prefix |-> <<Include("m")>>, length |-> 6,
   lines |-> {a, Interval(H(<<With("f", <<Arg("@id", "string", "x")>>)>>)), EndInterval("x")},
   edits |-> {}, projects |-> {Library}]

(* Intervals given the id that another has by default, before or after it, *)
(* and closed by it or by a name.                                          *)
DefaultIds ==
  [prefix |-> <<Include("m")>>, length |-> 5,
   lines |-> {a, Interval(H(<<S("f")>>)), Interval(H(<<With("h", <<Arg("@id", "string", "f-2")>>)>>)),
              EndInterval("f"), EndInterval("f-2")},
   edits |-> {}, projects |-> {Library}]

(* Few stages authored, many planned: every text and block in two          *)
(* intervals goes through both.                                            *)
Limits ==
  [prefix |-> <<Include("m"), Interval(H(<<S("f")>>)), Interval(H(<<S("h")>>)), a, Config("asc")>>,
   length |-> 4,
   lines |-> {a, Config("desc"), EndInterval("f"), EndInterval("h"), Block(H(<<S("g")>>)), EndBlock("g")},
   edits |-> {}, projects |-> {Library}]

MCReusedIds == [reused |-> ReusedIds]

MCCorpora ==
  [markers |-> Markers, ids |-> DefaultIds, limits |-> Limits, nesting |-> Nesting, pipelines |-> Pipelines, edits |-> Edits,
   revisions |-> Revisions, lexical |-> Lexical, headers |-> Headers,
   continuations |-> Continuations, inclusions |-> Inclusions, packages |-> Packages]

MCScopedLimits == [depth |-> 2, active |-> 2, stages |-> 4, events |-> 3]

MCEmission == [f |-> "line", g |-> "none", h |-> "row", n |-> "note", p |-> "none"]
=============================================================================
