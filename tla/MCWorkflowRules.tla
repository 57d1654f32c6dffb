---------------------------- MODULE MCWorkflowRules ----------------------------
(***************************************************************************)
(* Small instances of WorkflowRules.  Two families of configurations:      *)
(* Settings varies the strategies, checks and excludes of two references   *)
(* and of the main defaults; Rules varies the transformations of one       *)
(* workflow over a small tree of paths.                                    *)
(***************************************************************************)
EXTENDS WorkflowRules

MCSymbol == {"/", ".", "a", "b", "f", "g", "t", "go"}
MCVariable == {"$path", "$filename", "$dir", "$ext", "$relative_path", "$lang"}

(* a, a/f.go, a/b/f.go, ab/f.go and b/f.go                                 *)
f == <<"f", ".", "go">>
MCPath == {<<"a">>, <<"a", "/">> \o f, <<"a", "/", "b", "/">> \o f,
           <<"a", "b", "/">> \o f, <<"b", "/">> \o f}
tests == {<<"b", "/">> \o f}

Strategy(type, text, template, merge) ==
  [type |-> type, text |-> text, usePRTemplate |-> template, autoMerge |-> merge]
Merging == Strategy("", "", FALSE, TRUE)
Direct  == Strategy("direct", "sync", TRUE, FALSE)
Unknown == Strategy("rebase", "", FALSE, FALSE)

Check == [enabled |-> TRUE, file |-> ""]
OwnFile == [enabled |-> TRUE, file |-> "gone.json"]

Inline(value) == [ref |-> FALSE, value |-> value]
ByRef(value)  == [ref |-> TRUE, value |-> value]

MoveRule(from, to) == [kind |-> "move", from |-> from, to |-> to]
CopyRule(from, to) == [kind |-> "copy", from |-> from, to |-> to]
GlobRule(prefix, matches, template) ==
  [kind |-> "glob", bad |-> FALSE, prefix |-> prefix, matches |-> matches,
   template |-> template]
BadGlob == [kind |-> "glob", bad |-> TRUE, prefix |-> NoPrefix, matches |-> {},
            template |-> <<"t">>]
RegexRule(groups, template) ==
  [kind |-> "regex", groups |-> groups, template |-> template]

Plain == Inline(<<MoveRule(<<"a">>, <<"t">>)>>)

Workflow(strategy, deprecation, exclude) ==
  [sound |-> TRUE, repo |-> "", branch |-> "", strategy |-> strategy,
   deprecation |-> deprecation, exclude |-> exclude, transformations |-> Plain]

DefaultsOf(strategy, deprecation, exclude) ==
  [strategy |-> strategy, deprecation |-> deprecation, exclude |-> exclude]

Reference(source, fileDefaults, flows) ==
  [source |-> source, repo |-> "org/source", branch |-> "dev",
   defaults |-> fileDefaults, workflows |-> flows]

(* A file of another repository with two workflows, then a reference with  *)
(* one that names its repository.                                          *)
Settings ==
  { [defaults |-> DefaultsOf(main0, check0, exclude0),
     references |->
       << Reference("repo", DefaultsOf(file1, None, {}),
            << Workflow(own1, None, Inline({})),
               Workflow(Inline(None), OwnFile, Inline({})) >>),
          Reference(source2, DefaultsOf(None, None, {}),
            << [Workflow(own2, None, exclude2) EXCEPT !.repo = repo2, !.sound = sound2] >>)
       >>] :
    main0 \in {None, Merging, Direct}, check0 \in {None, Check}, exclude0 \in {{}, {tests}},
    file1 \in {None, Merging, Direct},
    own1 \in {Inline(None), Inline(Unknown), ByRef(Direct), Inline(Merging)},
    source2 \in {"inline", "local"},
    own2 \in {Inline(None), Inline(Strategy("", "", FALSE, FALSE)), ByRef(Direct)},
    exclude2 \in {Inline({}), ByRef({tests})},
    repo2 \in {"", "org/other"}, sound2 \in BOOLEAN }

Froms == {<<"a">>, <<"a", "/">>, <<"a", "/", "/">>, <<"a", "b">>}
SomeRules ==
  {MoveRule(from, to) : from \in Froms, to \in {<<"t">>, <<"t", "/">>, <<".">>}} \cup
  {CopyRule(path, <<"t", "/", "g">>) : path \in MCPath} \cup
  {BadGlob,
   GlobRule(<<"a", "/">>, {p \in MCPath : IsPrefix(<<"a", "/">>, p) \/ p = <<"a">>},
            <<"t", "/", "$relative_path">>),
   GlobRule(NoPrefix, {p \in MCPath : LastAt(p, ".") # 0}, <<"$ext", "/", "$filename">>),
   RegexRule([p \in {q \in MCPath : IsPrefix(<<"a", "/">>, q)} |->
                "$lang" :> <<"a">> @@ "$path" :> Drop(p, 2)],
             <<"t", "/", "$lang", "/", "$path">>)}

Rules ==
  { [defaults |-> NoDefaults,
     references |->
       << Reference("local", NoDefaults,
            << [Workflow(Inline(None), None, Inline(exclude))
                  EXCEPT !.repo = "org/source", !.transformations = Inline(<<rule1, rule2>>)] >>) >>] :
    exclude \in {{}, {{<<"a", "/">> \o f}}}, rule1 \in SomeRules, rule2 \in SomeRules }

(* References without workflows.                                           *)
Bare ==
  { [defaults |-> NoDefaults,
     references |-> << Reference(source1, NoDefaults, flows1),
                       Reference(source2, NoDefaults, flows2) >>] :
    source1 \in {"inline", "local"}, source2 \in {"inline", "local"},
    flows1 \in {<<>>, <<Workflow(Inline(None), None, Inline({}))>>},
    flows2 \in {<<>>, <<[Workflow(Inline(None), None, Inline({})) EXCEPT !.repo = "org/own"]>>} }

MCWritten == Settings \cup Rules \cup Bare
MCRule == SomeRules
MCText == STRING
=============================================================================
