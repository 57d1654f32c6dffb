----------------------------- MODULE WorkflowRules -----------------------------
(***************************************************************************)
(* From the configuration as written to the workflows that are run.        *)
(*                                                                         *)
(* resolveWorkflowReferences takes the references of the main              *)
(* configuration one after the other: it loads the workflows, gives them   *)
(* the repository they came from and the defaults of the file and of the   *)
(* main configuration, and merges them if all are valid.  Defaults are     *)
(* handed on as POINTERS: several workflows end up with one strategy, and  *)
(* the code that fills in blanks writes to it.  So strategies and          *)
(* deprecation checks live in a heap here, under the place where they were *)
(* written: <<0, 0>> for the main defaults, <<r, 0>> for the defaults of   *)
(* reference r, <<r, k>> for its workflow k.                               *)
(*                                                                         *)
(* Reading the files, and what happens when that fails, is the matter of   *)
(* ConfigLoading; every reference here is enabled and can be read.  The    *)
(* two modules share no name, since ConfigurationProofs extends both.      *)
(***************************************************************************)
EXTENDS PathRules

CONSTANTS
  Written, \* main configurations with the files they refer to, as written
  Text,    \* strings
  Path,    \* paths of changed files
  Rule,    \* transformations, as the operators of PathRules take them
  None     \* a nil pointer

-----------------------------------------------------------------------------
(* What can be written.  A field of a workflow is a value or a $ref to a   *)
(* file that holds it.                                                     *)

StrategyStruct == [type : Text, text : Text, usePRTemplate : BOOLEAN, autoMerge : BOOLEAN]
DeprecationStruct == [enabled : BOOLEAN, file : Text]
Excludes == SUBSET SUBSET Path
OrRef(S) == [ref : BOOLEAN, value : S]

WrittenDefaults ==
  [strategy : StrategyStruct \cup {None}, deprecation : DeprecationStruct \cup {None},
   exclude : Excludes]

WrittenWorkflow ==
  [sound : BOOLEAN, repo : Text, branch : Text,
   strategy : OrRef(StrategyStruct \cup {None}), deprecation : DeprecationStruct \cup {None},
   exclude : OrRef(Excludes), transformations : OrRef(Seq(Rule))]

WrittenReference ==
  [source : {"inline", "local", "repo"}, repo : Text, branch : Text,
   defaults : WrittenDefaults, workflows : Seq(WrittenWorkflow)]

ASSUME WorkflowRulesAssumption ==
  /\ {"", "main", "pull_request", "deprecated_examples.json"} \subseteq Text
  /\ None \notin StrategyStruct \cup DeprecationStruct \cup (Nat \X Nat)
  /\ \A m \in Written :
       m.defaults \in WrittenDefaults /\ m.references \in Seq(WrittenReference)

(* A changed file has a path as git has them; where the rules say to move  *)
(* files from and to may be any text.                                      *)
ASSUME PathsAssumption ==
  /\ "/" \in Symbol
  /\ \A path \in Path :
       path \in Seq(Symbol) /\ Clean(path) /\ ProperStarts(path) = Starts(path)
  /\ \A t \in Rule :
       /\ t.kind \in {"move", "copy", "glob", "regex"}
       /\ t.kind = "move" => t.from \in Seq(Symbol) /\ t.to \in Seq(Symbol)

VARIABLES
  main,          \* the configuration as written
  strategies,    \* the heap: CommitStrategyConfig structs by address
  deprecations,  \* the heap: DeprecationConfig structs by address
  stage,         \* "validate", "resolve", "merged" or "failed"
  at,            \* the reference at hand
  loaded,        \* its workflows
  defaults,      \* its defaults, after ApplyGlobalDefaults
  index,         \* the workflow SetDefaults comes to next, 0 before the load
  workflows      \* mergedConfig.Workflows

rulesVars == <<main, strategies, deprecations, stage, at, loaded, defaults, index, workflows>>

References == main.references
Source(r) == References[r].source
Address == {<<0, 0>>} \cup
  UNION {{r} \X (0 .. Len(References[r].workflows)) : r \in DOMAIN References}

WrittenAt(a) ==
  CASE a[1] = 0 -> main.defaults
    [] a[1] # 0 /\ a[2] = 0 -> References[a[1]].defaults
    [] OTHER -> References[a[1]].workflows[a[2]]

(* No $ref of an inline workflow is ever resolved.                         *)
ReadField(r, field, unset) ==
  IF field.ref /\ Source(r) = "inline" THEN unset ELSE field.value

StrategyAt(a) ==
  IF a[2] = 0 THEN WrittenAt(a).strategy ELSE ReadField(a[1], WrittenAt(a).strategy, None)
ExcludeAt(a) ==
  IF a[2] = 0 THEN WrittenAt(a).exclude ELSE ReadField(a[1], WrittenAt(a).exclude, {})

StrategyType == {"direct", "pull_request"}

NoDefaults == [strategy |-> None, deprecation |-> None, exclude |-> {}]

RulesInit ==
  /\ main \in Written
  /\ strategies = [a \in Address |-> StrategyAt(a)]
  /\ deprecations = [a \in Address |-> WrittenAt(a).deprecation]
  /\ stage = "validate"
  /\ at = 1 /\ loaded = <<>> /\ defaults = NoDefaults /\ index = 0
  /\ workflows = <<>>

-----------------------------------------------------------------------------
(* Workflow.Validate: sound stands for a name, a destination and rules     *)
(* that are complete.                                                      *)
Valid(w, strategyType) ==
  /\ w.sound /\ w.repo # "" /\ w.transformations # <<>>
  /\ strategyType \in StrategyType \cup {""}

LoadedWorkflow(r, k) ==
  LET w == References[r].workflows[k]
  IN  [origin |-> <<r, k>>, sound |-> w.sound, repo |-> w.repo, branch |-> w.branch,
       strategy |-> IF StrategyAt(<<r, k>>) = None THEN None ELSE <<r, k>>,
       deprecation |-> IF w.deprecation = None THEN None ELSE <<r, k>>,
       exclude |-> ExcludeAt(<<r, k>>),
       transformations |-> ReadField(r, w.transformations, <<>>)]

TypeOf(w) == IF w.strategy = None THEN "" ELSE strategies[w.strategy].type

(* MainConfig.Validate: inline workflows are validated as written, and one *)
(* that is not valid, or none at all, fails the whole configuration.       *)
Validate ==
  /\ stage = "validate"
  /\ LET good == \A r \in DOMAIN References : Source(r) = "inline" =>
                   /\ References[r].workflows # <<>>
                   /\ \A k \in DOMAIN References[r].workflows :
                        LET w == LoadedWorkflow(r, k) IN Valid(w, TypeOf(w))
     IN  stage' = IF good THEN "resolve" ELSE "failed"
  /\ UNCHANGED <<main, strategies, deprecations, at, loaded, defaults, index, workflows>>

(* ApplySourceContext: only a configuration that came from another         *)
(* repository has a context; its branch is given even to a workflow that   *)
(* names a repository of its own.                                          *)
InContext(r, w) ==
  IF Source(r) # "repo" THEN w
  ELSE [w EXCEPT !.repo = IF @ = "" THEN References[r].repo ELSE @,
                 !.branch = IF @ = "" THEN References[r].branch ELSE @]

(* ApplyGlobalDefaults: of each kind the defaults of the file, or else     *)
(* those of the main configuration, the very struct.                       *)
Nearest(r, field, unset) ==
  IF References[r].defaults[field] = unset THEN <<0, 0>> ELSE <<r, 0>>

Pointer(heap, a) == IF heap[a] = None THEN None ELSE a

Load ==
  /\ stage = "resolve" /\ at \in DOMAIN References /\ index = 0
  /\ loaded' = [k \in DOMAIN References[at].workflows |-> InContext(at, LoadedWorkflow(at, k))]
  /\ defaults' = [strategy |-> Pointer(strategies, Nearest(at, "strategy", None)),
                  deprecation |-> Pointer(deprecations, Nearest(at, "deprecation", None)),
                  exclude |-> WrittenAt(Nearest(at, "exclude", {})).exclude]
  /\ index' = 1
  /\ UNCHANGED <<main, strategies, deprecations, stage, at, workflows>>

-----------------------------------------------------------------------------
(* SetDefaults, one workflow.                                              *)

Or(own, other) == IF own = "" THEN other ELSE own

(* AutoMerge is not inherited by a workflow with a strategy of its own.    *)
FillBlanks(own, other) ==
  [own EXCEPT !.type = Or(@, other.type), !.text = Or(@, other.text),
              !.usePRTemplate = @ \/ other.usePRTemplate]

Mut_SharedFill(own, inherited) ==
  IF own = None THEN inherited
  ELSE IF inherited # None THEN inherited ELSE own

Settled(own, inherited) == IF own = None THEN inherited ELSE own

SetDefaults ==
  LET w == loaded[index]
      s == Settled(w.strategy, defaults.strategy)
      d == Settled(w.deprecation, defaults.deprecation)
  IN  /\ stage = "resolve" /\ index \in DOMAIN loaded
      /\ strategies' = IF s = None THEN strategies ELSE
           [strategies EXCEPT ![s] =
              LET filled == IF w.strategy # None /\ defaults.strategy # None
                            THEN FillBlanks(strategies[w.strategy], strategies[defaults.strategy])
                            ELSE @
              IN  [filled EXCEPT !.type = Or(@, "pull_request")]]
      /\ deprecations' = IF d = None THEN deprecations ELSE
           [deprecations EXCEPT ![d].file = Or(@, "deprecated_examples.json")]
      /\ loaded' = [loaded EXCEPT ![index] =
           [w EXCEPT !.branch = Or(@, "main"), !.strategy = s, !.deprecation = d,
                     !.exclude = IF @ = {} THEN defaults.exclude ELSE @]]
      /\ index' = index + 1
      /\ UNCHANGED <<main, stage, at, defaults, workflows>>

(* All workflows of the reference are merged, or none; and on to the next  *)
(* reference.                                                              *)
Mut_StopAtInvalid == /\ at' = IF \A i \in DOMAIN loaded : Valid(loaded[i], TypeOf(loaded[i]))
                            THEN at + 1 ELSE Len(References) + 1
                     /\ loaded' = <<>> /\ defaults' = NoDefaults /\ index' = 0
NextReference == at' = at + 1 /\ loaded' = <<>> /\ defaults' = NoDefaults /\ index' = 0

Merge ==
  /\ stage = "resolve" /\ index = Len(loaded) + 1
  /\ workflows' =
       IF loaded # <<>> /\ \A i \in DOMAIN loaded : Valid(loaded[i], TypeOf(loaded[i]))
       THEN workflows \o loaded ELSE workflows
  /\ NextReference
  /\ UNCHANGED <<main, strategies, deprecations, stage>>

(* The merged configuration must be valid, that is, have a workflow.       *)
ValidateMerged ==
  /\ stage = "resolve" /\ at = Len(References) + 1
  /\ stage' = IF /\ workflows # <<>>
                 /\ \A i \in DOMAIN workflows : Valid(workflows[i], TypeOf(workflows[i]))
              THEN "merged" ELSE "failed"
  /\ UNCHANGED <<main, strategies, deprecations, at, loaded, defaults, index, workflows>>

RulesNext == Validate \/ Load \/ SetDefaults \/ Merge \/ ValidateMerged

RulesSpec == RulesInit /\ [][RulesNext]_rulesVars

-----------------------------------------------------------------------------
(* What a reader of the files expects: the settings of a workflow follow   *)
(* from its own file and the main one, without regard to other workflows.  *)

ExpectedStrategy(a) ==
  LET own == StrategyAt(a)
      inherited == WrittenAt(Nearest(a[1], "strategy", None)).strategy
      typed(s) == [s EXCEPT !.type = Or(@, "pull_request")]
  IN  CASE own = None /\ inherited = None -> None
        [] own = None /\ inherited # None -> typed(inherited)
        [] own # None /\ inherited = None -> typed(own)
        [] OTHER -> typed(FillBlanks(own, inherited))

ExpectedDeprecation(a) ==
  LET own == WrittenAt(a).deprecation
      chosen == IF own # None THEN own
                ELSE WrittenAt(Nearest(a[1], "deprecation", None)).deprecation
  IN  IF chosen = None THEN None
      ELSE [chosen EXCEPT !.file = Or(@, "deprecated_examples.json")]

ExpectedExclude(a) ==
  IF ExcludeAt(a) # {} THEN ExcludeAt(a) ELSE WrittenAt(Nearest(a[1], "exclude", {})).exclude

Deref(heap, pointer) == IF pointer = None THEN None ELSE heap[pointer]

(* Every merged workflow has, now and after all that is merged later, the  *)
(* settings of its own file: that defaults are shared and written to never *)
(* shows.                                                                  *)
SettingsAsWritten ==
  \A i \in DOMAIN workflows :
    LET w == workflows[i] IN
    /\ Deref(strategies, w.strategy) = ExpectedStrategy(w.origin)
    /\ Deref(deprecations, w.deprecation) = ExpectedDeprecation(w.origin)
    /\ w.exclude = ExpectedExclude(w.origin)

Good(r) ==
  /\ References[r].workflows # <<>>
  /\ \A k \in DOMAIN References[r].workflows :
       LET w == InContext(r, LoadedWorkflow(r, k))
           s == ExpectedStrategy(<<r, k>>)
       IN  Valid(w, IF s = None THEN "" ELSE s.type)

(* A file with an invalid workflow costs its own workflows and no others,  *)
(* as does one without workflows; only an inline one takes the whole       *)
(* configuration with it.                                                  *)
InvalidCostsOnlyItself ==
  /\ stage = "merged" =>
       {workflows[i].origin : i \in DOMAIN workflows}
         = {a \in Address : a[2] # 0 /\ Good(a[1])}
  /\ stage = "failed" =>
       \/ \E r \in DOMAIN References : Source(r) = "inline" /\ ~ Good(r)
       \/ \A r \in DOMAIN References : ~ Good(r)

(* A changed file goes where the first of the rules that is about it puts  *)
(* it in the directory tree, and nowhere if it is excluded, if no rule is  *)
(* about it or if an earlier rule fails for it.  A rule that moves files   *)
(* from what is no path, with an empty name, is about none.                *)
FilesLandInPlace ==
  stage = "merged" => \A i \in DOMAIN workflows, path \in Path :
    LET rules == workflows[i].transformations
        out == MatchFile(rules, workflows[i].exclude, path)
        decides(k, names) ==
          /\ Puts(rules[k], path, names)
          /\ \A j \in 1 .. k - 1 : Apply(rules[j], path) = Unmatched
    IN  IF out.status = "matched"
        THEN /\ ~ Excluded(path, workflows[i].exclude)
             /\ \E k \in DOMAIN rules : decides(k, ProperNames(out.path))
        ELSE \/ Excluded(path, workflows[i].exclude)
             \/ \E k \in DOMAIN rules : Apply(rules[k], path) = Failed
             \/ \A k \in DOMAIN rules :
                  /\ rules[k].kind = "move" /\ Clean(TrimSlash(rules[k].from)) =>
                       ~ IsPrefix(Names(rules[k].from), Names(path))
                  /\ rules[k].kind = "copy" => path # rules[k].from
=============================================================================
