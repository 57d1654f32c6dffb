------------------------------- MODULE PathRules -------------------------------
(***************************************************************************)
(* Which of the changed files a workflow copies, and where to: matchFile   *)
(* and the transformations it tries.                                       *)
(*                                                                         *)
(* A path or a template is a sequence of symbols: "/", pieces of names (a  *)
(* name may be several, so that one name can begin with another) and, in   *)
(* templates, variables.  What a pattern matches is the affair of the      *)
(* regular expressions and of doublestar: an exclude pattern is the set of *)
(* paths it matches, a glob has such a set, and a regex gives its matches  *)
(* their named groups.  An invalid regex matches nothing, as in the code.  *)
(***************************************************************************)
EXTENDS Integers, SequencesExt, TLC

CONSTANTS
  Symbol,   \* what paths and templates are made of
  Variable, \* the variables ${...} that templates hold, as symbols
  NoPrefix  \* of a glob without **

-----------------------------------------------------------------------------
(* Text.                                                                   *)

TrimSlash(s) == IF s # <<>> /\ Last(s) = "/" THEN Front(s) ELSE s
Drop(s, n) == SubSeq(s, n + 1, Len(s))
LastAt(s, symbol) == SelectLastInSeq(s, LAMBDA c : c = symbol)

(* The members of a finite set of positions, in their order.               *)
Rank(S, i) == Cardinality({j \in S : j <= i})
InOrder(S) == [n \in 1 .. Cardinality(S) |-> CHOOSE i \in S : Rank(S, i) = n]

(* Where the names of a path begin, the empty ones left out, and end.      *)
Starts(s) == {i \in DOMAIN s : s[i] # "/" /\ (i = 1 \/ s[i - 1] = "/")}
End(s, i) ==
  CHOOSE j \in i .. Len(s) :
    /\ \A k \in i .. j : s[k] # "/"
    /\ j = Len(s) \/ s[j + 1] = "/"
NameAt(s, i) == SubSeq(s, i, End(s, i))

NamesAt(s, starts) == [n \in 1 .. Cardinality(starts) |-> NameAt(s, InOrder(starts)[n])]

ProperStarts(s) == {i \in Starts(s) : NameAt(s, i) # <<".">>}
Names(s) == NamesAt(s, Starts(s))
ProperNames(s) == NamesAt(s, ProperStarts(s))

(* What filepath.Clean leaves of a relative path: the names that are not a *)
(* dot, and before each of them but the first the slash it has.  There is  *)
(* no name .. here.                                                        *)
Stays(s) ==
  {i \in DOMAIN s : \E p \in ProperStarts(s) :
     \/ i \in p .. End(s, p)
     \/ i = p - 1 /\ \E q \in ProperStarts(s) : q < p}
Tidied(s) == [n \in 1 .. Cardinality(Stays(s)) |-> s[InOrder(Stays(s))[n]]]

(* filepath.Join of a relative directory and a path below it.              *)
Join(directory, below) == Tidied(directory \o <<"/">> \o below)

-----------------------------------------------------------------------------
(* PathTransformer.                                                        *)

(* The built-in variables; the extension comes without its dot.            *)
BuiltIn(path) ==
  LET slash == LastAt(path, "/")
      filename == Drop(path, slash)
      dot == LastAt(filename, ".")
  IN  "$path" :> path
      @@ "$filename" :> filename
      @@ "$dir" :> SubSeq(path, 1, slash - 1)
      @@ "$ext" :> (IF dot = 0 THEN <<>> ELSE Drop(filename, dot))

To(path)  == [status |-> "matched", path |-> path]
Unmatched == [status |-> "unmatched", path |-> <<>>]
Failed    == [status |-> "failed", path |-> <<>>]

Substituted(template, value) ==
  FlattenSeq([i \in DOMAIN template |->
    IF template[i] \in DOMAIN value THEN value[template[i]] ELSE <<template[i]>>])

Filled(template, value) ==
  LET text == Substituted(template, value)
  IN  IF \E i \in DOMAIN text : text[i] \in Variable THEN Failed ELSE To(text)

(* A built-in variable takes the place of a captured one of its name.      *)
Transform(path, template, captured) == Filled(template, BuiltIn(path) @@ captured)

-----------------------------------------------------------------------------
(* The four transformations.                                               *)

Mut_MoveByPrefix(t, path) ==
  LET from == TrimSlash(t.from)
  IN  CASE path = from -> To(t.to)
        [] path # from /\ IsPrefix(from, path) -> To(Join(t.to, Drop(path, Len(from))))
        [] OTHER -> Unmatched

Move(t, path) ==
  LET from == TrimSlash(t.from)
  IN  CASE path = from -> To(t.to)
        [] IsPrefix(Append(from, "/"), path) -> To(Join(t.to, Drop(path, Len(from) + 1)))
        [] OTHER -> Unmatched

Copy(t, path) == IF path = t.from THEN To(t.to) ELSE Unmatched

(* ${relative_path} is there only when the pattern has ** and the path     *)
(* begins with what stands before it.                                      *)
GlobVariables(t, path) ==
  IF t.prefix # NoPrefix /\ IsPrefix(t.prefix, path)
  THEN LET rest == Drop(path, Len(t.prefix))
       IN  "$relative_path" :> (IF rest # <<>> /\ Head(rest) = "/" THEN Tail(rest) ELSE rest)
  ELSE <<>>

Glob(t, path) ==
  CASE t.bad -> Failed
    [] ~ t.bad /\ path \in t.matches -> Transform(path, t.template, GlobVariables(t, path))
    [] OTHER -> Unmatched

Regex(t, path) ==
  IF path \in DOMAIN t.groups THEN Transform(path, t.template, t.groups[path]) ELSE Unmatched

Apply(t, path) ==
  CASE t.kind = "move"  -> Move(t, path)
    [] t.kind = "copy"  -> Copy(t, path)
    [] t.kind = "glob"  -> Glob(t, path)
    [] t.kind = "regex" -> Regex(t, path)

Excluded(path, exclude) == \E pattern \in exclude : path \in pattern

(* matchFile: the first transformation that matches decides, and so does   *)
(* the first that fails.                                                   *)
MatchFile(transformations, exclude, path) ==
  LET k == SelectInSeq(transformations, LAMBDA t : Apply(t, path) # Unmatched)
  IN  IF Excluded(path, exclude) \/ k = 0 THEN Unmatched ELSE Apply(transformations[k], path)

-----------------------------------------------------------------------------
(* A path as git has them: no name is empty.                               *)
Clean(s) ==
  /\ s # <<>> /\ s[1] # "/" /\ s[Len(s)] # "/"
  /\ \A i \in 2 .. Len(s) : ~ (s[i - 1] = "/" /\ s[i] = "/")

(* The same in terms of directories: Puts(t, path, names) says that the    *)
(* rule t wants the file at the place with these names.                    *)
Puts(t, path, names) ==
  CASE t.kind = "move" ->
         /\ IsPrefix(Names(t.from), Names(path))
         /\ names = ProperNames(t.to) \o Drop(Names(path), Len(Names(t.from)))
    [] t.kind = "copy" -> path = t.from /\ names = ProperNames(t.to)
    [] OTHER -> /\ Apply(t, path).status = "matched"
                /\ names = ProperNames(Apply(t, path).path)
=============================================================================
