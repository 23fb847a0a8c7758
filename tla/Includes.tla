------------------------------ MODULE Includes ------------------------------
(***************************************************************************)
(* How main (stacky.cc) replaces `"path" include` and `"path" import` in   *)
(* the token vector by the tokens of the file, until none is left.         *)
(*                                                                         *)
(* A token refers to the name of its file by a string_view.  The names of  *)
(* included files are kept in the vector included_paths.  When it grows,   *)
(* a name short enough to lie inside its std::string object moves with the *)
(* object, and the views of it refer to freed memory.                      *)
(***************************************************************************)
EXTENDS Integers, Sequences, FiniteSets

CONSTANTS
  Projects,       \* the file contents to read: [file -> Seq of tokens]
  Source,         \* the file on the command line
  Search_Paths,   \* include_search_paths, a sequence of directories
  Dirs,           \* the directories there are
  Canonical,      \* fs::canonical: the file a path leads to
  With_Extension, \* name |-> name.stacky
  Broken,         \* files that cannot be opened, or that lex gives up on
  Short,          \* files whose path fits into a std::string object
  Max_Splices     \* files read that are followed

ASSUME MaxSplicesAssumption == Max_Splices \in Nat

\* The names on the command line live in compiler_arguments, which stays put.
ASSUME ShortAssumption == Source \notin Short

VARIABLES
  contents,          \* the project
  tokens,            \* the token vector
  already_imported,  \* canonical paths
  included_paths,    \* the files whose names the vector holds
  status             \* "reading", "done" or "failed": exit code 1

vars == <<contents, tokens, already_imported, included_paths, status>>

\* A file is <<directory, name>>.  A path in the program is a name, local if
\* it has a parent path (`./name`).
Path(local, name) == [local |-> local, name |-> name]

\* A token as it stands in a file: arg is the path of a string.
Tok(kind, arg) == [kind |-> kind, arg |-> arg]

\* lex: the tokens of a file, with a view of its name; dangling, if that name
\* has since been moved.
Lexed(file) ==
  [n \in 1 .. Len(contents[file]) |->
     [kind |-> contents[file][n].kind, arg |-> contents[file][n].arg,
      file |-> file, dangling |-> FALSE]]

\* search_include_path, for an includer in dir: the files found, at most one.
search_include_path(dir, path) ==
  LET Files == DOMAIN contents
      Found == {n \in 1 .. Len(Search_Paths) : <<Search_Paths[n], path.name>> \in Files}
  IN IF path.local /\ <<dir, path.name>> \in Files THEN {<<dir, path.name>>}
     ELSE {<<Search_Paths[n], path.name>> : n \in {m \in Found : \A k \in Found : m <= k}}

Init ==
  /\ contents \in Projects
  /\ tokens = Lexed(Source)
  /\ already_imported = {}
  /\ included_paths = <<>>
  /\ status = "reading"

-----------------------------------------------------------------------------

\* extract_include_or_import: the first of these keywords in the vector.
Keywords == {n \in 1 .. Len(tokens) : tokens[n].kind \in {"Include", "Import"}}
First == CHOOSE n \in Keywords : \A m \in Keywords : n <= m

Reading == status = "reading" /\ Keywords # {}
Has_Path == First > 1 /\ tokens[First - 1].kind = "String"

\* The path asked for; import appends the extension.
Requested ==
  LET path == tokens[First - 1].arg
  IN IF tokens[First].kind = "Import" THEN Path(path.local, With_Extension[path.name])
     ELSE path

\* A plausible slip: paths are taken from the source file's directory.
Includer_Is_Source == {Source[1]}

\* The parent path of the keyword's file name; anything, once that dangles.
Includer == IF tokens[First].dangling THEN Dirs ELSE {tokens[First].file[1]}

Fail == status' = "failed" /\ UNCHANGED <<contents, tokens, already_imported, included_paths>>

\* emplace_back on a full vector moves the names: libstdc++ doubles it.
Grows == Len(included_paths) \in {0, 1, 2, 4, 8, 16}
Moved(toks) ==
  [n \in 1 .. Len(toks) |->
     IF Grows /\ toks[n].file \in Short
              /\ \E k \in 1 .. Len(included_paths) : included_paths[k] = toks[n].file
     THEN [toks[n] EXCEPT !.dangling = TRUE] ELSE toks[n]]

\* The tokens, with the path and the keyword replaced.
Spliced(new) ==
  Moved(SubSeq(tokens, 1, First - 2)) \o new
  \o Moved(SubSeq(tokens, First + 1, Len(tokens)))

\* ensure(...): nothing, or no string, stands before the keyword.
Missing_Path == Reading /\ ~Has_Path /\ Fail

Cannot_Find ==
  /\ Reading /\ Has_Path
  /\ \E dir \in Includer : search_include_path(dir, Requested) = {}
  /\ Fail

\* tokens.erase(pos, pos + 2); continue
Imported_Before ==
  /\ Reading /\ Has_Path /\ tokens[First].kind = "Import"
  /\ \E dir \in Includer : \E file \in search_include_path(dir, Requested) :
       Canonical[file] \in already_imported
  /\ tokens' = SubSeq(tokens, 1, First - 2) \o SubSeq(tokens, First + 1, Len(tokens))
  /\ UNCHANGED <<contents, already_imported, included_paths, status>>

\* Is the file to be read?  An import is remembered by its canonical path.
New_File(file) == tokens[First].kind = "Import" => Canonical[file] \notin already_imported

Cannot_Read ==
  /\ Reading /\ Has_Path
  /\ \E dir \in Includer : \E file \in search_include_path(dir, Requested) :
       New_File(file) /\ file \in Broken
  /\ Fail

\* A plausible slip: an import is never remembered.
Splice_Forgets ==
  /\ Reading /\ Has_Path /\ Len(included_paths) < Max_Splices
  /\ \E dir \in Includer : \E file \in search_include_path(dir, Requested) :
       /\ file \notin Broken
       /\ tokens' = Spliced(Lexed(file))
       /\ included_paths' = Append(included_paths, file)
  /\ UNCHANGED <<contents, already_imported, status>>

Splice ==
  /\ Reading /\ Has_Path /\ Len(included_paths) < Max_Splices
  /\ \E dir \in Includer : \E file \in search_include_path(dir, Requested) :
       /\ New_File(file) /\ file \notin Broken
       /\ already_imported' = IF tokens[First].kind = "Import"
                              THEN already_imported \cup {Canonical[file]}
                              ELSE already_imported
       /\ tokens' = Spliced(Lexed(file))
       /\ included_paths' = Append(included_paths, file)
  /\ UNCHANGED <<contents, status>>

Done ==
  /\ status = "reading" /\ Keywords = {}
  /\ status' = "done"
  /\ UNCHANGED <<contents, tokens, already_imported, included_paths>>

Next == Missing_Path \/ Cannot_Find \/ Imported_Before \/ Cannot_Read \/ Splice \/ Done

\* One thread: the loop goes on as long as it can.
Spec == Init /\ [][Next]_vars /\ WF_vars(Next)

-----------------------------------------------------------------------------
(* Properties *)

\* The reference: each file expanded on its own, depth first, in place; an
\* import of a file that was imported before stands for nothing.
RECURSIVE Expand(_, _, _)
Expand(file, from, seen) ==
  LET toks == contents[file]
  IN IF from > Len(toks) THEN [out |-> <<>>, seen |-> seen]
     ELSE IF from < Len(toks) /\ toks[from + 1].kind \in {"Include", "Import"}
     THEN LET import == toks[from + 1].kind = "Import"
              path == toks[from].arg
              name == IF import THEN With_Extension[path.name] ELSE path.name
              found == CHOOSE f \in search_include_path(file[1], Path(path.local, name)) :
                         TRUE
              inner == IF import /\ Canonical[found] \in seen
                       THEN [out |-> <<>>, seen |-> seen]
                       ELSE Expand(found, 1, IF import THEN seen \cup {Canonical[found]}
                                             ELSE seen)
              rest == Expand(file, from + 2, inner.seen)
          IN [out |-> inner.out \o rest.out, seen |-> rest.seen]
     ELSE LET rest == Expand(file, from + 1, seen)
          IN [out |-> <<toks[from]>> \o rest.out, seen |-> rest.seen]

\* The keywords of a file follow a path in the same file.
Closed(file) ==
  LET toks == contents[file]
  IN \A n \in 1 .. Len(toks) :
       toks[n].kind \in {"Include", "Import"} => n > 1 /\ toks[n - 1].kind = "String"

\* Splicing the first keyword of the whole vector, again and again, amounts to
\* expanding every file in its place, with paths taken from the file that
\* names them: no token is lost, doubled or moved.
ExpandsInPlace ==
  status = "done" /\ (\A f \in DOMAIN contents : Closed(f)) =>
    [n \in 1 .. Len(tokens) |-> Tok(tokens[n].kind, tokens[n].arg)] = Expand(Source, 1, {}).out

\* Files that only import each other are read to the end, cycles or not.
ImportsTerminate ==
  (\A f \in DOMAIN contents : \A n \in 1 .. Len(contents[f]) : contents[f][n].kind # "Include")
  => <>(status # "reading")

\* stacky.cc, at included_paths: "make lifetime of included paths the lifetime
\* of a program to have ability to print filename path in any moment".
NamesStayReadable == \A n \in 1 .. Len(tokens) : ~tokens[n].dangling
=============================================================================
