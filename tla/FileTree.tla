------------------------------- MODULE FileTree -------------------------------
(***************************************************************************)
(* The files the offline commands read, which others may change while a    *)
(* command runs.  A node is [kind, readable, lines]; a directory is its    *)
(* own entry's node, and holds the paths whose parent it is.  Links are    *)
(* never descended into, so a link to a directory has no entries here.     *)
(*                                                                         *)
(* The text of a file is a sequence of lines [mark, document].  A "text"   *)
(* line stands for all the lines of one document; a "comment" line is      *)
(* blank or a comment; a "separator" line is --- alone; an "inline" line   *)
(* is --- with the beginning of a document behind it.                      *)
(***************************************************************************)
EXTENDS Integers, Sequences, FiniteSets, SequencesExt

CONSTANTS
  Paths,           \* the paths there may be, in the byte order of their names
  Parent,          \* the directory of each path
  Supported,       \* the paths with one of the extensions .yaml, .yml and .json
  Changes,         \* what may happen to a path: a set of [path, node]
  MaxTreeChanges,  \* how often something does during one command
  Documents        \* the text of each document

VARIABLES
  tree,            \* the node of each path
  treeChanges      \* how often it changed

Top == "top"       \* the directory that holds the arguments, never changed

PathSet == {Paths[i] : i \in DOMAIN Paths}

NoNode == [kind |-> "missing", readable |-> FALSE, lines |-> <<>>]

(***************************************************************************)
(* A path is there once, behind its directory, whose name its own begins   *)
(* with.  A line that is part of a document belongs to one there is, and a *)
(* document ends where the --- of the next one is.                         *)
(***************************************************************************)
WellFormedLine(line) ==
  \/ line.mark \in {"comment", "separator"}
  \/ line.mark \in {"text", "inline"} /\ line.document \in DOMAIN Documents

OneAfterAnother(lines) ==
  \A i, j \in DOMAIN lines :
    i < j /\ lines[i].mark \in {"text", "inline"} /\ lines[j].mark = "text" =>
      \E k \in i..j : lines[k].mark = "separator"

WellFormedText(lines) ==
  /\ lines \in Seq(ToSet(lines))
  /\ \A i \in DOMAIN lines : WellFormedLine(lines[i])
  /\ OneAfterAnother(lines)

ASSUME TreeAssumption ==
  /\ MaxTreeChanges \in Nat
  /\ Paths \in Seq(PathSet) /\ Top \notin PathSet /\ Supported \subseteq PathSet
  /\ \A i, j \in DOMAIN Paths : Paths[i] = Paths[j] => i = j
  /\ \A i \in DOMAIN Paths :
       Parent[Paths[i]] = Top \/ \E j \in 1..(i - 1) : Parent[Paths[i]] = Paths[j]
  /\ \A change \in Changes : change.path \in PathSet /\ WellFormedText(change.node.lines)

(***************************************************************************)
(* The elements of a sequence that are in a set, in their order.           *)
(***************************************************************************)
Kept(s, keep) ==
  LET upTo[i \in 0..Len(s)] ==
        IF i = 0 THEN <<>>
        ELSE IF s[i] \in keep THEN Append(upTo[i - 1], s[i]) ELSE upTo[i - 1]
  IN upTo[Len(s)]

Sorted(paths) == Kept(Paths, paths)

(***************************************************************************)
(* A path can be looked up when every directory above it can be searched.  *)
(***************************************************************************)
Searchable(directory) ==
  directory = Top \/ (tree[directory].kind = "directory" /\ tree[directory].readable)

Exists[path \in PathSet] ==
  /\ tree[path].kind # "missing"
  /\ Searchable(Parent[path])
  /\ Parent[path] # Top => Exists[Parent[path]]

(***************************************************************************)
(* lstat and stat: only the second looks where a link leads.               *)
(***************************************************************************)
Lstat(path) == IF Exists[path] THEN tree[path].kind ELSE "missing"

Stat(path) ==
  CASE Lstat(path) = "file-link"      -> "file"
    [] Lstat(path) = "directory-link" -> "directory"
    [] Lstat(path) = "dangling-link"  -> "missing"
    [] OTHER                          -> Lstat(path)

CanList(path) == Lstat(path) = "directory" /\ tree[path].readable
CanRead(path) == Stat(path) = "file" /\ tree[path].readable

Entries(directory) == {path \in PathSet : Parent[path] = directory /\ Exists[path]}

(***************************************************************************)
(* What the YAML library makes of a text: it drops the comments and the    *)
(* separator before the first document, and stops behind that document.    *)
(***************************************************************************)
NoDocument == "no-document"

IsComment(line) == line.mark = "comment"

WithoutComments(lines) == Kept(lines, {line \in ToSet(lines) : ~IsComment(line)})

FirstDocument(lines) ==
  LET meaningful == WithoutComments(lines)
      rest == IF meaningful # <<>> /\ Head(meaningful).mark = "separator"
              THEN Tail(meaningful) ELSE meaningful
  IN IF \/ rest = <<>> \/ Head(rest).mark = "separator"
        \/ (rest # meaningful /\ Head(rest).mark = "inline")
     THEN NoDocument
     ELSE Head(rest).document

-------------------------------------------------------------------------------
TreeInit(found) == tree = found /\ treeChanges = 0

TreeChanges ==
  /\ treeChanges < MaxTreeChanges
  /\ \E change \in Changes :
       /\ tree[change.path] # change.node
       /\ tree' = [tree EXCEPT ![change.path] = change.node]
  /\ treeChanges' = treeChanges + 1
===============================================================================
