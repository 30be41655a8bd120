------------------------------ MODULE CacheTool ------------------------------
(***************************************************************************)
(* cache_master.cpp: drops a file or the files below a directory from the  *)
(* page cache (-c), or shows how much of them is in it (-s).  A directory  *)
(* is read to its end in the order of readdir; the calls for the           *)
(* directories in it are nested, which is the stack of open directories.   *)
(* Each system call may fail, and opening fails at the limit of            *)
(* descriptors.                                                            *)
(***************************************************************************)
EXTENDS Integers, Sequences, FiniteSetsExt

CONSTANTS
  File, Dir, Other,  \* entries: files, directories, and anything else
  Listing,           \* for each directory its entries, in the order of readdir
  Hidden,            \* entries whose name begins with a dot
  Pages,             \* for each file its size in pages
  RootDir, RootFile, \* what the command line names
  FdLimit            \* descriptors that the process may open

(* An entry stands for a path, so it is in one directory and there once.   *)
TreeAssumption ==
  /\ Listing \in [Dir -> Seq(File \cup Dir \cup Other)] /\ Pages \in [File -> Nat]
  /\ RootDir \in Dir /\ RootFile \in File /\ FdLimit \in Nat
  /\ File \cap Dir = {} /\ File \cap Other = {} /\ Dir \cap Other = {}
  /\ \A d, g \in Dir : \A k \in DOMAIN Listing[d] : \A l \in DOMAIN Listing[g] :
       Listing[d][k] = Listing[g][l] => d = g /\ k = l
  /\ \A d \in Dir : \A k \in DOMAIN Listing[d] : Listing[d][k] # RootDir

VARIABLES
  mode,     \* "start", "file", "dir", "walk" or "done"
  type,     \* CmdParam.type: 1 and 2 clear, 3 and 4 show; 2 and 4 a directory
  stack,    \* directories that are read, the innermost first, and what is left of each
  fds,      \* open descriptors
  times,    \* history: how often each entry was handled
  opened,   \* history: directories that could be opened
  result,   \* history: the files released, those reported with an error, those counted
  kept,     \* history: files whose descriptor was not closed
  total     \* CacheStat

vars == <<mode, type, stack, fds, times, opened, result, kept, total>>

Init ==
  /\ mode = "start" /\ type = 0 /\ stack = <<>> /\ fds = 0
  /\ times = [e \in File \cup Dir \cup Other |-> 0] /\ opened = {}
  /\ result = [released |-> {}, failed |-> {}, counted |-> {}] /\ kept = {}
  /\ total = [pageCount |-> 0, inCache |-> 0]

(* parseArgs: one of -c and -s, and one of -f and -d.                      *)
ParseArgs(c, s, f, d) ==
  CASE c = s \/ f = d -> 0
    [] c # s /\ c /\ f /\ ~ d   -> 1
    [] c # s /\ c /\ ~ f /\ d   -> 2
    [] c # s /\ s /\ f /\ ~ d   -> 3
    [] c # s /\ s /\ ~ f /\ d   -> 4

Main(c, s, f, d) ==
  /\ mode = "start"
  /\ type' = ParseArgs(c, s, f, d)
  /\ mode' = CASE type' = 0 -> "done" [] type' \in {1, 3} -> "file" [] type' \in {2, 4} -> "dir"
  /\ UNCHANGED <<stack, fds, times, opened, result, kept, total>>

Clears == type \in {1, 2}
Handled(e) == times' = [times EXCEPT ![e] = @ + 1]
Report(k, f) == result' = [result EXCEPT ![k] = @ \cup {f}]

(* clearByName does not close the descriptor, whether it fails or not.     *)
ClearByName(f) ==
  \/ Report("failed", f) /\ UNCHANGED <<fds, kept, total>>
  \/ /\ fds < FdLimit /\ fds' = fds + 1 /\ kept' = kept \cup {f}
     /\ Report("released", f) \/ Report("failed", f)
     /\ UNCHANGED total

(* statByName closes and unmaps on every path; an empty file has no map.   *)
StatByName(f) ==
  /\ \/ Report("failed", f) /\ UNCHANGED total
     \/ /\ fds < FdLimit /\ Pages[f] > 0
        /\ Report("counted", f)
        /\ \E inCache \in 0..Pages[f] :
             total' = [pageCount |-> total.pageCount + Pages[f], inCache |-> total.inCache + inCache]
  /\ UNCHANGED <<fds, kept>>

OpenFile(f) == Handled(f) /\ (IF Clears THEN ClearByName(f) ELSE StatByName(f)) /\ UNCHANGED opened

(* opendir; when it fails the directory is reported and passed over, if    *)
(* closedir takes the null pointer it is then given, as that of glibc does.*)
OpenDir(d, rest) ==
  /\ Handled(d)
  /\ \/ stack' = rest /\ UNCHANGED <<fds, opened>>
     \/ /\ fds < FdLimit /\ fds' = fds + 1 /\ opened' = opened \cup {d}
        /\ stack' = <<[dir |-> d, left |-> Listing[d]]>> \o rest
  /\ UNCHANGED <<result, kept, total>>

RootFileStep == mode = "file" /\ OpenFile(RootFile) /\ mode' = "done" /\ UNCHANGED <<type, stack>>

RootDirStep ==
  /\ mode = "dir" /\ OpenDir(RootDir, <<>>) /\ UNCHANGED type
  /\ mode' = IF stack' = <<>> THEN "done" ELSE "walk"

(* The entry at which the innermost directory is, and the stack after it.  *)
Entry == Head(Head(stack).left)
Rest  == <<[Head(stack) EXCEPT !.left = Tail(@)]>> \o Tail(stack)
Reads(S) == mode = "walk" /\ Head(stack).left # <<>> /\ Entry \in S

(* Showing leaves out what begins with a dot, clearing only "." and "..".  *)
(* Mutant: showing takes hidden entries, too.                              *)
Skips_None(e) == FALSE
Skips(e) == ~ Clears /\ e \in Hidden

WalkFile ==
  /\ Reads(File) /\ ~ Skips(Entry)
  /\ OpenFile(Entry) /\ stack' = Rest /\ UNCHANGED <<mode, type>>

WalkDir ==
  /\ Reads(Dir) /\ ~ Skips(Entry)
  /\ OpenDir(Entry, Rest) /\ UNCHANGED <<mode, type>>

WalkOther ==
  /\ Reads(Other) /\ ~ Skips(Entry)
  /\ Handled(Entry) /\ stack' = Rest /\ UNCHANGED <<mode, type, fds, opened, result, kept, total>>

WalkSkipped ==
  /\ Reads(File \cup Dir \cup Other) /\ Skips(Entry) /\ stack' = Rest
  /\ UNCHANGED <<mode, type, fds, times, opened, result, kept, total>>

CloseDir ==
  /\ mode = "walk" /\ Head(stack).left = <<>>
  /\ stack' = Tail(stack) /\ fds' = fds - 1
  /\ mode' = IF stack' = <<>> THEN "done" ELSE "walk"
  /\ UNCHANGED <<type, times, opened, result, kept, total>>

Ended == mode = "done" /\ UNCHANGED vars

Next ==
  \/ \E c, s, f, d \in BOOLEAN : Main(c, s, f, d)
  \/ RootFileStep \/ RootDirStep
  \/ WalkFile \/ WalkDir \/ WalkOther \/ WalkSkipped \/ CloseDir
  \/ Ended

Spec == Init /\ [][Next]_vars

-----------------------------------------------------------------------------
Under(d) == {Listing[d][k] : k \in DOMAIN Listing[d]}
Sum(S) == FoldSet(LAMBDA f, s : s + Pages[f], 0, S)

(* Every entry of a directory that could be opened is handled once, and    *)
(* none of another; showing passes over hidden ones with all below them.   *)
(* At the end each file has one result; showing has closed everything and  *)
(* its total is that of the files it counted; clearing has left open the   *)
(* files it could open and nothing else.                                   *)
EachFileOnce ==
  /\ fds = Len(stack) + (IF Clears THEN Cardinality(kept) ELSE 0)
  /\ \A d \in Dir, e \in DOMAIN times : type \in {2, 4} /\ e \in Under(d) =>
       /\ times[e] <= 1
       /\ times[e] = 1 => d \in opened /\ (Clears \/ e \notin Hidden)
       /\ (mode = "done" /\ d \in opened) => times[e] = 1 \/ (~ Clears /\ e \in Hidden)
  /\ \A f \in File : times[f] =
       Cardinality({k \in {"released", "failed", "counted"} : f \in result[k]})
  /\ total.pageCount = Sum(result.counted) /\ total.inCache <= total.pageCount
  /\ result.released \subseteq kept

TypeOK ==
  /\ mode \in {"start", "file", "dir", "walk", "done"} /\ type \in 0..4
  /\ fds \in 0..FdLimit /\ opened \subseteq Dir /\ kept \subseteq File
  /\ \A k \in DOMAIN stack : stack[k].dir \in Dir
=============================================================================
