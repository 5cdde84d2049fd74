-------------------------------- MODULE FileEx --------------------------------
(***************************************************************************)
(* CFileEx (src/base/FileEx.cpp) as built for Linux: static functions over *)
(* a tree of folders and files that another process changes as well.       *)
(*                                                                         *)
(* A node of the tree is the sequence of its names, the root <<>>.  A path *)
(* is a sequence of names, dots and separators.                            *)
(***************************************************************************)
EXTENDS Integers, Sequences, FiniteSets, SequencesExt

CONSTANTS
    Name,           \* names of files and folders; SEP, DOT and PARENT are not among them
    Colon,          \* names with a ':'
    SEP, DOT, PARENT,   \* '/', "." and ".."
    Path,           \* arguments, with no ".." among their names
    Trees,          \* <<folders, files>> to begin with
    BuffSize,       \* bound: length of a path getcwd has room for (256)
    MaxCalls,       \* bound: calls in a behaviour
    MaxChanges      \* bound: changes another process makes

PathConstants ==
    /\ Colon \subseteq Name /\ Name \cap {SEP, DOT, PARENT} = {}
    /\ Cardinality({SEP, DOT, PARENT}) = 3
    /\ \A p \in Path :
          /\ p \in Seq(Name \cup {SEP, DOT})
          /\ \A k \in 1..(Len(p) - 1) : SEP \in {p[k], p[k + 1]}    \* between two names
    /\ \A tree \in Trees :
          /\ <<>> \in tree[1] /\ tree[1] \cap tree[2] = {}
          /\ tree[1] \cup tree[2] \subseteq Seq(Name)
          /\ \A x \in tree[1] \cup tree[2] : x # <<>> => Front(x) \in tree[1]
Bounds == BuffSize \in Nat /\ MaxCalls \in Nat /\ MaxChanges \in Nat

VARIABLES
    folders, files,         \* nodes
    cwd,                    \* node of the current directory, or Nowhere if it was removed
    pc,                     \* "idle", "list" or "listed"
    call,                   \* the last call: its name, its argument, what it returned, and
                            \* the tree and the current directory before it
    strFolder, unread,      \* GetSubFiles, GetSubFolders: local, and what readdir has to give
    vec,                    \* what they fill
    there, ever,            \* history: nodes that have been there, or were there, since opendir
    calls, changes

tree == <<folders, files>>
listVars == <<strFolder, unread, vec, there, ever>>
vars == <<tree, cwd, pc, call, listVars, calls, changes>>

-----------------------------------------------------------------------------
(* How the system reads a path without "..": a relative one begins at the
   current directory, and leads to nothing when that was removed.  The empty
   path is none.                                                           *)
Nowhere == <<PARENT>>
Names(path) == FlattenSeq([k \in 1..Len(path) |-> IF path[k] \in {SEP, DOT} THEN <<>> ELSE <<path[k]>>])
ResolveFrom(node, path) == (IF path # <<>> /\ path[1] = SEP THEN <<>> ELSE node) \o Names(path)
Resolve(path) == ResolveFrom(cwd, path)

Inside(node) == {x \in folders \cup files : IsPrefix(node, x)}
Children(node) == {x[Len(node) + 1] : x \in {x \in Inside(node) : Len(x) = Len(node) + 1}}

(* mkdir -p makes folders downwards until it meets a file.                 *)
MkdirP(node) ==
    IF IsPrefix(Nowhere, node) THEN folders
    ELSE folders \cup {x \in Prefixes(node) : Prefixes(x) \cap files = {}}

PathOf(node) ==
    IF node = <<>> THEN <<SEP>> ELSE FlattenSeq([k \in 1..Len(node) |-> <<SEP, node[k]>>])
Known(node) == node # Nowhere /\ Len(PathOf(node)) < BuffSize
GetCurDirectory == IF Known(cwd) THEN PathOf(cwd) ELSE <<>>

(* rfind; 0 when there is none.                                            *)
RFind(path) == Max({0} \cup {k \in 1..Len(path) : path[k] = SEP})
UpToSeparator(path) == IF RFind(path) = 0 THEN path ELSE SubSeq(path, 1, RFind(path) - 1)
GetExeDirectory(exe) == UpToSeparator(exe)

(* One separator at the end is taken off.                                  *)
Path2FileName(path) ==
    LET p == IF path # <<>> /\ Last(path) = SEP THEN Front(path) ELSE path
    IN SubSeq(p, RFind(p) + 1, Len(p))

(* Free blocks of nSize bytes, in units of K * K bytes: K is 1024.         *)
GetFreeDiskSpace(nFree, nSize, K) == ((nFree \div K) \div K) * nSize

-----------------------------------------------------------------------------
Init ==
    /\ \E x \in Trees : folders = x[1] /\ files = x[2]
    /\ cwd \in folders
    /\ pc = "idle" /\ call = <<"none", <<>>, TRUE, tree, cwd>>
    /\ strFolder = <<>> /\ unread = {} /\ vec = <<>> /\ there = {} /\ ever = {}
    /\ calls = 0 /\ changes = 0

Call(name, path, ok) ==
    /\ pc = "idle" /\ calls < MaxCalls /\ calls' = calls + 1
    /\ call' = <<name, path, ok, tree, cwd>>

(* A directory that was removed can still be entered from itself, as ".". *)
SetCurDirectory(path) ==
    LET ok == path # <<>> /\ Resolve(path) \in folders \cup {Nowhere} IN
    /\ Call("SetCurDirectory", path, ok)
    /\ cwd' = IF ok THEN Resolve(path) ELSE cwd
    /\ UNCHANGED <<tree, pc, listVars, changes>>

(* A relative path is put behind the current directory, which is empty when
   getcwd fails; mkdir's result is not looked at.                          *)
Absolute(path) ==
    IF path[1] # SEP /\ Range(path) \cap Colon = {} THEN GetCurDirectory \o <<SEP>> \o path ELSE path
Make(name, path, strPath) ==
    /\ Call(name, path, strPath # <<>>)
    /\ folders' = IF strPath = <<>> THEN folders ELSE MkdirP(Resolve(Absolute(strPath)))
    /\ UNCHANGED <<files, cwd, pc, listVars, changes>>
CreateFolder(path) == Make("CreateFolder", path, path)
CreateFolderForFile(path) == Make("CreateFolderForFile", path, UpToSeparator(path))

TakeAway(gone) ==
    /\ folders' = folders \ gone /\ files' = files \ gone
    /\ cwd' = IF cwd \in gone THEN Nowhere ELSE cwd

(* rm -rf, which leaves the root, what is named . or .., and a file that a
   separator follows alone; its result is not looked at.                   *)
Spared(path) ==
    \/ path = <<>> \/ Resolve(path) = <<>> \/ Path2FileName(path) \in {<<DOT>>, <<PARENT>>}
    \/ (Resolve(path) \in files /\ Last(path) = SEP)
DelFolder(path) ==
    /\ Call("DelFolder", path, TRUE)
    /\ TakeAway(IF Spared(path) THEN {} ELSE Inside(Resolve(path)))
    /\ UNCHANGED <<pc, listVars, changes>>

(* remove: a file, which no separator follows, or an empty folder.         *)
Removable(path) ==
    /\ path # <<>> /\ Resolve(path) # <<>> /\ Last(path) \notin {DOT, PARENT}
    /\ Inside(Resolve(path)) = {Resolve(path)}
    /\ Resolve(path) \in files => Last(path) # SEP
DelFile(path) ==
    /\ Call("DelFile", path, Removable(path))
    /\ TakeAway(IF Removable(path) THEN {Resolve(path)} ELSE {})
    /\ UNCHANGED <<pc, listVars, changes>>

(* GetSubFiles and GetSubFolders.  erase(length(), 1) takes nothing away, so
   a separator at the end of the argument stays.                           *)
Opendir(name, path) ==
    /\ Call(name, path, TRUE)
    /\ IF path = <<>> THEN UNCHANGED <<pc, listVars>>
       ELSE /\ vec' = <<>> /\ strFolder' = path
            /\ IF Resolve(path) \in folders
               THEN /\ pc' = "list"
                    /\ unread' = Children(Resolve(path)) \cup {DOT, PARENT}
                    /\ there' = Inside(Resolve(path)) /\ ever' = Inside(Resolve(path))
               ELSE UNCHANGED <<pc, unread, there, ever>>
    /\ UNCHANGED <<tree, cwd, changes>>
GetSubFiles(path) == Opendir("GetSubFiles", path)
GetSubFolders(path) == Opendir("GetSubFolders", path)

(* lstat finds the entry, or it has been removed since; . and .. are no
   files.                                                                  *)
OfKind == IF call[1] = "GetSubFiles" THEN files ELSE folders
Readdir ==
    /\ pc = "list"
    /\ \E name \in unread :
          LET arFile == strFolder \o <<SEP, name>>
              node == Resolve(arFile)
          IN /\ unread' = unread \ {name}
             /\ vec' = IF name \notin {DOT, PARENT} /\ node \in OfKind THEN Append(vec, arFile) ELSE vec
    /\ UNCHANGED <<tree, cwd, pc, call, strFolder, there, ever, calls, changes>>
Closedir ==
    /\ pc = "list" /\ unread = {}
    /\ pc' = "listed"
    /\ UNCHANGED <<tree, cwd, call, listVars, calls, changes>>
Return == pc = "listed" /\ pc' = "idle" /\ UNCHANGED <<tree, cwd, call, listVars, calls, changes>>

(* Another process makes and removes a file or a folder; readdir may give a
   name that appeared since, and need not.                                 *)
Changed(node) ==
    /\ pc = "list" /\ changes < MaxChanges /\ changes' = changes + 1
    /\ UNCHANGED <<pc, call, strFolder, vec, calls>>
Appear ==
    \E parent \in folders, name \in Name :
        LET node == Append(parent, name) IN
        /\ Changed(node) /\ node \notin folders \cup files
        /\ \/ folders' = folders \cup {node} /\ UNCHANGED files
           \/ files' = files \cup {node} /\ UNCHANGED folders
        /\ ever' = ever \cup {node}
        /\ unread' \in {unread, IF parent = Resolve(strFolder) THEN unread \cup {name} ELSE unread}
        /\ UNCHANGED <<cwd, there>>
Vanish ==
    \E node \in folders \cup files :
        /\ Changed(node) /\ node # <<>> /\ Inside(node) = {node}
        /\ TakeAway({node})
        /\ there' = there \ {node}
        /\ UNCHANGED <<unread, ever>>

Next ==
    \/ \E path \in Path :
          \/ SetCurDirectory(path) \/ CreateFolder(path) \/ CreateFolderForFile(path)
          \/ DelFolder(path) \/ DelFile(path) \/ GetSubFiles(path) \/ GetSubFolders(path)
    \/ Readdir \/ Closedir \/ Return \/ Appear \/ Vanish

Spec == Init /\ [][Next]_vars

-----------------------------------------------------------------------------
(* Every file or folder has its folder around it.                          *)
IsTree == \A x \in folders \cup files : x # <<>> => Front(x) \in folders

(* What is listed is there: each child of the kind asked for that stayed is
   given once, by a path that leads to it and whose file name is its own,
   and nothing that never was (FileEx.cpp:184-345).  One that was removed and
   made again may be given twice.                                          *)
Meant(path) == ResolveFrom(call[5], path)
ListIsOfFolder ==
    pc = "listed" =>
        LET node == Meant(strFolder)
            Child(x) == IsPrefix(node, x) /\ Len(x) = Len(node) + 1
            Given(x) == {k \in 1..Len(vec) : Meant(vec[k]) = x}
        IN /\ \A x \in there \cap OfKind : Child(x) => Cardinality(Given(x)) = 1
           /\ \A k \in 1..Len(vec) :
                 /\ Child(Meant(vec[k])) /\ Meant(vec[k]) \in ever
                 /\ Path2FileName(vec[k]) = <<Last(Meant(vec[k]))>>

(* A folder that is made is where the caller meant it, with those above it
   and no other, and a file's folders leave room for the file, if the
   current directory is known, no file is in the way and the path of the
   file has a folder in it (FileEx.cpp:123-171).                           *)
before == call[4]
Made(node) ==
    Known(call[5]) /\ Prefixes(node) \cap before[2] = {} =>
        folders = before[1] \cup Prefixes(node) /\ files = before[2]
MakesWhatIsMeant ==
    pc = "idle" /\ call[3] =>
        /\ call[1] = "CreateFolder" => Made(Meant(call[2]))
        /\ call[1] = "CreateFolderForFile" /\ RFind(call[2]) > 1 /\ Last(call[2]) \in Name =>
              Made(Front(Meant(call[2])))

(* What is removed is what was named, with what is in it if it is removed as
   a folder; a failure to remove a file leaves everything (FileEx.cpp:399-443). *)
RemovesWhatIsNamed ==
    pc = "idle" /\ call[1] \in {"DelFile", "DelFolder"} =>
        LET gone == (before[1] \cup before[2]) \ (folders \cup files) IN
        /\ folders \subseteq before[1] /\ files \subseteq before[2]
        /\ \A x \in gone : IsPrefix(Meant(call[2]), x)
        /\ call[1] = "DelFile" => gone = IF call[3] THEN {Meant(call[2])} ELSE {}

(* The free space is never overstated, and understated by less than the size
   of a block counted in units (FileEx.cpp:384).                           *)
FreeSpaceRight ==
    \A nFree \in 0..70, nSize \in {1, 2, 4} :
        LET units == (nFree * nSize) \div 16
        IN GetFreeDiskSpace(nFree, nSize, 4) \in (units - nSize + 1)..units
=============================================================================
