------------------------------ MODULE PathLookup ------------------------------
(***************************************************************************)
(* How the FAT32 driver finds a path (find_path, with_directory_entries)   *)
(* and what roots it is found from (set_root, derive_root, exists), with   *)
(* the paths of filesystems/path.rs.  A path is a sequence of names and    *)
(* slashes, a name being one element; a directory is one cluster of        *)
(* entries, each directory a step of its own since the device is waited    *)
(* for.  Entries of a long name precede the entry they name, and deleted   *)
(* entries stay until they are used again.                                 *)
(***************************************************************************)
EXTENDS Integers, Sequences, FiniteSets, SequencesExt

CONSTANTS
    Directories,   \* cluster -> sequence of entries
    Contents,      \* cluster -> what that directory holds: names, kinds and clusters
    RootCluster,
    Paths,         \* paths looked up
    RootPaths,     \* paths roots are derived from
    MaxRoots       \* bound: roots derived

Slash == "/"
NoName == ""

\* Entries: a part of a long name, a deleted entry, the end, or a file or a
\* directory with its short name.
LongPart(name) == [kind |-> "long", name |-> name, cluster |-> 0]
Deleted == [kind |-> "deleted", name |-> NoName, cluster |-> 0]
End == [kind |-> "end", name |-> NoName, cluster |-> 0]
File(name) == [kind |-> "file", name |-> name, cluster |-> 0]
VARIABLES
    roots,       \* the driver's roots, by number
    task,        \* the lookup under way
    origin,      \* the root and the path each root was derived from
    found        \* what the last lookup found, until the next one starts

vars == <<roots, task, origin, found>>

-----------------------------------------------------------------------------
(* path.rs *)

LastSlash(p) == SelectLastInSeq(p, LAMBDA x : x = Slash)
RTrim(p) == SubSeq(p, 1, SelectLastInSeq(p, LAMBDA x : x # Slash))

HasParent(p) == LastSlash(p) # 0
Parent(p) == SubSeq(p, 1, LastSlash(p) - 1)

HasFileName(p) == LastSlash(RTrim(p)) # 0
FileName(p) == SubSeq(RTrim(p), LastSlash(RTrim(p)) + 1, Len(RTrim(p)))

\* join(): one slash between the two.
Join(p, other) ==
    (IF p # <<>> /\ Last(p) = Slash THEN p ELSE Append(p, Slash))
        \o (IF other # <<>> /\ other[1] = Slash THEN Tail(other) ELSE other)

\* compontents(): what is between the slashes, of the path without the ones at
\* its end.
Components(p) ==
    LET q == RTrim(p)
        cuts == SetToSortSeq({n \in 1..Len(q) : q[n] = Slash} \cup {0, Len(q) + 1}, <)
    IN  [n \in 1..Len(cuts) - 1 |-> SubSeq(q, cuts[n] + 1, cuts[n + 1] - 1)]

-----------------------------------------------------------------------------
(* with_directory_entries *)

\* Mutant: the parts of a deleted entry's name are kept.
Named_KeepsParts(entries) ==
    LET end == SelectInSeq(entries, LAMBDA e : e.kind = "end")
        used == IF end = 0 THEN entries ELSE SubSeq(entries, 1, end - 1)
        parts(n) == {m \in 1..n - 1 : used[m].kind = "long" /\ \A k \in m..n - 1 : used[k].kind \in {"long", "deleted"}}
        long(n) == FlattenSeq([m \in 1..Cardinality(parts(n)) |-> used[SetToSortSeq(parts(n), >)[m]].name])
    IN  { [entry |-> used[n], long |-> long(n), at |-> n] : n \in {m \in 1..Len(used) : used[m].kind \in {"file", "directory"}} }

\* The entries that are files or directories up to the end, each with the long
\* name put together from the parts in front of it: every part goes before the
\* ones already there, and any other entry clears what was put together.
Named(entries) ==
    LET end == SelectInSeq(entries, LAMBDA e : e.kind = "end")
        used == IF end = 0 THEN entries ELSE SubSeq(entries, 1, end - 1)
        parts(n) == {m \in 1..n - 1 : \A k \in m..n - 1 : used[k].kind = "long"}
        long(n) == FlattenSeq([m \in 1..Cardinality(parts(n)) |-> used[SetToSortSeq(parts(n), >)[m]].name])
    IN  { [entry |-> used[n], long |-> long(n), at |-> n] : n \in {m \in 1..Len(used) : used[m].kind \in {"file", "directory"}} }

\* The closures of find_path(): an entry is the one asked for by its long name,
\* and by its short name if it has no long one or another.
Matches(e, name) == (e.long # <<>> /\ e.long = name) \/ e.entry.name = name

First(S) == CHOOSE e \in S : \A d \in S : e.at <= d.at

-----------------------------------------------------------------------------
(* find_path, and the operations that use it *)

NotYet == [path |-> <<>>, result |-> "none"]

Idle == [at |-> "idle", op |-> "exists", root |-> 1, path |-> <<>>, left |-> <<>>, cluster |-> 0]

Init ==
    /\ roots = << <<Slash>> >>
    /\ origin = << <<1, <<>>>> >>
    /\ task = Idle
    /\ found = NotYet

\* open(), exists() and list_directory() look the path up under a root; so does
\* derive_root(), through exists().  A path without a name or a parent is
\* invalid.
Start(op, root, path) ==
    LET full == Join(roots[root], path) IN
    /\ task.at = "idle"
    /\ \/ /\ ~ HasFileName(full) \/ ~ HasParent(full)
          /\ found' = [path |-> full, result |-> "invalid"]
          /\ UNCHANGED task
       \/ /\ HasFileName(full) /\ HasParent(full)
          /\ task' = [at |-> "walk", op |-> op, root |-> root, path |-> path,
                      left |-> Tail(Components(Parent(full))), cluster |-> RootCluster]
          /\ found' = NotYet
    /\ UNCHANGED <<roots, origin>>

\* One directory on the way: the first subdirectory of the name.
Walk ==
    LET here == {e \in Named(Directories[task.cluster]) :
                    e.entry.kind = "directory" /\ Matches(e, Head(task.left))}
    IN  /\ task.at = "walk" /\ task.left # <<>>
        /\ \/ /\ here # {}
              /\ task' = [task EXCEPT !.left = Tail(@), !.cluster = First(here).entry.cluster]
              /\ UNCHANGED found
           \/ /\ here = {}
              /\ task' = Idle
              /\ found' = [path |-> Join(roots[task.root], task.path), result |-> "none"]
        /\ UNCHANGED <<roots, origin>>

\* Mutant: a root is made of the directory's own name.
Arrive_StoresName ==
    LET full == Join(roots[task.root], task.path)
        here == {e \in Named(Directories[task.cluster]) : Matches(e, FileName(full))}
        kind == IF here = {} THEN "none" ELSE First(here).entry.kind
    IN  /\ task.at = "walk" /\ task.left = <<>>
        /\ task' = Idle
        /\ found' = [path |-> full, result |-> kind]
        /\ IF task.op = "derive" /\ kind = "directory"
           THEN /\ roots' = Append(roots, FileName(full))
                /\ origin' = Append(origin, <<task.root, task.path>>)
           ELSE UNCHANGED <<roots, origin>>

\* The directory the path is in: the first entry of its name.  derive_root()
\* then has a new root, the number after the last, for the path it was given.
Arrive ==
    LET full == Join(roots[task.root], task.path)
        here == {e \in Named(Directories[task.cluster]) : Matches(e, FileName(full))}
        kind == IF here = {} THEN "none" ELSE First(here).entry.kind
    IN  /\ task.at = "walk" /\ task.left = <<>>
        /\ task' = Idle
        /\ found' = [path |-> full, result |-> kind]
        /\ IF task.op = "derive" /\ kind = "directory"
           THEN /\ roots' = Append(roots, task.path)
                /\ origin' = Append(origin, <<task.root, task.path>>)
           ELSE UNCHANGED <<roots, origin>>

Next ==
    \/ \E r \in 1..Len(roots), p \in Paths : Start("exists", r, p)
    \/ \E r \in 1..Len(roots), p \in RootPaths : Len(roots) <= MaxRoots /\ Start("derive", r, p)
    \/ Walk \/ Arrive

Spec == Init /\ [][Next]_vars

-----------------------------------------------------------------------------
(* Properties *)

\* What the names of a path lead to from the root, by what the directories
\* hold.
Reaches(names) ==
    LET at[n \in 0..Len(names)] ==
          IF n = 0 THEN {[kind |-> "directory", cluster |-> RootCluster]}
          ELSE { [kind |-> e.kind, cluster |-> e.cluster] :
                 e \in UNION { {d \in Contents[x.cluster] : names[n] \in d.names} :
                               x \in {y \in at[n - 1] : y.kind = "directory"} } }
    IN  at[Len(names)]

\* A lookup that ends has found what the names of its path lead to, if that is
\* one thing: no deleted name is found and no name is passed over.  (Of a path
\* that ends in a slash file_name() and parent() name different things, and
\* even a directory that exists is not found.)
FindsWhatIsThere ==
    LET there == Reaches(Tail(Components(found.path))) IN
    found.path # <<>> /\ Last(found.path) # Slash =>
        IF there = {} THEN found.result = "none" ELSE found.result \in {e.kind : e \in there}

\* A derived root stands for the path it was derived with, under the root it
\* was derived from.
RootsNested ==
    \A n \in 2..Len(roots) : roots[n] = Join(roots[origin[n][1]], origin[n][2])
===============================================================================
