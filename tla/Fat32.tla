-------------------------------- MODULE Fat32 ---------------------------------
(***************************************************************************)
(* The FAT32 driver of the filesystem server (filesystems/fat32.rs) as the *)
(* tasks of its clients (client.rs) use it: opening, reading block by      *)
(* block and closing.  A client's task does one thing at a time, and waits *)
(* for the device in the middle of it while the other tasks go on; the     *)
(* device may fail a read.  A file is its first cluster and its size; how  *)
(* its name is found is module PathLookup.                                 *)
(***************************************************************************)
EXTENDS Integers, Sequences, FiniteSets, Functions

CONSTANTS
    Clients,
    Files,              \* names; FileData gives each its first cluster and its size
    FileData,
    Fat,                \* what the table holds for each cluster
    SectorSize,         \* 512 in the code
    EntriesPerSector,   \* of the table: 128 in the code
    SectorsPerCluster,
    FatStart, ClustersStart, LastSector,
    MaxOpens,           \* bound: files a client opens
    MaxErrors           \* bound: reads the device fails

\* A cluster number that is none: FatEntryKind and END_OF_CLUSTER_CHAIN.
Last == -1
Unused == -2

VARIABLES
    openFiles,   \* Fat32Inner.open_files
    opened,      \* a client's opened_files: which file id, and which file it meant
    task,        \* what a client's task is in the middle of
    got,         \* the blocks a client got of an opened file
    opens, errors,
    panicked

vars == <<openFiles, opened, task, got, opens, errors, panicked>>

NoInfo == [size |-> 0, read |-> 0, cluster |-> Last]
Idle == [at |-> "idle", file |-> CHOOSE f \in Files : TRUE, handle |-> 0, info |-> NoInfo, sector |-> 0]

Init ==
    /\ openFiles = << >>
    /\ opened = [c \in Clients |-> << >>]
    /\ task = [c \in Clients |-> Idle]
    /\ got = [c \in Clients |-> << >>]
    /\ opens = [c \in Clients |-> 0] /\ errors = 0
    /\ panicked = FALSE

\* Maps with numbers as keys; a new key is the last one and one.
NextKey(m) == IF DOMAIN m = {} THEN 0 ELSE 1 + CHOOSE k \in DOMAIN m : \A l \in DOMAIN m : l <= k
With(m, k, v) == [x \in DOMAIN m \cup {k} |-> IF x = k THEN v ELSE m[x]]
Without(m, k) == Restrict(m, DOMAIN m \ {k})

-----------------------------------------------------------------------------
(* open and close *)

\* open() looks the path up, ...
Open(c, f) ==
    /\ task[c].at = "idle" /\ opens[c] < MaxOpens
    /\ task' = [task EXCEPT ![c] = [Idle EXCEPT !.at = "lookup", !.file = f]]
    /\ opens' = [opens EXCEPT ![c] = @ + 1]
    /\ UNCHANGED <<openFiles, opened, got, errors, panicked>>

\* Mutant: the file's id is how many are open.
OpenDone_CountIsId(c) ==
    LET f == task[c].file
        id == Cardinality(DOMAIN openFiles)
        h == NextKey(opened[c])
    IN  /\ task[c].at = "lookup"
        /\ openFiles' = With(openFiles, id, [size |-> FileData[f].size, read |-> 0, cluster |-> FileData[f].cluster])
        /\ opened' = [opened EXCEPT ![c] = With(@, h, [id |-> id, file |-> f])]
        /\ got' = [got EXCEPT ![c] = With(@, h, <<>>)]
        /\ task' = [task EXCEPT ![c] = Idle]
        /\ UNCHANGED <<opens, errors, panicked>>

\* ... and once it is found makes an entry in open_files, and a handle for the
\* client.
OpenDone(c) ==
    LET f == task[c].file
        id == NextKey(openFiles)
        h == NextKey(opened[c])
    IN  /\ task[c].at = "lookup"
        /\ openFiles' = With(openFiles, id, [size |-> FileData[f].size, read |-> 0, cluster |-> FileData[f].cluster])
        /\ opened' = [opened EXCEPT ![c] = With(@, h, [id |-> id, file |-> f])]
        /\ got' = [got EXCEPT ![c] = With(@, h, <<>>)]
        /\ task' = [task EXCEPT ![c] = Idle]
        /\ UNCHANGED <<opens, errors, panicked>>

Close(c, h) ==
    /\ task[c].at = "idle" /\ h \in DOMAIN opened[c]
    /\ openFiles' = Without(openFiles, opened[c][h].id)
    /\ opened' = [opened EXCEPT ![c] = Without(@, h)]
    /\ got' = [got EXCEPT ![c] = Without(@, h)]
    /\ UNCHANGED <<task, opens, errors, panicked>>

-----------------------------------------------------------------------------
(* read_file_block *)

ClusterBytes == SectorsPerCluster * SectorSize

\* Mutant: always the first sector of the cluster.
DataSector_First(info) == ClustersStart + (info.cluster - 2) * SectorsPerCluster

\* The sector a block is read from: its cluster's first one, and for clusters
\* of several sectors the number of sectors read so far.
DataSector(info) ==
    ClustersStart + (info.cluster - 2) * SectorsPerCluster
        + (IF SectorsPerCluster > 1 THEN info.read \div SectorSize ELSE 0)

\* Mutant: a block that is not full is never read.
AtEnd_Early(info) == info.cluster = Last \/ info.read + SectorSize > info.size

AtEnd(info) == info.cluster = Last \/ info.read = info.size

\* read() of an opened file: at its end at once nothing, else the device is
\* asked for the table if a cluster has been read to its end, for data if not.
Read(c, h) ==
    LET info == openFiles[opened[c][h].id]
        atBoundary == info.read % ClusterBytes = 0 /\ info.read # 0
    IN  /\ task[c].at = "idle" /\ h \in DOMAIN opened[c]
        /\ opened[c][h].id \in DOMAIN openFiles
        /\ ~ AtEnd(info)
        /\ task' = [task EXCEPT ![c] = [at |-> IF atBoundary THEN "fat" ELSE "data", file |-> opened[c][h].file,
                                        handle |-> h, info |-> info,
                                        sector |-> IF atBoundary THEN FatStart + info.cluster \div EntriesPerSector
                                                   ELSE DataSector(info)]]
        /\ UNCHANGED <<openFiles, opened, got, opens, errors, panicked>>

\* The entry of a table sector the device has read.
FatEntry(sector, n) == Fat[(sector - FatStart) * EntriesPerSector + n]

\* Mutant: the next cluster is the one after the last.
FatDone_NextNumber(c) ==
    LET t == task[c]
        info == [t.info EXCEPT !.cluster = @ + 1]
    IN  /\ t.at = "fat"
        /\ task' = [task EXCEPT ![c] = [t EXCEPT !.at = "data", !.info = info, !.sector = DataSector(info)]]
        /\ UNCHANGED <<openFiles, opened, got, opens, errors, panicked>>

\* The table is read: the file goes on in the next cluster, ends before its
\* size, or has a cluster that is not in use (an internal error to the client).
FatDone(c) ==
    LET t == task[c]
        entry == FatEntry(t.sector, t.info.cluster % EntriesPerSector)
        id == opened[c][t.handle].id
        info == [t.info EXCEPT !.cluster = entry]
    IN  /\ t.at = "fat"
        /\ \/ /\ entry \notin {Last, Unused}
              /\ task' = [task EXCEPT ![c] = [t EXCEPT !.at = "data", !.info = info, !.sector = DataSector(info)]]
              /\ UNCHANGED <<openFiles, panicked>>
           \/ /\ entry = Last
              /\ task' = [task EXCEPT ![c] = Idle]
              /\ panicked' = (id \notin DOMAIN openFiles)
              /\ openFiles' = IF id \in DOMAIN openFiles THEN [openFiles EXCEPT ![id].cluster = Last] ELSE openFiles
           \/ /\ entry = Unused
              /\ task' = [task EXCEPT ![c] = Idle]
              /\ UNCHANGED <<openFiles, panicked>>
        /\ UNCHANGED <<opened, got, opens, errors>>

Amount(info) == IF info.read + SectorSize > info.size THEN info.size - info.read ELSE SectorSize

\* The data is read: the client gets as much of it as the file has, and the
\* entry of the file is replaced.
DataDone(c) ==
    LET t == task[c]
        id == opened[c][t.handle].id
        n == Amount(t.info)
    IN  /\ t.at = "data"
        /\ panicked' = (id \notin DOMAIN openFiles)
        /\ openFiles' = IF id \in DOMAIN openFiles
                        THEN [openFiles EXCEPT ![id] = [t.info EXCEPT !.read = @ + n]] ELSE openFiles
        /\ got' = [got EXCEPT ![c][t.handle] = Append(@, <<t.sector, n>>)]
        /\ task' = [task EXCEPT ![c] = Idle]
        /\ UNCHANGED <<opened, opens, errors>>

\* The device fails the read and the client is told; nothing has been moved on.
DeviceError(c) ==
    /\ task[c].at \in {"fat", "data", "lookup"} /\ errors < MaxErrors
    /\ errors' = errors + 1
    /\ task' = [task EXCEPT ![c] = Idle]
    /\ UNCHANGED <<openFiles, opened, got, opens, panicked>>

Next ==
    /\ ~ panicked
    /\ \E c \in Clients :
        \/ \E f \in Files : Open(c, f)
        \/ OpenDone(c) \/ FatDone(c) \/ DataDone(c) \/ DeviceError(c)
        \/ \E h \in DOMAIN opened[c] : Close(c, h) \/ Read(c, h)

Spec == Init /\ [][Next]_vars

-----------------------------------------------------------------------------
(* Properties *)

\* The clusters of a file, by following the table from its first.
Nth(f) ==
    LET cluster[n \in 0..Cardinality(DOMAIN Fat)] ==
          IF n = 0 THEN FileData[f].cluster
          ELSE IF cluster[n - 1] \in {Last, Unused} THEN Unused ELSE Fat[cluster[n - 1]]
    IN  cluster

\* Block k of a file: where it is, and how much of it is the file's.
Block(f, k) ==
    << ClustersStart + (Nth(f)[(k - 1) \div SectorsPerCluster] - 2) * SectorsPerCluster + ((k - 1) % SectorsPerCluster),
       IF k * SectorSize > FileData[f].size THEN FileData[f].size - (k - 1) * SectorSize ELSE SectorSize >>

\* A client reads the blocks of its file, each once and in order, whatever the
\* other clients do and the device fails.
ReadsFile ==
    \A c \in Clients : \A h \in DOMAIN opened[c] :
        \A k \in 1..Len(got[c][h]) : got[c][h][k] = Block(opened[c][h].file, k)

\* A file that can be read no further has been read to its size, unless its
\* clusters end before it.
ReadToTheEnd ==
    \A c \in Clients : \A h \in DOMAIN opened[c] :
        LET info == openFiles[opened[c][h].id]
            f == opened[c][h].file
            blocks == (info.size + SectorSize - 1) \div SectorSize
        IN  opened[c][h].id \in DOMAIN openFiles /\ AtEnd(info) =>
                \/ Len(got[c][h]) = blocks
                \/ \E n \in DOMAIN Nth(f) : Nth(f)[n] = Last /\ Len(got[c][h]) = n * SectorsPerCluster

\* No two handles, of one client or of two, share an entry of open_files, and
\* every handle has one: reading one file never moves another, and the
\* unwrap() after a wait finds the file.
HandlesDistinct ==
    /\ ~ panicked
    /\ \A c, d \in Clients : \A h \in DOMAIN opened[c], g \in DOMAIN opened[d] :
         /\ opened[c][h].id \in DOMAIN openFiles
         /\ opened[c][h].id = opened[d][g].id => c = d /\ h = g

\* The device is asked only for sectors of the partition.
InsidePartition ==
    \A c \in Clients : task[c].at \in {"fat", "data"} => task[c].sector \in FatStart..LastSector
===============================================================================
