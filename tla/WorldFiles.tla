----------------------------- MODULE WorldFiles -----------------------------
(***************************************************************************)
(* The two files beside the region files: the world metadata (world.cwm,    *)
(* metadata.rs and metadata/io.rs) and the generator state (generator.cgs,  *)
(* generator_state.rs), with the calls of the extension that open, create    *)
(* and replace them.  Names are entries of one directory and denote inodes,  *)
(* so that a hard link is a second name of the same contents.  A step is one *)
(* system call.  Any call may fail, a process may be killed between any two  *)
(* and started again under the same process id, and the machine may lose     *)
(* power: what was not synced is then torn or gone.                          *)
(***************************************************************************)
EXTENDS Naturals, FiniteSets, FiniteSetsExt

CONSTANTS Process, None, Torn,
          Uuid,          \* bound: identities in use at a time, numbers
          MaxRev,        \* bound: states of the generator that differ
          MaxTemp,       \* bound: files of one kind one process writes
          Inode,         \* bound: inodes in use at a time, numbers
          MaxFaults      \* bound: failed calls, kills and power failures

VARIABLES
    dir,      \* the inode each name of the world directory denotes, or None
    onDisk,   \* the inodes each file may be after a power failure
    file,     \* the contents of each inode, and whether they are synced
    proc,     \* each process: where it is, what it holds in memory
    acked,    \* the contents last reported written, of each file
    tried,    \* the contents put in place since
    faults    \* how many calls failed, processes were killed, power failures came

disk == <<dir, onDisk, file, acked, tried>>
vars == <<disk, proc, faults>>

Kinds == {"world", "generator"}
Dest(f) == <<f>>
Temps == Kinds \X Process \X (1 .. MaxTemp)
Names == {Dest(f) : f \in Kinds} \cup Temps

(* metadata is the WorldDirectory of an attached world, rev and dirty the    *)
(* generator's state, ids the two TEMP_FILE_ID counters, job the publication *)
(* under way.                                                                *)
Fresh == [pc |-> "new", metadata |-> None, rev |-> 0, dirty |-> FALSE,
          ids |-> [f \in Kinds |-> 0], job |-> None]

Blank == [val |-> None, synced |-> TRUE]

Init ==
    /\ dir = [n \in Names |-> None] /\ onDisk = [f \in Kinds |-> {None}]
    /\ file = [i \in Inode |-> Blank]
    /\ proc = [p \in Process |-> Fresh]
    /\ acked = [f \in Kinds |-> None] /\ tried = [f \in Kinds |-> {}]
    /\ faults = 0

(* What a reader of the file finds. *)
Found(f) == IF dir[Dest(f)] = None THEN None ELSE file[dir[Dest(f)]].val

Free == {i \in Inode : (\A n \in Names : i # dir[n]) /\ \A f \in Kinds : i \notin onDisk[f]}

(* An inode no name denotes any more is given back, contents and all. *)
Reclaimed(contents, names) ==
    [i \in Inode |-> IF \E n \in Names : names[n] = i THEN contents[i] ELSE Blank]

Unnamed(n) == dir' = [dir EXCEPT ![n] = None]

(* The new name of a file reaches the disk at the next sync of the directory, *)
(* or by itself, earlier.                                                     *)
Placed(f, i) == onDisk' = [onDisk EXCEPT ![f] = @ \cup {i}]

-----------------------------------------------------------------------------
(* The steps of one publication: publish_metadata, write_generator_state.    *)

Temp(p) == <<proc[p].job.file, p, proc[p].ids[proc[p].job.file]>>

Goto(p, pc) == proc' = [proc EXCEPT ![p].pc = pc]

(* fetch_add gives the temporary file a name this process has not used. *)
Begin(p, f, v, create) ==
    /\ proc[p].ids[f] < MaxTemp
    /\ proc' = [proc EXCEPT ![p].pc = "temp", ![p].ids[f] = @ + 1,
                            ![p].job = [file |-> f, val |-> v, create |-> create]]

(* Variant for mutation: a file left under that name is opened and truncated. *)
ReuseLeftover(p) ==
    /\ proc[p].pc = "temp" /\ Free # {}
    /\ LET i == IF dir[Temp(p)] # None THEN dir[Temp(p)] ELSE Min(Free) IN
       /\ dir' = [dir EXCEPT ![Temp(p)] = i]
       /\ file' = [file EXCEPT ![i] = [val |-> Torn, synced |-> FALSE]]
    /\ Goto(p, "write") /\ UNCHANGED <<onDisk, acked, tried>>

(* create_new; a file left under that name by a killed process is removed,   *)
(* not reused.                                                               *)
OpenTemp(p) ==
    /\ proc[p].pc = "temp" /\ Free # {}
    /\ LET i == Min(Free) IN
       /\ dir' = [dir EXCEPT ![Temp(p)] = i]
       /\ file' = [file EXCEPT ![i] = [val |-> Torn, synced |-> FALSE]]
    /\ Goto(p, "write") /\ UNCHANGED <<onDisk, acked, tried>>

WriteTemp(p) ==
    /\ proc[p].pc = "write"
    /\ file' = [file EXCEPT ![dir[Temp(p)]].val = proc[p].job.val]
    /\ Goto(p, "sync") /\ UNCHANGED <<dir, onDisk, acked, tried>>

SyncTemp(p) ==
    /\ proc[p].pc = "sync"
    /\ file' = [file EXCEPT ![dir[Temp(p)]].synced = TRUE]
    /\ Goto(p, IF proc[p].job.create THEN "link" ELSE "rename")
    /\ UNCHANGED <<dir, onDisk, acked, tried>>

Tried(p) == tried' = [tried EXCEPT ![proc[p].job.file] = @ \cup {proc[p].job.val}]

(* Variant for mutation: the new world is renamed into place. *)
LinkOver(p) ==
    /\ proc[p].pc = "link"
    /\ dir' = [dir EXCEPT ![Dest("world")] = dir[Temp(p)]]
    /\ Placed("world", dir[Temp(p)]) /\ Goto(p, "unlink") /\ Tried(p)
    /\ UNCHANGED <<file, acked>>

(* hard_link never replaces: of two processes that create the world, the     *)
(* second takes its temporary file away and opens the world of the first.    *)
HardLink(p) ==
    /\ proc[p].pc = "link"
    /\ \/ /\ Found("world") = None
          /\ dir' = [dir EXCEPT ![Dest("world")] = dir[Temp(p)]]
          /\ Placed("world", dir[Temp(p)]) /\ Goto(p, "unlink") /\ Tried(p)
       \/ /\ Found("world") # None
          /\ Unnamed(Temp(p)) /\ UNCHANGED <<onDisk, tried>>
          /\ proc' = [proc EXCEPT ![p].pc = "open", ![p].job = None]
    /\ UNCHANGED <<file, acked>>

RemoveTemp(p) ==
    /\ proc[p].pc = "unlink"
    /\ Unnamed(Temp(p)) /\ Goto(p, "syncdir")
    /\ UNCHANGED <<onDisk, file, acked, tried>>

Rename(p) ==
    /\ proc[p].pc = "rename"
    /\ dir' = [dir EXCEPT ![Dest(proc[p].job.file)] = dir[Temp(p)], ![Temp(p)] = None]
    /\ Placed(proc[p].job.file, dir[Temp(p)]) /\ Goto(p, "syncdir") /\ Tried(p)
    /\ UNCHANGED <<file, acked>>

(* The directory is synced and the call returns: a new world is attached, a  *)
(* replaced one is held in memory, the generator is clean.                   *)
Returned(p) ==
    [proc[p] EXCEPT !.pc = IF proc[p].job.create THEN "restore" ELSE "attached", !.job = None,
                    !.metadata = IF proc[p].job.file = "world" THEN proc[p].job.val ELSE @,
                    !.dirty = @ /\ proc[p].job.file = "world"]

SyncDirectory(p) ==
    /\ proc[p].pc = "syncdir"
    /\ onDisk' = [f \in Kinds |-> {dir[Dest(f)]}]
    /\ proc' = [proc EXCEPT ![p] = Returned(p)]
    /\ acked' = [acked EXCEPT ![proc[p].job.file] = proc[p].job.val]
    /\ tried' = [tried EXCEPT ![proc[p].job.file] = {}]
    /\ file' = Reclaimed(file, dir) /\ UNCHANGED dir

Publication(p) ==
    OpenTemp(p) \/ WriteTemp(p) \/ SyncTemp(p) \/ HardLink(p) \/ RemoveTemp(p)
        \/ Rename(p) \/ SyncDirectory(p)

-----------------------------------------------------------------------------
(* Attaching a world: cobblestone_world_storage_attach.                      *)

Attach(p) ==
    /\ proc[p].pc = "new"
    /\ Goto(p, IF Found("world") # None THEN "open" ELSE "create")
    /\ UNCHANGED disk

InUse == {proc[p].job.val.uuid : p \in {q \in Process : proc[q].job # None}}
            \cup {file[i].val.uuid : i \in {j \in Inode : file[j].val \notin {None, Torn}}}

(* A new world has a random identity, generation 1 and settings version 1. *)
NewMetadata == [uuid |-> Min(Uuid \ InUse), generation |-> 1, version |-> 1]

(* Another process may have created the world since attach looked.           *)
Create(p) ==
    /\ proc[p].pc = "create"
    /\ \/ Found("world") # None /\ Goto(p, "open")
       \/ /\ Found("world") = None
          /\ Uuid \ InUse # {} /\ Begin(p, "world", NewMetadata, TRUE)
    /\ UNCHANGED disk

DecodesMetadata == Found("world") # Torn

(* No file is an empty state; one of another world is an error. *)
DecodesState(p) ==
    Found("generator") # None =>
        Found("generator") # Torn /\ Found("generator").uuid = proc[p].metadata.uuid

Open(p) ==
    /\ proc[p].pc = "open" /\ DecodesMetadata
    /\ proc' = [proc EXCEPT ![p].pc = "restore", ![p].metadata = Found("world")]
    /\ UNCHANGED disk

Restore(p) ==
    /\ proc[p].pc = "restore" /\ DecodesState(p)
    /\ proc' = [proc EXCEPT ![p].pc = "attached",
            ![p].rev = IF Found("generator") = None THEN 0 ELSE Found("generator").rev]
    /\ UNCHANGED disk

(* Other contents are refused: attach fails and the process ends. *)
Refuse(p) ==
    /\ proc[p].pc \in {"open", "restore"}
    /\ ~ (IF proc[p].pc = "open" THEN DecodesMetadata ELSE DecodesState(p))
    /\ proc' = [proc EXCEPT ![p] = Fresh]
    /\ UNCHANGED disk

-----------------------------------------------------------------------------
(* An attached world. *)

(* Assumption: nothing in the code keeps two processes from serving one      *)
(* world; the one that replaces a file does so while no other is at work.    *)
Alone(p) == \A q \in Process \ {p} : proc[q].pc \in {"new", "open", "restore", "attached"}

(* replace_metadata keeps the identity and counts the generation: the spawn  *)
(* of a world with settings version 1, 2 or 3 is resolved once.              *)
MigrateSpawn(p) ==
    /\ proc[p].pc = "attached" /\ Alone(p) /\ proc[p].metadata.version \in 1 .. 3
    /\ Begin(p, "world", [proc[p].metadata EXCEPT !.generation = @ + 1, !.version = 4], FALSE)
    /\ UNCHANGED disk

Generate(p) ==
    /\ proc[p].pc = "attached" /\ proc[p].rev < MaxRev
    /\ proc' = [proc EXCEPT ![p].rev = @ + 1, ![p].dirty = TRUE]
    /\ UNCHANGED disk

PersistIfDirty(p) ==
    /\ proc[p].pc = "attached" /\ Alone(p) /\ proc[p].dirty
    /\ Begin(p, "generator", [uuid |-> proc[p].metadata.uuid, rev |-> proc[p].rev], FALSE)
    /\ UNCHANGED disk

(* A system call fails.  The error goes up to PHP: an attach fails and the   *)
(* process ends, another call leaves what the process holds in memory.  A    *)
(* failed link or rename takes the temporary file away, a failed write or    *)
(* sync leaves it; where create_new fails, a leftover may be removed.        *)
CallFails(p) ==
    /\ proc[p].pc \notin {"new", "attached"}
    /\ proc' = [proc EXCEPT ![p] = IF proc[p].pc = "restore" \/ proc[p].metadata = None
                                   THEN Fresh
                                   ELSE [@ EXCEPT !.pc = "attached", !.job = None]]
    /\ IF proc[p].pc \in {"temp", "link", "rename"} THEN Unnamed(Temp(p)) ELSE UNCHANGED dir
    /\ UNCHANGED <<onDisk, file, acked, tried>>

(* A process ends or is killed; its names stay as they are. *)
Kill(p) == proc[p] # Fresh /\ proc' = [proc EXCEPT ![p] = Fresh] /\ UNCHANGED disk

(* A power failure: each file is what it was at the last sync of the          *)
(* directory or has become since, and contents never synced may be torn.      *)
(* Temporary names stay, where they are most in the way.                      *)
PowerLoss ==
    /\ \E w \in onDisk["world"], g \in onDisk["generator"], torn \in BOOLEAN :
        /\ dir' = [dir EXCEPT ![Dest("world")] = w, ![Dest("generator")] = g]
        /\ file' = Reclaimed([i \in Inode |->
                [val |-> IF file[i].synced \/ ~torn THEN file[i].val ELSE Torn,
                 synced |-> TRUE]], dir')
    /\ onDisk' = [f \in Kinds |-> {dir'[Dest(f)]}]
    /\ proc' = [p \in Process |-> Fresh]
    /\ acked' = [f \in Kinds |->
                    IF dir'[Dest(f)] = None THEN None ELSE file'[dir'[Dest(f)]].val]
    /\ tried' = [f \in Kinds |-> {}]

Step ==
    \E p \in Process :
        \/ Publication(p) \/ Attach(p) \/ Create(p) \/ Open(p) \/ Restore(p) \/ Refuse(p)
        \/ MigrateSpawn(p) \/ Generate(p) \/ PersistIfDirty(p)

Fault == PowerLoss \/ \E p \in Process : CallFails(p) \/ Kill(p)

Next ==
    \/ Step /\ UNCHANGED faults
    \/ Fault /\ faults < MaxFaults /\ faults' = faults + 1

Spec == Init /\ [][Next]_vars

-----------------------------------------------------------------------------
(* Each file is replaced as a whole: a reader finds what was last reported    *)
(* written or a later whole version, across failed calls, kills and power      *)
(* failures at every step, and never a torn file.                              *)
WorldStore == INSTANCE RegionStore WITH
    Chunk <- {"world"}, Value <- [uuid : Uuid, generation : 1 .. 2, version : {1, 4}],
    visible <- [f \in {"world"} |-> Found(f)], durable <- [f \in {"world"} |-> acked[f]],
    tried <- {[f \in {"world"} |-> v] : v \in tried["world"]}
GeneratorStore == INSTANCE RegionStore WITH
    Chunk <- {"generator"}, Value <- [uuid : Uuid, rev : 1 .. MaxRev],
    visible <- [f \in {"generator"} |-> Found(f)], durable <- [f \in {"generator"} |-> acked[f]],
    tried <- {[f \in {"generator"} |-> v] : v \in tried["generator"]}

FilesReplacedWhole == WorldStore!Spec /\ GeneratorStore!Spec

(* The world a process attached is the world on disk for as long as it runs,   *)
(* though another process was creating it at the same time: regions and        *)
(* generator state are written under the identity that later starts read.      *)
IdentityKept ==
    \A p \in Process : proc[p].metadata # None =>
        Found("world") \notin {None, Torn} /\ Found("world").uuid = proc[p].metadata.uuid

=============================================================================
