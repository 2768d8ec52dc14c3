------------------------------ MODULE RegionFile ------------------------------
(***************************************************************************)
(* One region file: a header, two index pages and an append-only record    *)
(* area, written by the save worker that owns the region and read by load  *)
(* workers that share nothing with it but the file system.                 *)
(*                                                                         *)
(* `file' is what system calls see, `disk' what survives a power failure;  *)
(* `entry' and `entryDisk' are the same pair for the directory entry.  A   *)
(* sync moves one to the other; a crash keeps, for every unit written      *)
(* since, the old bytes, the new ones or a torn mixture, which a checksum  *)
(* tells apart from either.                                                *)
(***************************************************************************)
EXTENDS Naturals, Sequences, FiniteSets

CONSTANTS
    Chunk, Value, None, Torn,
    Inode,        \* bound: files the region path and its compactions may use
    NoInode,
    MaxGen,       \* bound: index generation
    MaxRecs,      \* bound: records in one file
    Loader,       \* load workers reading this region
    FaultSets     \* what may fail together: a write, the sync of a file in use, a
                  \* sync on the way to a durable directory entry, the machine

(* A valid index page, a whole record, and a RegionFile the worker has open. *)
Indices == [Chunk -> 0 .. MaxRecs]
Pages   == [gen : 0 .. MaxGen, idx : Indices]
Records == [pos : Chunk, val : Value]
Handles == [inode : Inode, active : 1 .. 2, gen : 0 .. MaxGen, idx : Indices]

(* The slots of a region can be listed; INDEX_ENTRY_COUNT in the code. *)
ASSUME SlotsAssumption ==
    \A S \in SUBSET Chunk :
        Cardinality(S) \in Nat /\ \E s \in [1 .. Cardinality(S) -> S] : \A c \in S : \E n \in DOMAIN s : s[n] = c

ASSUME RegionFileAssumption ==
    /\ MaxGen \in Nat \ {0} /\ MaxRecs \in Nat
    /\ NoInode \notin Inode /\ None \notin Handles
    /\ Torn \notin Pages /\ Torn \notin Records
    /\ \A F \in FaultSets : F \subseteq {"write", "sync", "entry", "crash"}

VARIABLES
    file, disk,         \* [Inode -> contents]: page cache, stable storage
    entry, entryDisk,   \* the inode the region path names
    handle,             \* the worker's open RegionFile, or None
    wpc, job, temp,     \* worker: place, snapshot being saved, compaction temp
    load,               \* load workers: place, request, inode, page A, record;
                        \* history: page writes its two page reads overlap
    acked, tried,       \* history: what receipts said is durable; pages written since
    seen,               \* history: values of the request visible since its open
    faults              \* what may fail on this machine

writerVars == <<handle, wpc, job, temp>>
osVars     == <<file, disk, entry, entryDisk>>
vars == <<osVars, writerVars, load, acked, tried, seen, faults>>

(* Bytes of a file.  len: "empty", "full" when the fixed area is all there,
   "bad" between the two (a short file, or a header that does not validate). *)
EmptyFile == [len |-> "empty", page |-> <<Torn, Torn>>, recs |-> <<>>]
EmptyIndex == [c \in Chunk |-> 0]
Page(g, idx) == [gen |-> g, idx |-> idx]

(* from_open_file: the valid page of the higher generation, page A on a tie. *)
Openable(f) == f.len = "full" /\ \E k \in 1 .. 2 : f.page[k] # Torn
Active(p) ==
    IF p[1] = Torn THEN 2 ELSE IF p[2] = Torn THEN 1
    ELSE IF p[2].gen > p[1].gen THEN 2 ELSE 1

(* load_chunk on an open file: record idx[c], 0 for an empty slot. *)
Read(f, idx, c) == IF idx[c] = 0 THEN None ELSE f.recs[idx[c]].val

Contents(f, e) ==
    [c \in Chunk |-> IF e = NoInode \/ ~Openable(f[e]) THEN None
                     ELSE Read(f[e], f[e].page[Active(f[e].page)].idx, c)]
Visible == Contents(file, entry)

Init ==
    /\ file = [i \in Inode |-> EmptyFile] /\ disk = file
    /\ entry = NoInode /\ entryDisk = NoInode
    /\ handle = None /\ wpc = "idle" /\ job = None /\ temp = NoInode
    /\ load = [l \in Loader |-> [pc |-> "idle"]]
    /\ acked = [c \in Chunk |-> None] /\ tried = {}
    /\ seen = [l \in Loader |-> {}]
    /\ faults \in FaultSets

-----------------------------------------------------------------------------
(* The save worker. *)

SamePage == handle.active
Inactive == 3 - handle.active
SetFile(i, f) == file' = [file EXCEPT ![i] = f]

(* Files a path or an open descriptor refers to; the others are reclaimed. *)
Reading == {l \in Loader : load[l].pc \in {"opened", "pageA", "record"}}
Held == {load[l].inode : l \in Reading}
FreeInodes == Inode \ ({entry, entryDisk} \cup Held)
NewInode == CHOOSE i \in FreeInodes : TRUE
Reclaim(f, live) == [i \in Inode |-> IF i \in live THEN f[i] ELSE EmptyFile]

(* Any `?' of save_snapshot or compact_region: the receipt says Failed; the
   RegionFile in the worker's map, if there is one, stays as it is. *)
Fail(kind) ==
    /\ kind \in faults
    /\ wpc' = "idle" /\ job' = None /\ temp' = NoInode
    /\ UNCHANGED <<handle, load, acked, tried>>

Opened(i) ==
    LET k == Active(file[i].page)
    IN  [inode |-> i, active |-> k, gen |-> file[i].page[k].gen, idx |-> file[i].page[k].idx]

(* save_snapshot: take the open file, or open_or_create the path.  A region
   that cannot be opened fails the save and leaves the path alone. *)
SaveSnapshot(c, v) ==
    /\ wpc = "idle"
    /\ \/ /\ handle # None
          /\ wpc' = "append" /\ job' = [pos |-> c, val |-> v]
          /\ UNCHANGED <<handle, entry>>
       \/ /\ handle = None /\ entry = NoInode /\ FreeInodes # {}
          /\ entry' = NewInode
          /\ wpc' = "header" /\ job' = [pos |-> c, val |-> v]
          /\ UNCHANGED handle
       \/ /\ handle = None /\ entry # NoInode /\ file[entry].len = "empty"
          /\ wpc' = "header" /\ job' = [pos |-> c, val |-> v]
          /\ UNCHANGED <<handle, entry>>
       \/ /\ handle = None /\ entry # NoInode /\ Openable(file[entry])
          /\ handle' = Opened(entry)
          /\ wpc' = "append" /\ job' = [pos |-> c, val |-> v]
          /\ UNCHANGED entry
    /\ UNCHANGED <<file, disk, entryDisk, temp, load, acked, tried>>

(* initialize_region: header and pages one write at a time, then sync_all. *)
WriteHeader ==
    /\ wpc = "header"
    /\ SetFile(entry, [file[entry] EXCEPT !.len = "bad"])
    /\ \/ wpc' = "pages" /\ UNCHANGED <<handle, job, temp, load, acked, tried>>
       \/ Fail("write")
    /\ UNCHANGED <<disk, entry, entryDisk>>

WritePages ==
    /\ wpc = "pages"
    /\ \/ /\ SetFile(entry, [len |-> "full", recs |-> <<>>,
                             page |-> <<Page(1, EmptyIndex), Page(0, EmptyIndex)>>])
          /\ wpc' = "initsync" /\ UNCHANGED <<handle, job, temp, load, acked, tried>>
       \/ Fail("write") /\ UNCHANGED file
    /\ UNCHANGED <<disk, entry, entryDisk>>

SyncInit ==
    /\ wpc = "initsync"
    /\ \/ /\ disk' = [disk EXCEPT ![entry] = file[entry]]
          /\ wpc' = "createdir" /\ UNCHANGED <<handle, job, temp, load, acked, tried>>
       \/ Fail("entry") /\ UNCHANGED disk
    /\ UNCHANGED <<file, entry, entryDisk>>

(* sync_parent_directory, then from_open_file and the insert in the map. *)
SyncCreatedEntry ==
    /\ wpc = "createdir"
    /\ \/ /\ entryDisk' = entry /\ handle' = Opened(entry)
          /\ wpc' = "append" /\ UNCHANGED <<job, temp, load, acked, tried>>
       \/ Fail("entry") /\ UNCHANGED entryDisk
    /\ UNCHANGED <<file, disk, entry>>

(* save_chunks: append the record at the end of the file. *)
AppendRecord ==
    /\ wpc = "append" /\ Len(file[handle.inode].recs) < MaxRecs /\ handle.gen < MaxGen
    /\ \/ /\ SetFile(handle.inode, [file[handle.inode] EXCEPT !.recs = Append(@, job)])
          /\ wpc' = "recsync" /\ UNCHANGED <<handle, job, temp, load, acked, tried>>
       \/ /\ SetFile(handle.inode, [file[handle.inode] EXCEPT !.recs = Append(@, Torn)])
          /\ Fail("write")
    /\ UNCHANGED <<disk, entry, entryDisk>>

SkipRecordSync ==
    /\ wpc = "recsync" /\ wpc' = "tear"
    /\ UNCHANGED <<osVars, handle, job, temp, load, acked, tried>>

SyncRecord ==
    /\ wpc = "recsync"
    /\ \/ /\ disk' = [disk EXCEPT ![handle.inode] = file[handle.inode]]
          /\ wpc' = "tear" /\ UNCHANGED <<handle, job, temp, load, acked, tried>>
       \/ Fail("sync") /\ UNCHANGED disk
    /\ UNCHANGED <<file, entry, entryDisk>>

(* The write of the inactive page, seen half way and complete. *)
TearPage ==
    /\ wpc = "tear"
    /\ SetFile(handle.inode, [file[handle.inode] EXCEPT !.page[Inactive] = Torn])
    /\ wpc' = "page"
    /\ load' = [l \in Loader |-> IF load[l].pc = "pageA" THEN [load[l] EXCEPT !.torn = @ + 1]
                                 ELSE load[l]]
    /\ UNCHANGED <<disk, entry, entryDisk, handle, job, temp, acked, tried>>

NextIndex == [handle.idx EXCEPT ![job.pos] = Len(file[handle.inode].recs)]

WritePage ==
    /\ wpc = "page"
    /\ \/ /\ SetFile(handle.inode, [file[handle.inode] EXCEPT
                                      !.page[Inactive] = Page(handle.gen + 1, NextIndex)])
          /\ tried' = tried \cup {[c \in Chunk |-> Read(file[handle.inode], NextIndex, c)]}
          /\ wpc' = "pagesync" /\ UNCHANGED <<handle, job, temp, load, acked>>
       \/ Fail("write") /\ UNCHANGED file
    /\ UNCHANGED <<disk, entry, entryDisk>>

(* The second sync_data, the switch to the new page, and the receipt. *)
SyncPage ==
    /\ wpc = "pagesync"
    /\ \/ /\ disk' = [disk EXCEPT ![handle.inode] = file[handle.inode]]
          /\ handle' = [inode |-> handle.inode, active |-> Inactive,
                        gen |-> handle.gen + 1, idx |-> NextIndex]
          /\ acked' = [c \in Chunk |-> Read(file[handle.inode], NextIndex, c)]
          /\ tried' = {}
          /\ wpc' = "idle" /\ job' = None /\ UNCHANGED <<temp, load>>
       \/ Fail("sync") /\ UNCHANGED disk
    /\ UNCHANGED <<file, entry, entryDisk>>

(* compact_region: open the file if need be; nothing to do without dead
   bytes; otherwise copy the indexed records, in slot order, to a sibling
   file with the new index in page A and the old generation in page B. *)
Indexed(idx) == {c \in Chunk : idx[c] # 0}
Compacted(h) ==
    LET order == CHOOSE s \in [1 .. Cardinality(Indexed(h.idx)) -> Indexed(h.idx)] :
                     \A c \in Indexed(h.idx) : \E n \in DOMAIN s : s[n] = c
        idx   == [c \in Chunk |-> IF h.idx[c] = 0 THEN 0
                                  ELSE CHOOSE n \in DOMAIN order : order[n] = c]
    IN  [len |-> "full", page |-> <<Page(h.gen + 1, idx), Page(h.gen, idx)>>,
         recs |-> [n \in DOMAIN order |-> file[h.inode].recs[h.idx[order[n]]]]]

CompactRegion ==
    /\ wpc = "idle"
    /\ handle # None \/ (entry # NoInode /\ Openable(file[entry]))
    /\ handle' = IF handle # None THEN handle ELSE Opened(entry)
    /\ handle'.gen < MaxGen
    /\ \/ /\ Len(file[handle'.inode].recs) = Cardinality(Indexed(handle'.idx))
          /\ UNCHANGED <<file, disk, wpc, temp>>
       \/ /\ Len(file[handle'.inode].recs) > Cardinality(Indexed(handle'.idx))
          /\ FreeInodes # {} /\ temp' = NewInode
          /\ SetFile(temp', Compacted(handle'))
          /\ wpc' = "tempsync" /\ UNCHANGED disk
    /\ UNCHANGED <<entry, entryDisk, job, load, acked, tried>>

SyncTemp ==
    /\ wpc = "tempsync"
    /\ \/ /\ disk' = [disk EXCEPT ![temp] = file[temp]]
          /\ wpc' = "rename" /\ UNCHANGED <<file, handle, job, temp, load, acked, tried>>
       \/ Fail("sync") /\ SetFile(temp, EmptyFile) /\ UNCHANGED disk
    /\ UNCHANGED <<entry, entryDisk>>

(* The atomic replacement of the path; the handle follows. *)
Rename ==
    /\ wpc = "rename"
    /\ entry' = temp /\ handle' = Opened(temp)
    /\ wpc' = "renamedir" /\ temp' = NoInode
    /\ UNCHANGED <<file, disk, entryDisk, job, load, acked, tried>>

SyncRenamedEntry ==
    /\ wpc = "renamedir"
    /\ \/ /\ entryDisk' = entry
          /\ file' = Reclaim(file, {entry} \cup Held)
          /\ disk' = Reclaim(disk, {entry} \cup Held)
          /\ wpc' = "idle" /\ UNCHANGED <<handle, job, temp, load, acked, tried>>
       \/ Fail("entry") /\ UNCHANGED <<file, disk, entryDisk>>
    /\ UNCHANGED entry

Save    == \E c \in Chunk, v \in Value : SaveSnapshot(c, v)
Create  == WriteHeader \/ WritePages \/ SyncInit \/ SyncCreatedEntry
Commit  == AppendRecord \/ SyncRecord \/ TearPage \/ WritePage \/ SyncPage
Compact == CompactRegion \/ SyncTemp \/ Rename \/ SyncRenamedEntry

-----------------------------------------------------------------------------
(* Load workers: open_existing, one read per page, one for the record. *)

Done(l, c, v, torn) ==
    load' = [load EXCEPT ![l] = [pc |-> "done", pos |-> c, val |-> v, torn |-> torn]]

LoadOpen(l, c) ==
    /\ load[l].pc = "idle"
    /\ \/ entry = NoInode /\ Done(l, c, None, 0)
       \/ entry # NoInode /\ file[entry].len # "full" /\ Done(l, c, "short", 0)
       \/ /\ entry # NoInode /\ file[entry].len = "full"
          /\ load' = [load EXCEPT ![l] = [pc |-> "opened", pos |-> c, inode |-> entry]]
    /\ UNCHANGED <<osVars, writerVars, acked, tried>>

LoadPageA(l) ==
    /\ load[l].pc = "opened"
    /\ load' = [load EXCEPT ![l] = [pc |-> "pageA", pos |-> load[l].pos, inode |-> load[l].inode,
                                    page |-> file[load[l].inode].page[1],
                                    torn |-> IF wpc = "page" THEN 1 ELSE 0]]
    /\ UNCHANGED <<osVars, writerVars, acked, tried>>

(* from_open_file again, on pages read at different times. *)
FirstValid(pages) == IF pages[1] = Torn THEN 2 ELSE 1
Chosen(pages) == Active(pages)

LoadPageB(l) ==
    LET f     == file[load[l].inode]
        pages == <<load[l].page, f.page[2]>>
    IN  /\ load[l].pc = "pageA"
        /\ IF pages[1] = Torn /\ pages[2] = Torn
             THEN Done(l, load[l].pos, "failed", load[l].torn)
             ELSE LET n == pages[Chosen(pages)].idx[load[l].pos]
                  IN  IF n = 0 THEN Done(l, load[l].pos, None, load[l].torn)
                      ELSE load' = [load EXCEPT ![l] =
                             [pc |-> "record", pos |-> load[l].pos, inode |-> load[l].inode,
                              rec |-> n, torn |-> load[l].torn]]
        /\ UNCHANGED <<osVars, writerVars, acked, tried>>

(* read_indexed_record checks length, checksum, position and revisions. *)
LoadRecord(l) ==
    LET recs == file[load[l].inode].recs
        n    == load[l].rec
    IN  /\ load[l].pc = "record"
        /\ Done(l, load[l].pos,
                IF n > Len(recs) \/ recs[n] = Torn \/ recs[n].pos # load[l].pos
                  THEN "failed" ELSE recs[n].val, load[l].torn)
        /\ UNCHANGED <<osVars, writerVars, acked, tried>>

(* The completion is sent; the worker takes its next command. *)
LoadSent(l) ==
    /\ load[l].pc = "done"
    /\ load' = [load EXCEPT ![l] = [pc |-> "idle"]]
    /\ UNCHANGED <<osVars, writerVars, acked, tried>>

Loading ==
    \E l \in Loader :
        LoadPageA(l) \/ LoadPageB(l) \/ LoadRecord(l) \/ LoadSent(l) \/ \E c \in Chunk : LoadOpen(l, c)

-----------------------------------------------------------------------------
(* The process or the machine goes down, and the server is started again. *)

Mixed(old, new) == {old, new} \cup (IF old = new THEN {} ELSE {Torn})

(* Records r when only the first of them, as many as s has, were synced. *)
Tails(s, r) ==
    {t \in [1 .. Len(r) -> {Torn} \cup {r[n] : n \in 1 .. Len(r)}] :
        \A n \in 1 .. Len(r) : t[n] = r[n] \/ (n > Len(s) /\ t[n] = Torn)}

Survivors(d, f) ==
    [len  : {d.len, f.len} \cup (IF d.len = f.len THEN {} ELSE {"bad"}),
     page : {<<a, b>> : a \in Mixed(d.page[1], f.page[1]), b \in Mixed(d.page[2], f.page[2])},
     recs : {d.recs} \cup Tails(d.recs, f.recs)]

(* Only the inode the path names after the restart is ever looked at. *)
Crash ==
    /\ "crash" \in faults
    /\ entry' \in {entry, entryDisk} /\ entryDisk' = entry'
    /\ \/ /\ entry' = NoInode /\ file' = [i \in Inode |-> EmptyFile]
       \/ /\ entry' # NoInode
          /\ \E f \in Survivors(disk[entry'], file[entry']) :
                file' = [i \in Inode |-> IF i = entry' THEN f ELSE EmptyFile]
    /\ disk' = file'
    /\ handle' = None /\ wpc' = "idle" /\ job' = None /\ temp' = NoInode
    /\ load' = [l \in Loader |-> [pc |-> "idle"]]
    /\ acked' = Contents(file', entry') /\ tried' = {}

-----------------------------------------------------------------------------
Step == Save \/ Create \/ Commit \/ Compact \/ Loading \/ Crash

Observe ==
    seen' = [l \in Loader |->
               IF load'[l].pc = "idle" THEN {}
               ELSE seen[l] \cup {Visible'[load'[l].pos]}
                            \cup (IF load[l].pc = "idle" THEN {Visible[load'[l].pos]} ELSE {})]

Next == Step /\ Observe /\ UNCHANGED faults

Spec == Init /\ [][Next]_vars

-----------------------------------------------------------------------------
Places == {"idle", "header", "pages", "initsync", "createdir", "append", "recsync", "tear",
           "page", "pagesync", "tempsync", "rename", "renamedir"}

(* Every variable holds a value of its kind; a handle exists exactly while
   the worker has passed open_or_create. *)
TypeOK ==
    /\ \A i \in Inode : \A f \in {file[i], disk[i]} :
          /\ f.len \in {"empty", "bad", "full"}
          /\ \A k \in 1 .. 2 : f.page[k] # Torn =>
                f.page[k].gen \in 0 .. MaxGen /\ f.page[k].idx \in [Chunk -> 0 .. MaxRecs]
          /\ Len(f.recs) <= MaxRecs
    /\ {entry, entryDisk, temp} \subseteq Inode \cup {NoInode}
    /\ wpc \in Places
    /\ handle # None => handle.inode = entry /\ handle.gen \in 0 .. MaxGen
    /\ wpc \in {"append", "recsync", "tear", "page", "pagesync", "tempsync", "rename", "renamedir"}
         => handle # None
    /\ acked \in [Chunk -> Value \cup {None}]

(* An index page that validates only names whole records of its chunks, in
   the page cache and in whatever a power failure would leave of it, so
   read_indexed_record never meets a torn record through either page.  (The
   state has its types throughout.) *)
IndexSound ==
    /\ TypeOK
    /\ \A i \in {entry, entryDisk} \cap Inode :
          \A f \in {file[i]} \cup (IF "crash" \in faults THEN Survivors(disk[i], file[i]) ELSE {disk[i]}) :
              \A k \in 1 .. 2 : f.len = "full" /\ f.page[k] # Torn =>
                  \A c \in Chunk : LET n == f.page[k].idx[c] IN
                      n # 0 => n <= Len(f.recs) /\ f.recs[n] # Torn /\ f.recs[n].pos = c

(* What a load worker returns was what the region file said at some moment
   between its open and its answer, whatever saves and compactions ran
   meanwhile, as long as its two page reads overlap fewer than two page
   writes; then, in a file that is all there, it does not fail. *)
LoadLinearizable ==
    \A l \in Loader :
        load[l].pc = "done" /\ load[l].torn < 2 /\ load[l].val # "short" => load[l].val \in seen[l]

(* The same without the proviso: a load never answers with an older state of
   the file, in particular never Missing for a chunk that was saved before. *)
LoadsAreFresh ==
    \A l \in Loader : 
        load[l].pc = "done" /\ load[l].val \notin {"short", "failed"} => load[l].val \in seen[l]

(* A save that was acknowledged is what a restart finds, or a newer one. *)
Store == INSTANCE RegionStore WITH visible <- Visible, durable <- acked, tried <- tried
ImplementsRegionStore == Store!Spec
=============================================================================
