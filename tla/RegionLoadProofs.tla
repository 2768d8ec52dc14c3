--------------------------- MODULE RegionLoadProofs ---------------------------
(****************************************************************************)
(* Loads of a region file are linearizable while the machine stays up: what *)
(* a load worker answers was what the file said at some moment since its    *)
(* open, whatever saves and compactions ran between its reads.              *)
(*                                                                          *)
(* The worker reads page A and then page B without a lock.  As long as no   *)
(* page write overlaps the two reads, the pair is that of the file.  With   *)
(* one, either it goes to page B, and the pair is that of the file when B   *)
(* is read, or it goes to page A, and the pair is that of the file before   *)
(* it.  A file that a compaction replaced no longer changes at all.         *)
(****************************************************************************)
EXTENDS RegionFileProofs

(* What a reader of pages a and b is told of chunk c. *)
Told(r, a, b, c) == Shown(r, <<a, b>>[Active(<<a, b>>)])[c]

Readable(f) == f \in Files /\ f.len = "full" /\ \A k \in 1 .. 2 : Sound(f.recs, f.page[k])

(* A worker w with file f open, of whose request the states s were seen. *)
AtOpened(w, f, s) == Openable(f) /\ Told(f.recs, f.page[1], f.page[2], w.pos) \in s
HasPageA == [pc : {"pageA"}, pos : Chunk, inode : Inode, page : Pages \cup {Torn}, torn : Nat]
AtPageA(w, f, s) ==
    /\ w \in HasPageA /\ Sound(f.recs, w.page)
    /\ w.torn < 2 => /\ w.page # Torn \/ f.page[2] # Torn
                     /\ Told(f.recs, w.page, f.page[2], w.pos) \in s
AtRecord(w, f, s) ==
    /\ w.torn \in Nat /\ w.rec \in 1 .. Len(f.recs) /\ Whole(f.recs, w.rec, w.pos)
    /\ w.torn < 2 => f.recs[w.rec].val \in s
InFile(w, f, s) ==
    /\ w.inode \in Inode /\ Readable(f)
    /\ w.pc = "opened" => AtOpened(w, f, s)
    /\ w.pc = "pageA" => AtPageA(w, f, s)
    /\ w.pc = "record" => AtRecord(w, f, s)

(* Between its two page reads, a worker that one page write overlaps has page
   A of the file when the other is written. *)
Between(w) ==
    /\ w.torn = 0 => w.page = file[w.inode].page[1] /\ wpc # "page"
    /\ w.torn = 1 /\ w.inode = entry /\ wpc = "page" /\ handle.active = 1 => w.page = file[w.inode].page[1]

Answers(w, s) == w.torn < 2 /\ w.val # "short" => w.val \in s

Loads(l) ==
    /\ load[l].pc \in {"idle", "opened", "pageA", "record", "done"}
    /\ load[l].pc # "idle" => load[l].pos \in Chunk /\ Visible[load[l].pos] \in seen[l]
    /\ load[l].pc \in {"opened", "pageA", "record"} => InFile(load[l], file[load[l].inode], seen[l])
    /\ load[l].pc = "pageA" => Between(load[l])
    /\ load[l].pc = "done" => Answers(load[l], seen[l])

(* A file that is all there and was not opened yet has both its pages. *)
FreshOnly ==
    /\ handle = None /\ entry # NoInode /\ file[entry].len = "full" => file[entry].page = FreshPages
    /\ wpc = "header" => file[entry].len # "full"

LInv == IInv /\ ~PowerFails /\ FreshOnly /\ \A l \in Loader : Loads(l)

-----------------------------------------------------------------------------
(* Pages. *)

(* The page a reader chooses is one of the two, and whole. *)
LEMMA ChosenPage ==
    ASSUME NEW r \in Tapes, NEW a \in Pages \cup {Torn}, NEW b \in Pages \cup {Torn}, a # Torn \/ b # Torn,
           Sound(r, a), Sound(r, b), NEW c \in Chunk
    PROVE  LET p == <<a, b>>[Active(<<a, b>>)]
               n == p.idx[c]
           IN  /\ p \in Pages /\ Sound(r, p) /\ Told(r, a, b, c) = Shown(r, p)[c]
               /\ n = 0 => Told(r, a, b, c) = None
               /\ n # 0 => n \in 1 .. Len(r) /\ Whole(r, n, c) /\ Told(r, a, b, c) = r[n].val
  <1> DEFINE p == <<a, b>>[Active(<<a, b>>)]
             n == p.idx[c]
  <1>1. Active(<<a, b>>) \in 1 .. 2 /\ p \in {a, b} /\ p # Torn
    <2>1. CASE a = Torn
      BY <2>1 DEF Active
    <2>2. CASE a # Torn /\ b = Torn
      BY <2>2 DEF Active
    <2>3. CASE a # Torn /\ b # Torn
      BY <2>3 DEF Active
    <2> QED
      BY Zenon, <2>1, <2>2, <2>3
  <1>2. p \in Pages /\ Sound(r, p) /\ Told(r, a, b, c) = Shown(r, p)[c]
    BY <1>1 DEF Told
  <1> HIDE DEF p
  <1>3. n \in Nat /\ Len(r) \in Nat
    BY <1>2, RegionFileAssumption DEF Pages, Indices, Tapes
  <1>4. n = 0 => Told(r, a, b, c) = None
    BY Zenon, <1>2 DEF Shown
  <1>5. ASSUME n # 0 PROVE n \in 1 .. Len(r) /\ Whole(r, n, c) /\ Told(r, a, b, c) = r[n].val
    <2>1. Whole(r, n, c) /\ Told(r, a, b, c) = r[n].val
      BY Zenon, <1>1, <1>2, <1>5 DEF Shown, Sound
    <2>2. n <= Len(r)
      BY Zenon, <2>1 DEF Whole
    <2> QED
      BY <1>3, <1>5, <2>1, <2>2
  <1> QED
    BY Zenon, <1>2, <1>4, <1>5 DEF p

(* Records that are appended change nothing for a reader. *)
LEMMA ToldLonger ==
    ASSUME NEW r \in Tapes, NEW s \in Tapes, Longer(r, s),
           NEW a \in Pages \cup {Torn}, NEW b \in Pages \cup {Torn}, a # Torn \/ b # Torn,
           Sound(r, a), Sound(r, b), NEW c \in Chunk
    PROVE  Told(s, a, b, c) = Told(r, a, b, c)
  <1> DEFINE p == <<a, b>>[Active(<<a, b>>)]
  <1>1. p \in Pages /\ Sound(r, p)
    BY Zenon, ChosenPage
  <1>2. Shown(s, p) = Shown(r, p)
    BY Zenon, <1>1, SoundLonger
  <1> QED
    BY Zenon, <1>2 DEF Told

LEMMA SoundGrown ==
    ASSUME NEW r \in Tapes, NEW s \in Tapes, Longer(r, s), NEW p \in Pages \cup {Torn}, Sound(r, p)
    PROVE  Sound(s, p)
  <1>1. CASE p = Torn
    BY Zenon, <1>1 DEF Sound
  <1>2. CASE p \in Pages
    BY Zenon, <1>2, SoundLonger
  <1> QED
    BY Zenon, <1>1, <1>2

(* What a file says is what a reader of both its pages is told. *)
LEMMA ContentsTold ==
    ASSUME NEW f, NEW e, e # NoInode, f[e] \in Files, Openable(f[e]), NEW c \in Chunk
    PROVE  Contents(f, e)[c] = Told(f[e].recs, f[e].page[1], f[e].page[2], c)
  <1>1. f[e].page = <<f[e].page[1], f[e].page[2]>>
    BY FileType
  <1> QED
    BY Zenon, <1>1, ContentsShown DEF Told

-----------------------------------------------------------------------------
(* The file the path names, when it is all there. *)

LEMMA EntryReadable ==
    ASSUME IInv, FreshOnly, entry # NoInode, file[entry].len = "full"
    PROVE  entry \in Inode /\ Readable(file[entry]) /\ Openable(file[entry])
  <1>inv. Types /\ Stages /\ Unopened /\ InHand /\ InPlace /\ SaveInv /\ TempInv
    BY Zenon DEF IInv
  <1> DEFINE f == file[entry]
             d == disk[entry]
  <1>1. entry \in Inode /\ f \in Files /\ d \in Files /\ FileSound(f, d)
    BY Zenon, <1>inv DEF Types, InPlace
  <1>2. \A k \in 1 .. 2 : Sound(f.recs, f.page[k])
    <2>1. /\ f.recs \in Tapes /\ d.recs \in Tapes /\ Longer(d.recs, f.recs)
          /\ \A k \in 1 .. 2 : f.page[k] \in Pages \cup {Torn} /\ Sound(d.recs, f.page[k])
      BY Zenon, <1>1, FileType DEF FileSound
    <2> QED
      BY <2>1, SoundGrown
  <1>3. Openable(f)
    <2>1. CASE handle = None
      <3>1. f.page = FreshPages
        BY Zenon, <2>1 DEF FreshOnly
      <3>2. EmptyIndex \in Indices /\ 1 \in 0 .. MaxGen
        BY RegionFileAssumption DEF EmptyIndex, Indices
      <3>3. f.page[1] # Torn
        BY <3>1, <3>2, PageType DEF FreshPages
      <3> QED
        BY <3>3 DEF Openable
    <2>2. CASE handle # None
      <3>1. Kept(f, handle.active, acked, tried) /\ handle.active \in 1 .. 2
        BY Zenon, <1>inv, <2>2 DEF InHand, Types, Handles
      <3> QED
        BY Zenon, <1>1, <3>1, KeptShows
    <2> QED
      BY Zenon, <2>1, <2>2
  <1> QED
    BY Zenon, <1>1, <1>2, <1>3 DEF Readable

-----------------------------------------------------------------------------
(* Steps that a load does not notice: its file only grows. *)

Grows(f, g) == g \in Files /\ g.len = f.len /\ g.page = f.page /\ Longer(f.recs, g.recs)

LEMMA Observed ==
    ASSUME Observe, NEW l \in Loader, load'[l].pc # "idle"
    PROVE  /\ seen[l] \subseteq seen'[l] /\ Visible'[load'[l].pos] \in seen'[l]
           /\ load[l].pc = "idle" => Visible[load'[l].pos] \in seen'[l]
  BY Zenon DEF Observe

LEMMA InFileGrown ==
    ASSUME NEW w, NEW f \in Files, NEW g, Grows(f, g), NEW s, NEW t, s \subseteq t, w.pos \in Chunk, InFile(w, f, s)
    PROVE  InFile(w, g, t)
  <1>1. /\ g \in Files /\ g.len = "full" /\ g.page = f.page /\ f.recs \in Tapes /\ g.recs \in Tapes
        /\ Longer(f.recs, g.recs) /\ \A k \in 1 .. 2 : f.page[k] \in Pages \cup {Torn} /\ Sound(f.recs, f.page[k])
        /\ w.inode \in Inode
    BY Zenon, FileType DEF Grows, InFile, Readable
  <1>2. \A p \in Pages \cup {Torn} : Sound(f.recs, p) => Sound(g.recs, p)
    BY Zenon, <1>1, SoundGrown
  <1>3. Readable(g)
    BY Zenon, <1>1, <1>2 DEF Readable
  <1>4. /\ f.page[1] \in Pages \cup {Torn} /\ Sound(f.recs, f.page[1])
        /\ f.page[2] \in Pages \cup {Torn} /\ Sound(f.recs, f.page[2])
    BY <1>1
  <1>5. ASSUME w.pc = "opened" PROVE AtOpened(w, g, t)
    <2>1. AtOpened(w, f, s)
      BY Zenon, <1>5 DEF InFile
    <2>2. f.page[1] # Torn \/ f.page[2] # Torn
      BY <2>1 DEF AtOpened, Openable
    <2>3. Told(g.recs, f.page[1], f.page[2], w.pos) = Told(f.recs, f.page[1], f.page[2], w.pos)
      BY <1>1, <1>4, <2>2, ToldLonger
    <2> QED
      BY Zenon, <1>1, <2>1, <2>3 DEF AtOpened, Openable
  <1>6. ASSUME w.pc = "pageA" PROVE AtPageA(w, g, t)
    <2>1. AtPageA(w, f, s)
      BY Zenon, <1>6 DEF InFile
    <2>2. w.page \in Pages \cup {Torn} /\ Sound(f.recs, w.page) /\ (w.torn < 2 => w.page # Torn \/ f.page[2] # Torn)
      BY Zenon, <2>1 DEF AtPageA, HasPageA
    <2>3. w.torn < 2 => Told(g.recs, w.page, f.page[2], w.pos) = Told(f.recs, w.page, f.page[2], w.pos)
      BY <1>1, <1>4, <2>2, ToldLonger
    <2> QED
      BY Zenon, <1>1, <1>2, <2>1, <2>2, <2>3 DEF AtPageA
  <1>7. ASSUME w.pc = "record" PROVE AtRecord(w, g, t)
    <2>1. AtRecord(w, f, s)
      BY Zenon, <1>7 DEF InFile
    <2>2. w.rec \in 1 .. Len(g.recs) /\ w.rec <= Len(g.recs) /\ g.recs[w.rec] = f.recs[w.rec]
      BY <1>1, <2>1 DEF AtRecord, Longer, Tapes
    <2> QED
      BY Zenon, <2>1, <2>2 DEF AtRecord, Whole
  <1> QED
    BY Zenon, <1>1, <1>3, <1>5, <1>6, <1>7 DEF InFile

LEMMA QuietLoads ==
    ASSUME NEW l \in Loader, Loads(l), Observe, load'[l] = load[l], file \in [Inode -> Files],
           load[l].pc \in {"opened", "pageA", "record"} => Grows(file[load[l].inode], file'[load[l].inode]),
           wpc' # "page" \/ UNCHANGED <<entry, wpc, handle>>
    PROVE  Loads(l)'
  <1> DEFINE w == load[l]
  <1>1. CASE w.pc = "idle"
    BY Zenon, <1>1 DEF Loads
  <1>2. CASE w.pc = "done"
    BY Zenon, <1>2, Observed DEF Loads, Answers
  <1>3. CASE w.pc \in {"opened", "pageA", "record"}
    <2>1. /\ w.pos \in Chunk /\ InFile(w, file[w.inode], seen[l]) /\ w.inode \in Inode
          /\ w.pc = "pageA" => Between(w)
      BY Zenon, <1>3 DEF Loads, InFile
    <2>2. seen[l] \subseteq seen'[l] /\ Visible'[w.pos] \in seen'[l]
      BY Zenon, <1>3, Observed
    <2>3. InFile(w, file'[w.inode], seen'[l])
      <3> DEFINE f == file[w.inode]
                 g == file'[w.inode]
      <3>1. f \in Files /\ Grows(f, g) /\ InFile(w, f, seen[l])
        BY Zenon, <1>3, <2>1
      <3> HIDE DEF f, g, w
      <3>2. InFile(w, g, seen'[l])
        BY Zenon, <2>1, <2>2, <3>1, InFileGrown
      <3> QED
        BY Zenon, <3>2 DEF g
    <2>4. ASSUME w.pc = "pageA" PROVE /\ w.torn = 0 => w.page = file'[w.inode].page[1] /\ wpc' # "page"
                                      /\ w.torn = 1 /\ w.inode = entry' /\ wpc' = "page" /\ handle'.active = 1
                                           => w.page = file'[w.inode].page[1]
      BY Zenon, <1>3, <2>1, <2>4 DEF Between, Grows
    <2> QED
      BY Zenon, <1>3, <2>1, <2>2, <2>3, <2>4 DEF Loads, Between
  <1> QED
    BY Zenon, <1>1, <1>2, <1>3 DEF Loads

LEMMA GrowsItself ==
    ASSUME NEW f \in Files
    PROVE  Grows(f, f)
  BY Zenon, FileType, LongerItself DEF Grows

LEMMA QuietStep ==
    ASSUME LInv, Observe, UNCHANGED load, wpc' # "page",
           \A i \in Held : i \in Inode /\ file[i].len = "full" => Grows(file[i], file'[i])
    PROVE  \A l \in Loader : Loads(l)'
  <1> SUFFICES ASSUME NEW l \in Loader PROVE Loads(l)'
    OBVIOUS
  <1>1. Loads(l) /\ file \in [Inode -> Files]
    BY Zenon DEF LInv, IInv, Types
  <1>2. ASSUME load[l].pc \in {"opened", "pageA", "record"} PROVE Grows(file[load[l].inode], file'[load[l].inode])
    <2>1. load[l].inode \in Held
      BY Zenon, <1>2 DEF Held, Reading
    <2>2. load[l].inode \in Inode /\ file[load[l].inode].len = "full"
      BY Zenon, <1>1, <1>2 DEF Loads, InFile, Readable
    <2> QED
      BY Zenon, <2>1, <2>2
  <1> QED
    BY Zenon, <1>1, <1>2, QuietLoads

(* Every step of the save worker but the writes of a page is such a step: the
   files it creates and fills are not open yet, one it removes is not open. *)
LEMMA SaveAndCreateGrow ==
    ASSUME LInv, Save \/ Create
    PROVE  /\ UNCHANGED load /\ wpc' # "page"
           /\ \A i \in Held : i \in Inode /\ file[i].len = "full" => Grows(file[i], file'[i])
  <1>inv. file \in [Inode -> Files] /\ FreshOnly /\ Stages /\ Unopened
    BY Zenon DEF LInv, IInv, Types
  <1>0. \A i \in Inode : file'[i] = file[i] => Grows(file[i], file'[i])
    BY Zenon, <1>inv, GrowsItself
  <1>1. CASE Save
    BY Zenon, <1>0, <1>1 DEF Save, SaveSnapshot
  <1>2. CASE WriteHeader
    <2>1. file[entry].len # "full" /\ \A i \in Inode \ {entry} : file'[i] = file[i]
      BY Zenon, <1>inv, <1>2 DEF WriteHeader, SetFile, FreshOnly
    <2> QED
      BY Zenon, <1>0, <1>2, <2>1 DEF WriteHeader, Fail
  <1>3. CASE WritePages
    <2>1. handle = None /\ entry \in Inode /\ entry # NoInode
      BY Zenon, <1>inv, <1>3, RegionFileAssumption DEF WritePages, Stages, Creating
    <2>2. file[entry].len # "full" /\ \A i \in Inode \ {entry} : file'[i] = file[i]
      BY Zenon, <1>inv, <1>3, <2>1 DEF WritePages, SetFile, Unopened
    <2> QED
      BY Zenon, <1>0, <1>3, <2>2 DEF WritePages, Fail
  <1>4. CASE SyncInit \/ SyncCreatedEntry
    BY Zenon, <1>0, <1>4 DEF SyncInit, SyncCreatedEntry, Fail
  <1> QED
    BY Zenon, <1>1, <1>2, <1>3, <1>4 DEF Create

LEMMA CommitGrows ==
    ASSUME LInv, AppendRecord \/ SyncRecord \/ (WritePage /\ wpc' = "idle") \/ SyncPage
    PROVE  /\ UNCHANGED load /\ wpc' # "page"
           /\ \A i \in Held : i \in Inode /\ file[i].len = "full" => Grows(file[i], file'[i])
  <1>inv. IInv /\ file \in [Inode -> Files]
    BY Zenon DEF LInv, IInv, Types
  <1>0. \A i \in Inode : file'[i] = file[i] => Grows(file[i], file'[i])
    BY Zenon, <1>inv, GrowsItself
  <1>1. CASE SyncRecord \/ (WritePage /\ wpc' = "idle") \/ SyncPage
    BY Zenon, <1>0, <1>1 DEF SyncRecord, WritePage, SyncPage, Fail
  <1>2. CASE AppendRecord
    <2>1. PICK x \in {job, Torn} :
            /\ wpc = "append" /\ Len(file[handle.inode].recs) < MaxRecs
            /\ file' = [file EXCEPT ![handle.inode] = [file[handle.inode] EXCEPT !.recs = Append(@, x)]]
            /\ UNCHANGED load /\ wpc' \in {"idle", "recsync"}
      BY Zenon, <1>2 DEF AppendRecord, SetFile, Fail
    <2>2. handle.inode = entry /\ entry \in Inode /\ file[entry] \in Files /\ x \in Records \cup {Torn}
      BY Zenon, <1>inv, <2>1, InHandFacts DEF Saving
    <2> DEFINE f == file[entry]
               r == Append(f.recs, x)
    <2>3. f.recs \in Tapes /\ r \in Tapes /\ Longer(f.recs, r)
      BY <2>1, <2>2, FileType, Appended
    <2>4. file'[entry] = [f EXCEPT !.recs = r] /\ \A i \in Inode \ {entry} : file'[i] = file[i]
      BY Zenon, <1>inv, <2>1, <2>2
    <2> HIDE DEF r
    <2>5. Grows(f, file'[entry])
      BY Zenon, <2>2, <2>3, <2>4 DEF Grows, Files
    <2> QED
      BY Zenon, <1>0, <2>1, <2>4, <2>5
  <1> QED
    BY Zenon, <1>1, <1>2

LEMMA CompactGrows ==
    ASSUME LInv, Compact
    PROVE  /\ UNCHANGED load /\ wpc' # "page"
           /\ \A i \in Held : i \in Inode /\ file[i].len = "full" => Grows(file[i], file'[i])
  <1>inv. file \in [Inode -> Files] /\ TempInv
    BY Zenon DEF LInv, IInv, Types
  <1>0. \A i \in Inode : file'[i] = file[i] => Grows(file[i], file'[i])
    BY Zenon, <1>inv, GrowsItself
  <1>1. CASE CompactRegion
    <2>1. UNCHANGED load /\ wpc' # "page" /\ (file' = file \/ (FreeInodes # {} /\ \E g : file' = [file EXCEPT ![NewInode] = g]))
      BY Zenon, <1>1 DEF CompactRegion, SetFile
    <2>2. FreeInodes # {} => NewInode \notin Held
      BY Zenon DEF FreeInodes, NewInode
    <2>3. \A i \in Held \cap Inode : file'[i] = file[i]
      BY Zenon, <1>inv, <2>1, <2>2
    <2> QED
      BY Zenon, <1>0, <2>1, <2>3
  <1>2. CASE SyncTemp
    <2>1. \A i \in Held \cap Inode : file'[i] = file[i]
      BY Zenon, <1>inv, <1>2 DEF SyncTemp, SetFile, TempInv, Compacting
    <2> QED
      BY Zenon, <1>0, <1>2, <2>1 DEF SyncTemp, Fail
  <1>3. CASE Rename
    BY Zenon, <1>0, <1>3 DEF Rename
  <1>4. CASE SyncRenamedEntry
    <2>1. \A i \in Held \cap Inode : file'[i] = file[i]
      BY Zenon, <1>4 DEF SyncRenamedEntry, Reclaim
    <2> QED
      BY Zenon, <1>0, <1>4, <2>1 DEF SyncRenamedEntry, Fail
  <1> QED
    BY Zenon, <1>1, <1>2, <1>3, <1>4 DEF Compact

-----------------------------------------------------------------------------
(* The writes of a page: half way, and complete. *)

LEMMA ToldNext ==
    ASSUME UNCHANGED entry, entry # NoInode, file'[entry] \in Files, Openable(file'[entry])
    PROVE  LET g == file'[entry]
           IN  \A c \in Chunk : Told(g.recs, g.page[1], g.page[2], c) = Visible'[c]
  <1>1. \A c \in Chunk : Contents(file', entry)[c]
                          = Told(file'[entry].recs, file'[entry].page[1], file'[entry].page[2], c)
    BY Zenon, ContentsTold
  <1> QED
    BY Zenon, <1>1 DEF Visible

(* The file whose inactive page was replaced by q; a reader of both its pages
   is told what is visible. *)
LEMMA PageReplaced ==
    ASSUME IInv, IInv', wpc \in Saving, UNCHANGED <<entry, handle>>, NEW q \in Pages \cup {Torn},
           file' = [file EXCEPT ![handle.inode] = [file[handle.inode] EXCEPT !.page[Inactive] = q]]
    PROVE  LET f == file[entry]
               g == file'[entry]
           IN  /\ entry \in Inode /\ handle.active \in 1 .. 2 /\ file[entry] \in Files
               /\ \A i \in Inode \ {entry} : file'[i] = file[i]
               /\ Readable(g) /\ Openable(g) /\ g.recs = f.recs
               /\ handle.active = 1 => g.page[1] = f.page[1]
               /\ handle.active = 2 => g.page[2] = f.page[2]
               /\ \A c \in Chunk : Told(g.recs, g.page[1], g.page[2], c) = Visible'[c]
  <1> DEFINE f == file[entry]
             d == disk'[entry]
             g == file'[entry]
  <1>1. /\ entry \in Inode /\ entry # NoInode /\ handle.inode = entry /\ handle.active \in 1 .. 2
        /\ Inactive = 3 - handle.active /\ file \in [Inode -> Files] /\ f \in Files
        /\ Kept(f, handle.active, acked, tried)
    BY Zenon, InHandFacts
  <1>2. g = [f EXCEPT !.page[Inactive] = q] /\ \A i \in Inode \ {entry} : file'[i] = file[i]
    BY Zenon, <1>1
  <1>3. g \in Files /\ d \in Files /\ FileSound(g, d)
    BY Zenon, <1>1 DEF IInv, Types, InPlace
  <1> HIDE DEF g, d
  <1>4. /\ g.len = f.len /\ g.recs = f.recs /\ g.page = [f.page EXCEPT ![Inactive] = q]
    BY Zenon, <1>1, <1>2 DEF Files
  <1>5. g.page[handle.active] = f.page[handle.active] /\ f.len = "full" /\ f.page[handle.active] # Torn
    BY <1>1, <1>4, FileType DEF Kept
  <1>6. Openable(g)
    BY Zenon, <1>1, <1>4, <1>5 DEF Openable
  <1>7. \A k \in 1 .. 2 : Sound(g.recs, g.page[k])
    <2>1. /\ g.recs \in Tapes /\ d.recs \in Tapes /\ Longer(d.recs, g.recs)
          /\ \A k \in 1 .. 2 : g.page[k] \in Pages \cup {Torn} /\ Sound(d.recs, g.page[k])
      BY Zenon, <1>3, FileType DEF FileSound
    <2> QED
      BY <2>1, SoundGrown
  <1>8. Readable(g)
    BY Zenon, <1>3, <1>4, <1>5, <1>7 DEF Readable
  <1>9. \A c \in Chunk : Told(g.recs, g.page[1], g.page[2], c) = Visible'[c]
    <2>1. entry' = entry /\ file'[entry] = g
      BY Zenon DEF g
    <2>2. entry # NoInode /\ file'[entry] \in Files /\ Openable(file'[entry])
      BY Zenon, <1>1, <1>3, <1>6, <2>1
    <2> QED
      BY Zenon, <2>1, <2>2, ToldNext
  <1>10. handle.active = 1 => g.page[1] = f.page[1]
    BY Zenon, <1>5
  <1>11. handle.active = 2 => g.page[2] = f.page[2]
    BY Zenon, <1>5
  <1> QED
    BY Zenon, <1>1, <1>2, <1>4, <1>6, <1>8, <1>9, <1>10, <1>11 DEF g

(* What a page write does to a load: it may be counted, and a load that
   counts one, of page B, has page A of the file. *)
LEMMA PageWriteKept ==
    ASSUME IInv, IInv', wpc \in Saving, UNCHANGED <<entry, handle>>, NEW q \in Pages \cup {Torn},
           file' = [file EXCEPT ![handle.inode] = [file[handle.inode] EXCEPT !.page[Inactive] = q]],
           Observe, NEW l \in Loader, Loads(l), load[l].pc # "pageA" => load'[l] = load[l],
           load[l].pc = "pageA" =>
               \E t \in Nat \ {0} :
                   /\ t >= load[l].torn /\ load'[l] = [load[l] EXCEPT !.torn = t]
                   /\ t < 2 /\ load[l].inode = entry /\ handle.active = 1
                        => load[l].page = file[entry].page[1]
    PROVE  Loads(l)'
  <1> DEFINE w == load[l]
             v == load'[l]
             i == w.inode
             f == file[i]
             g == file'[i]
  <1>1. CASE w.pc = "idle"
    BY Zenon, <1>1 DEF Loads
  <1>2. CASE w.pc = "done"
    BY Zenon, <1>2, Observed DEF Loads, Answers
  <1>3. CASE w.pc \in {"opened", "record"}
    <2>1. /\ w.pos \in Chunk /\ i \in Inode /\ InFile(w, f, seen[l]) /\ v = w
      BY Zenon, <1>3 DEF Loads, InFile
    <2>2. seen[l] \subseteq seen'[l] /\ Visible'[w.pos] \in seen'[l]
      BY Zenon, <1>3, <2>1, Observed
    <2>3. InFile(w, g, seen'[l])
      <3>1. CASE i = entry
        <4>1. /\ Readable(g) /\ Openable(g) /\ g.recs = f.recs
              /\ Told(g.recs, g.page[1], g.page[2], w.pos) = Visible'[w.pos]
          BY Zenon, <2>1, <3>1, PageReplaced
        <4> QED
          BY Zenon, <1>3, <2>1, <2>2, <4>1 DEF InFile, AtOpened, AtRecord
      <3>2. CASE i # entry
        <4>1. g = f
          BY Zenon, <2>1, <3>2, PageReplaced
        <4> QED
          BY Zenon, <1>3, <2>1, <2>2, <4>1 DEF InFile, AtOpened, AtRecord
      <3> QED
        BY Zenon, <3>1, <3>2
    <2> QED
      BY Zenon, <1>3, <2>1, <2>2, <2>3 DEF Loads
  <1>4. CASE w.pc = "pageA"
    <2>1. PICK t \in Nat \ {0} :
              /\ t >= w.torn /\ v = [w EXCEPT !.torn = t]
              /\ t < 2 /\ i = entry /\ handle.active = 1 => w.page = file[entry].page[1]
      BY Zenon, <1>4
    <2>2. w.pos \in Chunk /\ i \in Inode /\ InFile(w, f, seen[l]) /\ AtPageA(w, f, seen[l]) /\ w \in HasPageA
      BY Zenon, <1>4 DEF Loads, InFile, AtPageA
    <2>3. /\ v \in HasPageA /\ v.pc = "pageA" /\ v.pos = w.pos /\ v.inode = i /\ v.page = w.page /\ v.torn = t
          /\ t \in Nat /\ t # 0 /\ (t < 2 => w.torn < 2)
      BY <2>1, <2>2 DEF HasPageA
    <2>4. seen[l] \subseteq seen'[l] /\ Visible'[w.pos] \in seen'[l]
      BY Zenon, <2>3, Observed
    <2> HIDE DEF w, v
    <2>5. Readable(g) /\ AtPageA(v, g, seen'[l])
      <3>1. CASE i = entry
        <4>1. /\ handle.active \in 1 .. 2 /\ Readable(g) /\ Openable(g) /\ g.recs = f.recs
              /\ handle.active = 1 => g.page[1] = f.page[1]
              /\ handle.active = 2 => g.page[2] = f.page[2]
              /\ Told(g.recs, g.page[1], g.page[2], w.pos) = Visible'[w.pos]
          BY Zenon, <2>2, <3>1, PageReplaced
        <4>2. g.page[1] # Torn \/ g.page[2] # Torn
          BY <4>1 DEF Openable
        <4>3. CASE handle.active = 1
          <5>1. t < 2 => w.page = g.page[1]
            BY Zenon, <2>1, <3>1, <4>1, <4>3
          <5>2. Sound(g.recs, v.page)
            BY Zenon, <2>2, <2>3, <4>1 DEF AtPageA
          <5>3. t < 2 => /\ v.page # Torn \/ g.page[2] # Torn
                         /\ Told(g.recs, v.page, g.page[2], v.pos) \in seen'[l]
            <6> HIDE DEF g
            <6>1. Told(g.recs, g.page[1], g.page[2], w.pos) \in seen'[l]
              BY Zenon, <2>4, <4>1
            <6>2. t < 2 => v.page = g.page[1] /\ v.pos = w.pos
              BY Zenon, <2>3, <5>1
            <6> QED
              BY Zenon, <4>2, <6>1, <6>2
          <5> QED
            BY Zenon, <2>3, <4>1, <5>2, <5>3 DEF AtPageA
        <4>4. CASE handle.active = 2
          BY Zenon, <2>2, <2>3, <2>4, <4>1, <4>4 DEF AtPageA
        <4> QED
          BY <4>1, <4>3, <4>4
      <3>2. CASE i # entry
        <4>1. g = f
          BY Zenon, <2>2, <3>2, PageReplaced
        <4> QED
          BY Zenon, <2>2, <2>3, <2>4, <4>1 DEF AtPageA, InFile
      <3> QED
        BY Zenon, <3>1, <3>2
    <2>6. t = 1 /\ i = entry /\ handle.active = 1 => w.page = g.page[1]
      <3> SUFFICES ASSUME t = 1, i = entry, handle.active = 1 PROVE w.page = g.page[1]
        OBVIOUS
      <3>1. g.page[1] = f.page[1]
        BY Zenon, PageReplaced
      <3> QED
        BY <2>1, <3>1
    <2>7. InFile(v, g, seen'[l])
      BY Zenon, <2>2, <2>3, <2>5 DEF InFile
    <2> QED
      BY Zenon, <2>2, <2>3, <2>4, <2>6, <2>7 DEF Loads, Between, v
  <1> QED
    BY Zenon, <1>1, <1>2, <1>3, <1>4 DEF Loads

LEMMA PageWriteKeeps ==
    ASSUME LInv, IInv', Observe, TearPage \/ (WritePage /\ wpc' # "idle")
    PROVE  \A l \in Loader : Loads(l)'
  <1> SUFFICES ASSUME NEW l \in Loader PROVE Loads(l)'
    OBVIOUS
  <1>1. IInv /\ Loads(l)
    BY Zenon DEF LInv
  <1>2. load[l].pc = "pageA" => load[l] \in HasPageA /\ load[l].torn \in Nat /\ Between(load[l])
    BY Zenon, <1>1 DEF Loads, InFile, AtPageA, HasPageA
  <1>3. CASE TearPage
    <2>1. /\ wpc = "tear" /\ wpc \in Saving /\ UNCHANGED <<entry, handle>> /\ Torn \in Pages \cup {Torn}
          /\ file' = [file EXCEPT ![handle.inode] = [file[handle.inode] EXCEPT !.page[Inactive] = Torn]]
          /\ load'[l] = IF load[l].pc = "pageA" THEN [load[l] EXCEPT !.torn = load[l].torn + 1] ELSE load[l]
      BY Zenon, <1>3 DEF TearPage, SetFile, Saving
    <2>2. ASSUME load[l].pc = "pageA"
          PROVE  LET t == load[l].torn + 1
                 IN  /\ t \in Nat \ {0} /\ t >= load[l].torn /\ load'[l] = [load[l] EXCEPT !.torn = t]
                     /\ t < 2 /\ load[l].inode = entry /\ handle.active = 1 => load[l].page = file[entry].page[1]
      <3>1. load[l].torn \in Nat /\ (load[l].torn = 0 => load[l].page = file[load[l].inode].page[1])
        BY Zenon, <1>2, <2>2 DEF Between
      <3> QED
        BY <2>1, <2>2, <3>1
    <2> QED
      BY Zenon, <1>1, <2>1, <2>2, PageWriteKept
  <1>4. CASE WritePage /\ wpc' # "idle"
    <2> DEFINE q == Page(handle.gen + 1, NextIndex)
    <2>1. /\ wpc = "page" /\ wpc \in Saving /\ UNCHANGED <<entry, handle, load>>
          /\ file' = [file EXCEPT ![handle.inode] = [file[handle.inode] EXCEPT !.page[Inactive] = q]]
      BY Zenon, <1>4 DEF WritePage, SetFile, Saving, Fail
    <2>2. q \in Pages \cup {Torn}
      BY Zenon, <1>1, <2>1, NewPage, PageType
    <2>3. ASSUME load[l].pc = "pageA"
          PROVE  LET t == load[l].torn
                 IN  /\ t \in Nat \ {0} /\ t >= load[l].torn /\ load'[l] = [load[l] EXCEPT !.torn = t]
                     /\ t < 2 /\ load[l].inode = entry /\ handle.active = 1 => load[l].page = file[entry].page[1]
      <3>1. /\ load[l].torn \in Nat /\ load[l].torn # 0
            /\ load[l].torn = 1 /\ load[l].inode = entry /\ handle.active = 1 => load[l].page = file[entry].page[1]
        BY Zenon, <1>2, <2>1, <2>3 DEF Between
      <3>2. load[l] = [load[l] EXCEPT !.torn = load[l].torn]
        BY Zenon, <1>2, <2>3 DEF HasPageA
      <3> QED
        BY <2>1, <3>1, <3>2
    <2> HIDE DEF q
    <2> QED
      BY Zenon, <1>1, <2>1, <2>2, <2>3, PageWriteKept
  <1> QED
    BY Zenon, <1>3, <1>4

-----------------------------------------------------------------------------
(* The steps of a load. *)

LEMMA OthersLoad ==
    ASSUME LInv, Observe, NEW l \in Loader, UNCHANGED <<file, entry, wpc, handle>>,
           \A m \in Loader \ {l} : load'[m] = load[m], Loads(l)'
    PROVE  \A m \in Loader : Loads(m)'
  <1> SUFFICES ASSUME NEW m \in Loader, m # l PROVE Loads(m)'
    BY Zenon
  <1>1. Loads(m) /\ load'[m] = load[m] /\ file \in [Inode -> Files]
    BY Zenon DEF LInv, IInv, Types
  <1>2. load[m].pc \in {"opened", "pageA", "record"} => Grows(file[load[m].inode], file'[load[m].inode])
    BY Zenon, <1>1, GrowsItself DEF Loads, InFile
  <1> QED
    BY Zenon, <1>1, <1>2, QuietLoads

LEMMA LoadOpenKeeps ==
    ASSUME LInv, Observe, NEW l \in Loader, NEW c \in Chunk, LoadOpen(l, c)
    PROVE  \A m \in Loader : Loads(m)'
  <1>1. IInv /\ FreshOnly /\ DOMAIN load = Loader /\ UNCHANGED <<file, entry, wpc, handle>> /\ load[l].pc = "idle"
    BY Zenon DEF LInv, IInv, Types, LoadOpen, osVars, writerVars
  <1>2. Visible' = Visible
    BY Zenon, <1>1 DEF Visible
  <1>3. CASE entry = NoInode /\ Done(l, c, None, 0)
    <2>1. load' = [load EXCEPT ![l] = [pc |-> "done", pos |-> c, val |-> None, torn |-> 0]]
      BY Zenon, <1>3 DEF Done
    <2>2. Visible[c] = None
      BY Zenon, <1>3, ContentsNone DEF Visible
    <2>3. load'[l].pc = "done" /\ load'[l].pos = c /\ load'[l].val = None
      BY Zenon, <1>1, <2>1
    <2>4. Loads(l)'
      BY Zenon, <1>2, <2>2, <2>3, Observed DEF Loads, Answers
    <2> QED
      BY Zenon, <1>1, <2>1, <2>4, OthersLoad
  <1>4. CASE Done(l, c, "short", 0)
    <2>1. load' = [load EXCEPT ![l] = [pc |-> "done", pos |-> c, val |-> "short", torn |-> 0]]
      BY Zenon, <1>4 DEF Done
    <2>2. load'[l].pc = "done" /\ load'[l].pos = c /\ load'[l].val = "short"
      BY Zenon, <1>1, <2>1
    <2>3. Loads(l)'
      BY Zenon, <2>2, Observed DEF Loads, Answers
    <2> QED
      BY Zenon, <1>1, <2>1, <2>3, OthersLoad
  <1>5. CASE /\ entry # NoInode /\ file[entry].len = "full"
             /\ load' = [load EXCEPT ![l] = [pc |-> "opened", pos |-> c, inode |-> entry]]
    <2> DEFINE v == load'[l]
               f == file[entry]
    <2>1. v.pc = "opened" /\ v.pos = c /\ v.inode = entry
      BY Zenon, <1>1, <1>5
    <2>2. Visible'[c] \in seen'[l]
      BY Zenon, <2>1, Observed
    <2>3. entry \in Inode /\ Readable(f) /\ Openable(f)
      BY Zenon, <1>1, <1>5, EntryReadable
    <2>4. Told(f.recs, f.page[1], f.page[2], c) = Visible[c]
      BY Zenon, <1>5, <2>3, ContentsTold DEF Visible, Readable
    <2>5. InFile(v, f, seen'[l])
      BY Zenon, <1>2, <2>1, <2>2, <2>3, <2>4 DEF InFile, AtOpened
    <2>6. Loads(l)'
      BY Zenon, <1>1, <2>1, <2>2, <2>5 DEF Loads
    <2> QED
      BY Zenon, <1>1, <1>5, <2>6, OthersLoad
  <1> QED
    BY Zenon, <1>3, <1>4, <1>5 DEF LoadOpen

(* A load that has its file open. *)
LEMMA LoadFacts ==
    ASSUME LInv, NEW l \in Loader, load[l].pc \in {"opened", "pageA", "record"}
    PROVE  LET w == load[l]
               f == file[w.inode]
           IN  /\ IInv /\ DOMAIN load = Loader /\ w.pos \in Chunk /\ w.inode \in Inode
               /\ Readable(f) /\ f \in Files /\ f.recs \in Tapes
               /\ f.page[1] \in Pages \cup {Torn} /\ Sound(f.recs, f.page[1])
               /\ f.page[2] \in Pages \cup {Torn} /\ Sound(f.recs, f.page[2])
               /\ w.pc = "opened" => AtOpened(w, f, seen[l])
               /\ w.pc = "pageA" => AtPageA(w, f, seen[l])
               /\ w.pc = "record" => AtRecord(w, f, seen[l])
  <1> DEFINE w == load[l]
             f == file[w.inode]
  <1>1. Loads(l) /\ IInv /\ DOMAIN load = Loader
    BY Zenon DEF LInv, IInv, Types
  <1>2. w.pos \in Chunk /\ InFile(w, f, seen[l])
    BY Zenon, <1>1 DEF Loads
  <1> HIDE DEF f
  <1>3. f \in Files /\ f.recs \in Tapes /\ \A k \in 1 .. 2 : f.page[k] \in Pages \cup {Torn} /\ Sound(f.recs, f.page[k])
    BY Zenon, <1>2, FileType DEF InFile, Readable
  <1>4. /\ f.page[1] \in Pages \cup {Torn} /\ Sound(f.recs, f.page[1])
        /\ f.page[2] \in Pages \cup {Torn} /\ Sound(f.recs, f.page[2])
    BY <1>3
  <1> QED
    BY Zenon, <1>1, <1>2, <1>3, <1>4 DEF InFile, f

LEMMA LoadPageAKeeps ==
    ASSUME LInv, Observe, NEW l \in Loader, LoadPageA(l)
    PROVE  \A m \in Loader : Loads(m)'
  <1> DEFINE w == load[l]
             f == file[w.inode]
             v == load'[l]
             t == IF wpc = "page" THEN 1 ELSE 0
  <1>1. /\ w.pc = "opened" /\ UNCHANGED <<file, entry, wpc, handle>>
        /\ load' = [load EXCEPT ![l] = [pc |-> "pageA", pos |-> w.pos, inode |-> w.inode,
                                        page |-> f.page[1], torn |-> t]]
    BY Zenon DEF LoadPageA, osVars, writerVars
  <1>2. /\ IInv /\ DOMAIN load = Loader /\ w.pos \in Chunk /\ w.inode \in Inode
        /\ Readable(f) /\ f.page[1] \in Pages \cup {Torn} /\ Sound(f.recs, f.page[1])
        /\ AtOpened(w, f, seen[l])
    BY Zenon, <1>1, LoadFacts
  <1>3. t \in Nat /\ (t = 0 => wpc # "page")
    OBVIOUS
  <1> HIDE DEF t
  <1>4. v = [pc |-> "pageA", pos |-> w.pos, inode |-> w.inode, page |-> f.page[1], torn |-> t]
    BY Zenon, <1>1, <1>2
  <1>5. v \in HasPageA /\ v.pc = "pageA" /\ v.pos = w.pos /\ v.inode = w.inode /\ v.page = f.page[1] /\ v.torn = t
    BY <1>2, <1>3, <1>4 DEF HasPageA
  <1>6. seen[l] \subseteq seen'[l] /\ Visible'[w.pos] \in seen'[l]
    BY Zenon, <1>5, Observed
  <1>7. f.page[1] # Torn \/ f.page[2] # Torn
    BY <1>2 DEF AtOpened, Openable
  <1>8. InFile(v, f, seen'[l])
    BY Zenon, <1>2, <1>5, <1>6, <1>7 DEF InFile, AtOpened, AtPageA
  <1>9. Loads(l)'
    BY Zenon, <1>1, <1>2, <1>3, <1>5, <1>6, <1>8 DEF Loads, Between
  <1> QED
    BY Zenon, <1>1, <1>2, <1>9, OthersLoad

(* A load that is over, with an answer of those that were seen. *)
LEMMA DoneKeeps ==
    ASSUME LInv, Observe, NEW l \in Loader, load[l].pc \in {"pageA", "record"}, UNCHANGED <<file, entry, wpc, handle>>,
           NEW x, Done(l, load[l].pos, x, load[l].torn), load[l].torn < 2 => x \in seen[l]
    PROVE  \A m \in Loader : Loads(m)'
  <1>1. load' = [load EXCEPT ![l] = [pc |-> "done", pos |-> load[l].pos, val |-> x, torn |-> load[l].torn]]
    BY Zenon DEF Done
  <1>2. DOMAIN load = Loader /\ load[l].pos \in Chunk
    BY Zenon, LoadFacts
  <1>3. load'[l].pc = "done" /\ load'[l].pos = load[l].pos /\ load'[l].val = x /\ load'[l].torn = load[l].torn
    BY Zenon, <1>1, <1>2
  <1>4. Loads(l)'
    BY Zenon, <1>2, <1>3, Observed DEF Loads, Answers
  <1> QED
    BY Zenon, <1>1, <1>2, <1>4, OthersLoad

LEMMA LoadPageBKeeps ==
    ASSUME LInv, Observe, NEW l \in Loader, LoadPageB(l)
    PROVE  \A m \in Loader : Loads(m)'
  <1> DEFINE w == load[l]
             f == file[w.inode]
             b == f.page[2]
             n == <<w.page, b>>[Active(<<w.page, b>>)].idx[w.pos]
  <1>1. w.pc = "pageA" /\ UNCHANGED <<file, entry, wpc, handle>>
    BY Zenon DEF LoadPageB, osVars, writerVars
  <1>2. /\ DOMAIN load = Loader /\ w.pos \in Chunk /\ w.inode \in Inode /\ Readable(f) /\ f.recs \in Tapes
        /\ b \in Pages \cup {Torn} /\ Sound(f.recs, b) /\ AtPageA(w, f, seen[l])
    BY Zenon, <1>1, LoadFacts
  <1>3. /\ w.page \in Pages \cup {Torn} /\ Sound(f.recs, w.page) /\ w.torn \in Nat
        /\ w.torn < 2 => (w.page # Torn \/ b # Torn) /\ Told(f.recs, w.page, b, w.pos) \in seen[l]
    BY Zenon, <1>2 DEF AtPageA, HasPageA
  <1>4. CASE w.page = Torn /\ b = Torn
    <2>1. Done(l, w.pos, "failed", w.torn)
      BY <1>4 DEF LoadPageB
    <2>2. ~(w.torn < 2)
      BY Zenon, <1>3, <1>4
    <2> QED
      BY Zenon, <1>1, <2>1, <2>2, DoneKeeps
  <1>5. CASE ~(w.page = Torn /\ b = Torn)
    <2>1. IF n = 0 THEN Done(l, w.pos, None, w.torn)
          ELSE load' = [load EXCEPT ![l] = [pc |-> "record", pos |-> w.pos, inode |-> w.inode,
                                            rec |-> n, torn |-> w.torn]]
      BY Zenon, <1>5 DEF LoadPageB, Chosen
    <2>2. /\ n = 0 => Told(f.recs, w.page, b, w.pos) = None
          /\ n # 0 => /\ n \in 1 .. Len(f.recs) /\ Whole(f.recs, n, w.pos)
                      /\ Told(f.recs, w.page, b, w.pos) = f.recs[n].val
      <3> HIDE DEF w, b, f
      <3> QED
        BY Zenon, <1>2, <1>3, <1>5, ChosenPage DEF b
    <2> HIDE DEF n
    <2>3. CASE n = 0
      <3>1. Done(l, w.pos, None, w.torn) /\ (w.torn < 2 => None \in seen[l])
        BY Zenon, <1>3, <2>1, <2>2, <2>3
      <3> QED
        BY Zenon, <1>1, <3>1, DoneKeeps
    <2>4. CASE n # 0
      <3>1. load' = [load EXCEPT ![l] = [pc |-> "record", pos |-> w.pos, inode |-> w.inode,
                                         rec |-> n, torn |-> w.torn]]
        BY Zenon, <2>1, <2>4
      <3> DEFINE v == load'[l]
      <3>2. v.pc = "record" /\ v.pos = w.pos /\ v.inode = w.inode /\ v.rec = n /\ v.torn = w.torn
        BY Zenon, <1>2, <3>1
      <3>3. seen[l] \subseteq seen'[l] /\ Visible'[w.pos] \in seen'[l]
        BY Zenon, <3>2, Observed
      <3>4. InFile(v, f, seen'[l])
        <4> HIDE DEF v, w, f, b
        <4> QED
          BY Zenon, <1>2, <1>3, <2>2, <2>4, <3>2, <3>3 DEF InFile, AtRecord
      <3>5. Loads(l)'
        BY Zenon, <1>1, <1>2, <3>2, <3>3, <3>4 DEF Loads
      <3> QED
        BY Zenon, <1>1, <1>2, <3>1, <3>5, OthersLoad
    <2> QED
      BY Zenon, <2>3, <2>4
  <1> QED
    BY Zenon, <1>4, <1>5

LEMMA LoadRecordKeeps ==
    ASSUME LInv, Observe, NEW l \in Loader, LoadRecord(l)
    PROVE  \A m \in Loader : Loads(m)'
  <1> DEFINE w == load[l]
             r == file[w.inode].recs
  <1>1. w.pc = "record" /\ UNCHANGED <<file, entry, wpc, handle>>
    BY Zenon DEF LoadRecord, osVars, writerVars
  <1>2. w.rec \in 1 .. Len(r) /\ Whole(r, w.rec, w.pos) /\ r \in Tapes /\ (w.torn < 2 => r[w.rec].val \in seen[l])
    BY Zenon, <1>1, LoadFacts DEF AtRecord
  <1>3. ~(w.rec > Len(r) \/ r[w.rec] = Torn \/ r[w.rec].pos # w.pos)
    BY <1>2 DEF Whole, Tapes
  <1>4. Done(l, w.pos, r[w.rec].val, w.torn)
    BY Zenon, <1>3 DEF LoadRecord
  <1> QED
    BY Zenon, <1>1, <1>2, <1>4, DoneKeeps

LEMMA LoadSentKeeps ==
    ASSUME LInv, Observe, NEW l \in Loader, LoadSent(l)
    PROVE  \A m \in Loader : Loads(m)'
  <1>1. /\ UNCHANGED <<file, entry, wpc, handle>> /\ load' = [load EXCEPT ![l] = [pc |-> "idle"]]
        /\ DOMAIN load = Loader
    BY Zenon DEF LoadSent, osVars, writerVars, LInv, IInv, Types
  <1>2. load'[l].pc = "idle"
    BY Zenon, <1>1
  <1>3. Loads(l)'
    BY Zenon, <1>2 DEF Loads
  <1> QED
    BY Zenon, <1>1, <1>3, OthersLoad

-----------------------------------------------------------------------------
(* A file that is all there but not open has just been created. *)
LEMMA FreshOnlyKept ==
    ASSUME IInv, FreshOnly, IInv', Save \/ Create \/ Commit \/ Compact \/ Loading
    PROVE  FreshOnly'
  <1>inv. Types /\ Stages /\ Unopened /\ Stages'
    BY Zenon DEF IInv
  <1>0. handle' # None /\ wpc' # "header" => FreshOnly'
    BY Zenon DEF FreshOnly
  <1>1. CASE Save
    <2>1. PICK c \in Chunk, v \in Value : SaveSnapshot(c, v)
      BY Zenon, <1>1 DEF Save
    <2>2. CASE wpc' = "append"
      BY Zenon, <1>inv, <1>0, <2>2 DEF Stages, Creating
    <2>3. CASE wpc' # "append" /\ entry = NoInode
      <3>1. handle = None /\ entry' = NewInode /\ NewInode \in Inode /\ file' = file
        BY Zenon, <2>1, <2>3 DEF SaveSnapshot, NewInode, FreeInodes
      <3>2. file'[entry'].len # "full"
        BY <1>inv, <2>3, <3>1 DEF Unopened, EmptyFile
      <3> QED
        BY Zenon, <3>2 DEF FreshOnly
    <2>4. CASE wpc' # "append" /\ entry # NoInode
      <3>1. file'[entry'].len = "empty"
        BY Zenon, <2>1, <2>4 DEF SaveSnapshot
      <3>2. file'[entry'].len # "full"
        BY <3>1
      <3> QED
        BY Zenon, <3>2 DEF FreshOnly
    <2> QED
      BY Zenon, <2>2, <2>3, <2>4
  <1>2. CASE Create
    <2>0. wpc \in Creating /\ wpc' # "header"
      BY Zenon, <1>2 DEF Create, WriteHeader, WritePages, SyncInit, SyncCreatedEntry, Fail, Creating
    <2>1. handle = None /\ entry \in Inode /\ entry # NoInode /\ file \in [Inode -> Files] /\ file[entry] \in Files
      BY Zenon, <1>inv, <2>0, RegionFileAssumption DEF Stages, Types
    <2>2. CASE WriteHeader
      <3>1. entry' = entry /\ file'[entry] = [file[entry] EXCEPT !.len = "bad"]
        BY Zenon, <2>1, <2>2 DEF WriteHeader, SetFile
      <3>2. file'[entry].len = "bad"
        BY Zenon, <2>1, <3>1 DEF Files
      <3> QED
        BY Zenon, <2>0, <3>1, <3>2 DEF FreshOnly
    <2>3. CASE WritePages
      <3>1. entry' = entry /\ (file' = file \/ file'[entry].page = FreshPages) /\ file[entry].len = "bad"
        BY <1>inv, <2>1, <2>3 DEF WritePages, SetFile, FreshPages, Unopened
      <3> QED
        BY Zenon, <2>0, <3>1 DEF FreshOnly
    <2>4. CASE SyncInit \/ SyncCreatedEntry
      <3>1. UNCHANGED <<file, entry>> /\ (wpc' = "append" \/ UNCHANGED handle)
        BY Zenon, <2>4 DEF SyncInit, SyncCreatedEntry, Fail
      <3>2. wpc' = "append" => handle' # None
        BY Zenon, <1>inv DEF Stages, Creating
      <3> QED
        BY Zenon, <2>0, <3>1, <3>2 DEF FreshOnly
    <2> QED
      BY Zenon, <1>2, <2>2, <2>3, <2>4 DEF Create
  <1>3. CASE Commit
    <2>1. /\ wpc \in Saving /\ wpc' # "header"
          /\ \/ handle' = handle
             \/ handle' = [inode |-> handle.inode, active |-> Inactive, gen |-> handle.gen + 1, idx |-> NextIndex]
          /\ handle' # handle => wpc = "pagesync"
      BY Zenon, <1>3 DEF Commit, AppendRecord, SyncRecord, TearPage, WritePage, SyncPage, Fail, Saving
    <2>2. handle # None /\ handle.inode \in Inode /\ Inactive \in 1 .. 2
      BY Zenon, <2>1, InHandFacts, RegionFileAssumption
    <2>3. handle' # None
      <3>1. CASE handle' = handle
        BY Zenon, <2>2, <3>1
      <3>2. CASE handle' # handle
        <4>1. NextIndex \in Indices /\ handle.gen + 1 \in 0 .. MaxGen
          BY Zenon, <2>1, <3>2, NewPage
        <4>2. handle' \in Handles
          BY <2>1, <2>2, <3>2, <4>1 DEF Handles
        <4> QED
          BY Zenon, <4>2, RegionFileAssumption
      <3> QED
        BY Zenon, <3>1, <3>2
    <2> QED
      BY Zenon, <1>0, <2>1, <2>3
  <1>4. CASE Compact
    <2>1. wpc' # "header"
      BY Zenon, <1>4 DEF Compact, CompactRegion, SyncTemp, Rename, SyncRenamedEntry, Fail
    <2>2. CASE CompactRegion
      <3>1. CASE handle # None
        BY Zenon, <1>0, <2>1, <2>2, <3>1 DEF CompactRegion
      <3>2. CASE handle = None
        <4>1. entry \in Inode /\ Openable(file[entry]) /\ handle' = Opened(entry)
          BY Zenon, <1>inv, <2>2, <3>2 DEF CompactRegion, Types
        <4> QED
          BY Zenon, <1>0, <2>1, <3>2, <4>1, OpeningKeeps
      <3> QED
        BY Zenon, <3>1, <3>2
    <2>3. CASE Rename
      <3>1. handle' # None
        BY Zenon, <1>inv, <2>3 DEF Rename, Stages, Creating
      <3> QED
        BY Zenon, <1>0, <2>1, <3>1
    <2>4. CASE SyncTemp \/ SyncRenamedEntry
      <3>1. handle # None /\ handle' = handle
        BY Zenon, <1>inv, <2>4 DEF SyncTemp, SyncRenamedEntry, Fail, Stages, Creating
      <3> QED
        BY Zenon, <1>0, <2>1, <3>1
    <2> QED
      BY Zenon, <1>4, <2>2, <2>3, <2>4 DEF Compact
  <1>5. CASE Loading
    <2>1. UNCHANGED <<file, entry, handle, wpc>>
      BY Zenon, <1>5 DEF Loading, LoadPageA, LoadPageB, LoadRecord, LoadSent, LoadOpen, osVars, writerVars
    <2> QED
      BY Zenon, <2>1 DEF FreshOnly
  <1> QED
    BY Zenon, <1>1, <1>2, <1>3, <1>4, <1>5

-----------------------------------------------------------------------------
LEMMA LoadInit ==
    ASSUME Init, \A F \in FaultSets : "crash" \notin F
    PROVE  LInv
  <1>1. IInv
    BY Zenon, InitHolds
  <1>2. ~PowerFails /\ FreshOnly
    BY Zenon DEF Init, PowerFails, FreshOnly
  <1>3. \A l \in Loader : load[l].pc = "idle"
    BY Zenon DEF Init
  <1> QED
    BY Zenon, <1>1, <1>2, <1>3 DEF LInv, Loads

LEMMA LoadNext ==
    ASSUME LInv, [Next]_vars
    PROVE  LInv'
  <1>1. IInv'
    BY Zenon, NextKeeps DEF LInv
  <1>2. CASE UNCHANGED vars
    <2>1. UNCHANGED <<file, entry, handle, wpc, load, seen, faults>>
      BY Zenon, <1>2 DEF vars, osVars, writerVars
    <2>2. UNCHANGED Visible
      BY Zenon, <2>1 DEF Visible
    <2>3. \A l \in Loader : Loads(l)'
      BY Zenon, <2>1, <2>2 DEF LInv, Loads, Between
    <2> QED
      BY Zenon, <1>1, <2>1, <2>3 DEF LInv, FreshOnly, PowerFails
  <1>3. CASE Next
    <2>1. /\ Save \/ Create \/ Commit \/ Compact \/ Loading
          /\ Observe /\ ~PowerFails'
      BY Zenon, <1>3 DEF Next, Step, Crash, LInv, PowerFails
    <2>2. FreshOnly'
      BY Zenon, <1>1, <2>1, FreshOnlyKept DEF LInv
    <2>3. \A l \in Loader : Loads(l)'
      <3>1. CASE Save \/ Create
        BY Zenon, <2>1, <3>1, SaveAndCreateGrow, QuietStep
      <3>2. CASE Commit
        BY Zenon, <1>1, <2>1, <3>2, CommitGrows, QuietStep, PageWriteKeeps DEF Commit
      <3>3. CASE Compact
        BY Zenon, <2>1, <3>3, CompactGrows, QuietStep
      <3>4. CASE Loading
        BY Zenon, <2>1, <3>4, LoadOpenKeeps, LoadPageAKeeps, LoadPageBKeeps, LoadRecordKeeps, LoadSentKeeps DEF Loading
      <3> QED
        BY Zenon, <2>1, <3>1, <3>2, <3>3, <3>4
    <2> QED
      BY Zenon, <1>1, <2>1, <2>2, <2>3 DEF LInv
  <1> QED
    BY Zenon, <1>2, <1>3

(* While the machine stays up, whatever writes and syncs fail, what a load
   worker answers was in the region file at some moment since its open, though
   it shares no lock with the save worker and reads the two index pages one
   after the other; and it does not fail.  A load whose two page reads overlap
   two page writes or more is left out of the statement. *)
THEOREM LoadsAreLinearizable ==
    ASSUME \A F \in FaultSets : "crash" \notin F
    PROVE  Spec => []LoadLinearizable
  <1>1. Init => LInv
    BY Zenon, LoadInit
  <1>2. LInv /\ [Next]_vars => LInv'
    BY Zenon, LoadNext
  <1>3. LInv => LoadLinearizable
    BY Zenon DEF LInv, Loads, Answers, LoadLinearizable
  <1> QED
    BY <1>1, <1>2, <1>3, PTL DEF Spec
================================================================================
