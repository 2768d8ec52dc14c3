--------------------------- MODULE RegionFileProofs ---------------------------
(***************************************************************************)
(* A region file keeps its promise: `RegionFile' implements `RegionStore', *)
(* and its index pages only name whole records.                            *)
(*                                                                         *)
(* What makes a commit atomic is that the page the worker calls active is  *)
(* never written: it is the same in the page cache and on stable storage,  *)
(* and shows what was acknowledged.  The other page is torn, or older, or  *)
(* one generation ahead of it, and then shows a save that was attempted.   *)
(* Both pages only name records that are on stable storage already.        *)
(***************************************************************************)
EXTENDS RegionFile, TLAPS

Tapes == {r \in Seq(Records \cup {Torn}) : Len(r) <= MaxRecs}
Files == [len : {"empty", "bad", "full"}, page : [1 .. 2 -> Pages \cup {Torn}], recs : Tapes]

(* What page p shows of the records r; that it only names whole ones. *)
Shown(r, p) == [c \in Chunk |-> IF p.idx[c] = 0 THEN None ELSE r[p.idx[c]].val]
Whole(r, n, c) == n <= Len(r) /\ r[n] # Torn /\ r[n].pos = c
Sound(r, p) == p # Torn => \A c \in Chunk : p.idx[c] # 0 => Whole(r, p.idx[c], c)
Longer(r, s) == Len(r) <= Len(s) /\ \A n \in 1 .. Len(r) : s[n] = r[n]

(* Records reach stable storage before a page that names them is written: of
   file f in the page cache and d on stable storage. *)
FileSound(f, d) ==
    /\ Longer(d.recs, f.recs)
    /\ \A k \in 1 .. 2 : Sound(d.recs, f.page[k]) /\ Sound(d.recs, d.page[k])

(* Page a shows the acknowledged state A; page q, in the other place, is not as
   old, and if it is newer it shows one of the states T that were tried. *)
Rival(r, p, q, T) == q # Torn => q.gen # p.gen /\ (q.gen > p.gen => Shown(r, q) \in T)
Kept(f, a, A, T) ==
    /\ f.len = "full" /\ f.page[a] # Torn
    /\ A = Shown(f.recs, f.page[a])
    /\ Rival(f.recs, f.page[a], f.page[3 - a], T)
KeptOnDisk(f, d, a, T) ==
    /\ d.len = "full" /\ d.page[a] = f.page[a]
    /\ Rival(f.recs, f.page[a], d.page[3 - a], T)

(* A file in creation, from the first write to the end of a crash in it. *)
Blank(f) ==
    /\ f.recs = <<>>
    /\ f.page[1] \in {Torn, Page(1, EmptyIndex)} /\ f.page[2] \in {Torn, Page(0, EmptyIndex)}
FreshPages == <<Page(1, EmptyIndex), Page(0, EmptyIndex)>>
Apart(f) == f.page[1] # Torn /\ f.page[2] # Torn => f.page[1].gen # f.page[2].gen

PowerFails == "crash" \in faults
Creating   == {"header", "pages", "initsync", "createdir"}
Saving     == {"append", "recsync", "tear", "page", "pagesync"}
Compacting == {"tempsync", "rename"}

Types ==
    /\ file \in [Inode -> Files] /\ disk \in [Inode -> Files]
    /\ entry \in Inode \cup {NoInode} /\ entryDisk \in Inode \cup {NoInode}
    /\ temp \in Inode \cup {NoInode}
    /\ wpc \in Places /\ handle \in Handles \cup {None}
    /\ acked \in [Chunk -> Value \cup {None}] /\ DOMAIN load = Loader
    /\ ~({"entry", "crash"} \subseteq faults)

Stages ==
    /\ handle = None => wpc \in {"idle"} \cup Creating
    /\ handle # None => wpc \notin Creating /\ handle.inode = entry
    /\ handle # None \/ wpc \in Creating => entry \in Inode
    /\ wpc \in Creating \cup Saving => job \in Records

(* Without an open RegionFile nothing is in flight: the file is the one a
   restart found, or one whose creation is not over. *)
Unopened ==
    handle = None =>
        /\ tried = {} /\ acked = Visible
        /\ entry = NoInode => entryDisk = NoInode /\ \A i \in Inode : file[i] = EmptyFile /\ disk[i] = EmptyFile
        /\ entry # NoInode =>
              /\ Apart(file[entry])
              /\ \/ Blank(file[entry]) /\ Blank(disk[entry])
                 \/ disk[entry] = file[entry] /\ file[entry].len = "full" /\ wpc = "idle"
              /\ wpc = "pages" => file[entry].len = "bad"
              /\ wpc \in {"initsync", "createdir"} => file[entry].len = "full" /\ file[entry].page = FreshPages
              /\ wpc = "createdir" => disk[entry] = file[entry]
              /\ PowerFails =>
                    /\ entryDisk \in {entry, NoInode}
                    /\ entryDisk = NoInode => Blank(file[entry]) /\ Blank(disk[entry])
                    /\ wpc = "idle" /\ file[entry].len = "full" =>
                          disk[entry] = file[entry] /\ entryDisk = entry

(* With one, its active page is the acknowledged state, in the cache and on
   stable storage; until the directory is synced, in the replaced file too. *)
InHand ==
    handle # None =>
        /\ file[entry].page[handle.active] = Page(handle.gen, handle.idx)
        /\ Kept(file[entry], handle.active, acked, tried)
        /\ PowerFails =>
              /\ KeptOnDisk(file[entry], disk[entry], handle.active, tried)
              /\ wpc # "renamedir" => entryDisk = entry
              /\ wpc = "renamedir" => entryDisk \in Inode /\ \E a \in 1 .. 2 :
                    /\ Kept(file[entryDisk], a, acked, tried)
                    /\ KeptOnDisk(file[entryDisk], disk[entryDisk], a, tried)

InPlace == \A i \in {entry, entryDisk} \cap Inode : FileSound(file[i], disk[i])

(* How far the save has come. *)
SaveInv ==
    /\ wpc \in Saving \ {"append"} =>
          /\ handle.gen < MaxGen
          /\ Len(file[entry].recs) > 0 /\ file[entry].recs[Len(file[entry].recs)] = job
    /\ wpc \in {"tear", "page", "pagesync"} => disk[entry].recs = file[entry].recs
    /\ wpc = "page" => file[entry].page[Inactive] = Torn
    /\ wpc = "pagesync" => file[entry].page[Inactive] = Page(handle.gen + 1, NextIndex)

(* The compacted file, before it takes the place of the other. *)
TempInv ==
    wpc \in Compacting =>
        LET f == file[temp]
        IN  /\ temp \in Inode \ {entry, entryDisk} /\ temp \notin Held
            /\ f.len = "full" /\ f.page[1] # Torn /\ f.page[2] # Torn
            /\ f.page[1].gen = handle.gen + 1 /\ f.page[2].gen = handle.gen
            /\ Sound(f.recs, f.page[1]) /\ Sound(f.recs, f.page[2])
            /\ Shown(f.recs, f.page[1]) = acked
            /\ wpc = "rename" => disk[temp] = f

IInv == Types /\ Stages /\ Unopened /\ InHand /\ InPlace /\ SaveInv /\ TempInv

-----------------------------------------------------------------------------
(* Pages and records. *)

LEMMA PageType ==
    ASSUME NEW g \in 0 .. MaxGen, NEW x \in Indices
    PROVE  Page(g, x) \in Pages /\ Page(g, x) # Torn /\ Page(g, x).gen = g /\ Page(g, x).idx = x
  BY RegionFileAssumption DEF Page, Pages

(* A file that only grew shows the same through a page that was sound in it. *)
LEMMA SoundLonger ==
    ASSUME NEW r \in Tapes, NEW s \in Tapes, NEW p \in Pages, Sound(r, p), Longer(r, s)
    PROVE  Sound(s, p) /\ Shown(s, p) = Shown(r, p)
  <1>1. p # Torn
    BY Zenon, RegionFileAssumption
  <1>2. ASSUME NEW c \in Chunk, p.idx[c] # 0
        PROVE  p.idx[c] \in 1 .. Len(r) /\ s[p.idx[c]] = r[p.idx[c]] /\ Whole(s, p.idx[c], c)
    <2>1. p.idx[c] \in Nat
      BY RegionFileAssumption DEF Pages, Indices
    <2>2. p.idx[c] <= Len(r) /\ r[p.idx[c]] # Torn /\ r[p.idx[c]].pos = c
      BY Zenon, <1>1, <1>2 DEF Sound, Whole
    <2>3. Len(r) \in Nat /\ Len(s) \in Nat /\ Len(r) <= Len(s)
      BY DEF Tapes, Longer
    <2>4. p.idx[c] \in 1 .. Len(r)
      BY <1>2, <2>1, <2>2, <2>3
    <2> QED
      BY <2>1, <2>2, <2>3, <2>4 DEF Longer, Whole
  <1>3. Sound(s, p)
    BY Zenon, <1>2 DEF Sound
  <1>4. Shown(s, p) = Shown(r, p)
    BY Zenon, <1>2 DEF Shown
  <1> QED
    BY Zenon, <1>3, <1>4

LEMMA LongerTrans ==
    ASSUME NEW r \in Tapes, NEW s \in Tapes, NEW t \in Tapes, Longer(r, s), Longer(s, t)
    PROVE  Longer(r, t)
  BY DEF Tapes, Longer

LEMMA LongerItself ==
    ASSUME NEW r \in Tapes
    PROVE  Longer(r, r)
  BY DEF Tapes, Longer

(* What is shown is a state of the chunks. *)
LEMMA ShownType ==
    ASSUME NEW r \in Tapes, NEW p \in Pages, Sound(r, p)
    PROVE  Shown(r, p) \in [Chunk -> Value \cup {None}]
  <1>1. p # Torn
    BY Zenon, RegionFileAssumption
  <1>2. ASSUME NEW c \in Chunk, p.idx[c] # 0
        PROVE  r[p.idx[c]].val \in Value
    <2>1. p.idx[c] \in Nat
      BY RegionFileAssumption DEF Pages, Indices
    <2>2. p.idx[c] <= Len(r) /\ r[p.idx[c]] # Torn
      BY Zenon, <1>1, <1>2 DEF Sound, Whole
    <2>3. p.idx[c] \in 1 .. Len(r) /\ r \in Seq(Records \cup {Torn})
      BY <1>2, <2>1, <2>2 DEF Tapes
    <2>4. r[p.idx[c]] \in Records
      BY <2>2, <2>3
    <2> QED
      BY Zenon, <2>4 DEF Records
  <1> QED
    BY Zenon, <1>2 DEF Shown

(* from_open_file on a valid file: the page it takes, and what is visible. *)
LEMMA ContentsShown ==
    ASSUME NEW f, NEW e, e # NoInode, Openable(f[e])
    PROVE  Contents(f, e) = Shown(f[e].recs, f[e].page[Active(f[e].page)])
  BY Zenon DEF Contents, Shown, Read

LEMMA ContentsNone ==
    ASSUME NEW f, NEW e, e = NoInode \/ ~Openable(f[e])
    PROVE  Contents(f, e) = [c \in Chunk |-> None]
  BY Zenon DEF Contents

(* The visible state depends on the file the path names alone. *)
LEMMA ContentsLocal ==
    ASSUME NEW f, NEW g, NEW e, e # NoInode => f[e] = g[e]
    PROVE  Contents(f, e) = Contents(g, e)
  BY Zenon DEF Contents

LEMMA ActivePage ==
    ASSUME NEW p \in [1 .. 2 -> Pages \cup {Torn}], NEW a \in 1 .. 2, p[a] # Torn
    PROVE  /\ Active(p) \in 1 .. 2 /\ p[Active(p)] # Torn
           /\ p[3 - a] = Torn \/ p[3 - a].gen < p[a].gen => Active(p) = a
           /\ p[3 - a] # Torn /\ p[3 - a].gen > p[a].gen => Active(p) = 3 - a
  <1>1. a = 1 \/ a = 2
    OBVIOUS
  <1>2. \A k \in 1 .. 2 : p[k] # Torn => p[k].gen \in Nat
    BY RegionFileAssumption DEF Pages
  <1>3. CASE a = 1
    BY <1>2, <1>3 DEF Active
  <1>4. CASE a = 2
    BY <1>2, <1>4 DEF Active
  <1> QED
    BY Zenon, <1>1, <1>3, <1>4

LEMMA FileType ==
    ASSUME NEW f \in Files
    PROVE  /\ f.page \in [1 .. 2 -> Pages \cup {Torn}] /\ f.recs \in Tapes
           /\ \A k \in 1 .. 2 : f.page[k] # Torn => f.page[k] \in Pages
  BY Zenon DEF Files

(* What readers find is the acknowledged state, or one that was tried. *)
LEMMA KeptShows ==
    ASSUME NEW f \in Files, NEW a \in 1 .. 2, NEW A, NEW T, Kept(f, a, A, T)
    PROVE  /\ Openable(f)
           /\ Shown(f.recs, f.page[Active(f.page)]) \in {A} \cup T
           /\ f.page[3 - a] = Torn \/ f.page[3 - a].gen < f.page[a].gen
                => Shown(f.recs, f.page[Active(f.page)]) = A
  <1>1. f.page[a] # Torn /\ f.page[a] \in Pages /\ f.page \in [1 .. 2 -> Pages \cup {Torn}]
    BY Zenon, FileType DEF Kept
  <1>2. 3 - a \in 1 .. 2
    OBVIOUS
  <1>3. Openable(f)
    BY Zenon, <1>1 DEF Kept, Openable
  <1>4. CASE f.page[3 - a] = Torn \/ f.page[3 - a].gen < f.page[a].gen
    <2>1. Active(f.page) = a
      BY Zenon, <1>1, <1>4, ActivePage
    <2> QED
      BY Zenon, <1>3, <2>1 DEF Kept
  <1>5. CASE f.page[3 - a] # Torn /\ ~(f.page[3 - a].gen < f.page[a].gen)
    <2>1. f.page[3 - a].gen \in Nat /\ f.page[a].gen \in Nat
      BY <1>1, <1>2, <1>5, RegionFileAssumption, FileType DEF Pages
    <2>2. f.page[3 - a].gen > f.page[a].gen /\ Shown(f.recs, f.page[3 - a]) \in T
      BY <1>5, <2>1 DEF Kept, Rival
    <2>3. Active(f.page) = 3 - a
      BY Zenon, <1>1, <1>5, <2>2, ActivePage
    <2> QED
      BY Zenon, <1>3, <1>5, <2>2, <2>3
  <1> QED
    BY Zenon, <1>4, <1>5

(* The handle of a file just opened: its page is the visible state. *)
LEMMA OpenedKeeps ==
    ASSUME NEW f \in Files, Openable(f), Apart(f), NEW T
    PROVE  LET k == Active(f.page)
           IN  k \in 1 .. 2 /\ f.page[k] \in Pages /\ Kept(f, k, Shown(f.recs, f.page[k]), T)
  <1> DEFINE k == Active(f.page)
  <1>1. PICK a \in 1 .. 2 : f.page[a] # Torn
    BY Zenon DEF Openable
  <1>2. f.page \in [1 .. 2 -> Pages \cup {Torn}]
    BY Zenon, FileType
  <1>3. k \in 1 .. 2 /\ f.page[k] # Torn /\ f.page[k] \in Pages
    BY Zenon, <1>1, <1>2, ActivePage, FileType
  <1>4. ASSUME f.page[3 - k] # Torn PROVE f.page[3 - k].gen < f.page[k].gen
    <2>1. 3 - k \in 1 .. 2
      BY <1>3
    <2>2. f.page[3 - k].gen \in Nat /\ f.page[k].gen \in Nat
      BY <1>2, <1>3, <1>4, <2>1, RegionFileAssumption, FileType DEF Pages
    <2>3. f.page[3 - k].gen # f.page[k].gen
      BY <1>3, <1>4 DEF Apart
    <2>4. ~(f.page[3 - k].gen > f.page[k].gen)
      <3>1. f.page[3 - k].gen > f.page[k].gen => k = 3 - k
        BY Zenon, <1>2, <1>3, <1>4, ActivePage
      <3> QED
        BY <1>3, <3>1
    <2> QED
      BY <2>2, <2>3, <2>4
  <1>5. 3 - k \in 1 .. 2 /\ (f.page[3 - k] # Torn => f.page[3 - k].gen \in Nat) /\ f.page[k].gen \in Nat
    BY <1>2, <1>3, RegionFileAssumption, FileType DEF Pages
  <1>6. Rival(f.recs, f.page[k], f.page[3 - k], T)
    BY <1>4, <1>5 DEF Rival
  <1> HIDE DEF k
  <1>7. Kept(f, k, Shown(f.recs, f.page[k]), T)
    BY Zenon, <1>3, <1>6 DEF Kept, Openable
  <1> QED
    BY Zenon, <1>3, <1>7 DEF k

-----------------------------------------------------------------------------
(* What a power failure leaves of a file. *)

(* A function on 1 .. n is a sequence. *)
LEMMA Listed ==
    ASSUME NEW S, NEW n \in Nat, NEW t \in [1 .. n -> S]
    PROVE  t \in Seq(S) /\ Len(t) = n
  OBVIOUS

LEMMA SurvivorShape ==
    ASSUME NEW f \in Files, NEW d \in Files, Longer(d.recs, f.recs), NEW s \in Survivors(d, f)
    PROVE  /\ s \in Files
           /\ s.len = d.len \/ s.len = f.len \/ (s.len = "bad" /\ d.len # f.len)
           /\ \A k \in 1 .. 2 : s.page[k] \in {d.page[k], f.page[k], Torn}
           /\ \A k \in 1 .. 2 : d.page[k] = f.page[k] => s.page[k] = f.page[k]
           /\ Longer(d.recs, s.recs) /\ Len(s.recs) <= Len(f.recs)
           /\ d.recs = f.recs => s.recs = f.recs
  <1> DEFINE n == Len(f.recs)
             tails == Tails(d.recs, f.recs)
             pages == {<<a, b>> : a \in Mixed(d.page[1], f.page[1]), b \in Mixed(d.page[2], f.page[2])}
  <1>1. /\ n \in Nat /\ n <= MaxRecs /\ f.recs \in Seq(Records \cup {Torn})
        /\ Len(d.recs) \in Nat /\ Len(d.recs) <= n /\ d.recs \in Seq(Records \cup {Torn})
        /\ \A m \in 1 .. Len(d.recs) : f.recs[m] = d.recs[m]
        /\ d.recs \in Tapes
    BY DEF Files, Tapes, Longer
  <1>2. /\ s.len \in {d.len, f.len} \cup (IF d.len = f.len THEN {} ELSE {"bad"})
        /\ s.page \in pages
        /\ s.recs \in {d.recs} \cup tails
        /\ s = [len |-> s.len, page |-> s.page, recs |-> s.recs]
    <2> HIDE DEF pages, tails
    <2>1. s \in [len : {d.len, f.len} \cup (IF d.len = f.len THEN {} ELSE {"bad"}),
                page : pages, recs : {d.recs} \cup tails]
      BY DEF Survivors, pages, tails
    <2> QED
      BY Zenon, <2>1
  <1>3. PICK a \in Mixed(d.page[1], f.page[1]), b \in Mixed(d.page[2], f.page[2]) : s.page = <<a, b>>
    BY <1>2
  <1>4. d.page[1] \in Pages \cup {Torn} /\ d.page[2] \in Pages \cup {Torn}
        /\ f.page[1] \in Pages \cup {Torn} /\ f.page[2] \in Pages \cup {Torn}
    BY DEF Files
  <1>5. a \in {d.page[1], f.page[1], Torn} /\ b \in {d.page[2], f.page[2], Torn}
        /\ (d.page[1] = f.page[1] => a = f.page[1]) /\ (d.page[2] = f.page[2] => b = f.page[2])
    BY Zenon, <1>3 DEF Mixed
  <1>6. s.page[1] = a /\ s.page[2] = b /\ s.page \in [1 .. 2 -> Pages \cup {Torn}]
    BY <1>3, <1>4, <1>5
  <1>7. s.recs \in Tapes /\ Longer(d.recs, s.recs) /\ Len(s.recs) <= n /\ (d.recs = f.recs => s.recs = f.recs)
    <2>1. CASE s.recs = d.recs
      BY Zenon, <1>1, <2>1, LongerItself
    <2>2. CASE s.recs \in tails
      <3> DEFINE t == s.recs
      <3>1. /\ t \in [1 .. n -> Records \cup {Torn}]
            /\ \A m \in 1 .. n : t[m] = f.recs[m] \/ m > Len(d.recs)
        BY <1>1, <2>2 DEF Tails
      <3> HIDE DEF t, n
      <3>2. t \in Seq(Records \cup {Torn}) /\ Len(t) = n
        BY Zenon, <1>1, <3>1, Listed
      <3>3. \A m \in 1 .. Len(d.recs) : t[m] = d.recs[m]
        BY <1>1, <3>1
      <3>4. t \in Tapes /\ Longer(d.recs, t)
        BY Zenon, <1>1, <3>2, <3>3 DEF Tapes, Longer
      <3>5. d.recs = f.recs => t = f.recs
        BY <1>1, <3>1, <3>2, <3>3 DEF n
      <3> QED
        BY <1>1, <3>2, <3>4, <3>5 DEF t
    <2> QED
      BY <1>2, <2>1, <2>2
  <1>8. d.len \in {"empty", "bad", "full"} /\ f.len \in {"empty", "bad", "full"}
    BY Zenon DEF Files
  <1>9. s \in Files
    BY <1>2, <1>6, <1>7, <1>8 DEF Files
  <1> QED
    BY <1>2, <1>5, <1>6, <1>7, <1>9

(* A file whose active page is on stable storage keeps it, and the choice
   between the acknowledged state and one that was tried stays open. *)
LEMMA KeptSurvives ==
    ASSUME NEW f \in Files, NEW d \in Files, NEW a \in 1 .. 2, NEW A, NEW T,
           FileSound(f, d), Kept(f, a, A, T), KeptOnDisk(f, d, a, T), NEW s \in Survivors(d, f)
    PROVE  s.len = "full" /\ Kept(s, a, A, T) /\ FileSound(s, s) /\ Apart(s)
  <1>1. Longer(d.recs, f.recs) /\ Longer(d.recs, s.recs) /\ s \in Files
    BY Zenon, SurvivorShape DEF FileSound
  <1>2. f.recs \in Tapes /\ d.recs \in Tapes /\ s.recs \in Tapes
    BY Zenon, <1>1, FileType
  <1>3. s.len = "full" /\ s.page[a] = f.page[a] /\ f.page[a] # Torn /\ 3 - a \in 1 .. 2
    BY <1>1, SurvivorShape DEF Kept, KeptOnDisk
  <1>4. \A k \in 1 .. 2 : s.page[k] # Torn =>
            s.page[k] \in Pages /\ Sound(d.recs, s.page[k])
    BY <1>1, SurvivorShape, FileType DEF FileSound
  <1>5. \A k \in 1 .. 2 : s.page[k] # Torn =>
            Sound(s.recs, s.page[k]) /\ Shown(s.recs, s.page[k]) = Shown(f.recs, s.page[k])
    BY <1>1, <1>2, <1>4, SoundLonger
  <1>6. FileSound(s, s)
    BY Zenon, <1>2, <1>5, LongerItself DEF FileSound, Sound
  <1>7. s.page[3 - a] \in {d.page[3 - a], f.page[3 - a], Torn}
    BY Zenon, <1>1, <1>3, SurvivorShape
  <1>8. Rival(s.recs, s.page[a], s.page[3 - a], T)
    BY Zenon, <1>3, <1>5, <1>7 DEF Kept, KeptOnDisk, Rival
  <1>9. Kept(s, a, A, T)
    BY Zenon, <1>3, <1>5, <1>8 DEF Kept
  <1>10. Apart(s)
    <2>1. s.page[3 - a] # Torn => s.page[3 - a].gen # s.page[a].gen
      BY Zenon, <1>8 DEF Rival
    <2>2. a = 1 \/ a = 2
      OBVIOUS
    <2> QED
      BY <2>1, <2>2 DEF Apart
  <1> QED
    BY Zenon, <1>3, <1>6, <1>9, <1>10

(* A file in creation shows nothing, whatever is left of it. *)
LEMMA BlankShows ==
    ASSUME NEW f \in Files, NEW d \in Files, Blank(f), Blank(d)
    PROVE  /\ FileSound(f, d) /\ Apart(f)
           /\ Openable(f) => Shown(f.recs, f.page[Active(f.page)]) = [c \in Chunk |-> None]
  <1>0. 0 \in 0 .. MaxGen /\ 1 \in 0 .. MaxGen /\ EmptyIndex \in Indices
    BY RegionFileAssumption DEF EmptyIndex, Indices
  <1>1. \A k \in 1 .. 2 : /\ f.page[k] # Torn => f.page[k].idx = EmptyIndex
                          /\ d.page[k] # Torn => d.page[k].idx = EmptyIndex
    BY <1>0, PageType DEF Blank
  <1>2. \A k \in 1 .. 2 : Sound(d.recs, f.page[k]) /\ Sound(d.recs, d.page[k])
    BY Zenon, <1>1 DEF Sound, EmptyIndex
  <1>3. Longer(d.recs, f.recs)
    BY DEF Blank, Longer
  <1>4. Apart(f)
    BY <1>0, PageType DEF Blank, Apart
  <1>5. ASSUME Openable(f) PROVE Shown(f.recs, f.page[Active(f.page)]) = [c \in Chunk |-> None]
    <2>1. Active(f.page) \in 1 .. 2 /\ f.page[Active(f.page)] # Torn
      BY Zenon, <1>5, FileType, ActivePage DEF Openable
    <2> QED
      BY <1>1, <2>1 DEF Shown, EmptyIndex
  <1> QED
    BY Zenon, <1>2, <1>3, <1>4, <1>5 DEF FileSound

(* A file that was just created, or is free. *)
LEMMA EmptyFileBlank == EmptyFile \in Files /\ Blank(EmptyFile) /\ ~Openable(EmptyFile)
  <1>1. EmptyFile.page[1] = Torn /\ EmptyFile.page[2] = Torn /\ EmptyFile.recs = <<>> /\ EmptyFile.len = "empty"
    BY Zenon DEF EmptyFile
  <1>2. <<>> \in Tapes
    BY RegionFileAssumption DEF Tapes
  <1>3. EmptyFile \in Files
    BY <1>2 DEF EmptyFile, Files
  <1> QED
    BY Zenon, <1>1, <1>3 DEF Blank, Openable

LEMMA BlankSurvives ==
    ASSUME NEW f \in Files, NEW d \in Files, Blank(f), Blank(d), NEW s \in Survivors(d, f)
    PROVE  s \in Files /\ Blank(s)
  <1>1. Longer(d.recs, f.recs)
    BY Zenon, BlankShows DEF FileSound
  <1>2. s \in Files /\ s.recs = <<>>
    BY <1>1, SurvivorShape DEF Blank
  <1>3. \A k \in 1 .. 2 : s.page[k] \in {d.page[k], f.page[k], Torn}
    BY Zenon, <1>1, SurvivorShape
  <1> QED
    BY <1>2, <1>3 DEF Blank

LEMMA SyncedSurvives ==
    ASSUME NEW f \in Files, NEW s \in Survivors(f, f)
    PROVE  s = f
  <1>1. Longer(f.recs, f.recs)
    BY Zenon, FileType, LongerItself
  <1>2. s \in Files /\ s.len = f.len /\ s.recs = f.recs /\ \A k \in 1 .. 2 : s.page[k] = f.page[k]
    BY Zenon, <1>1, SurvivorShape
  <1>3. s.page = f.page
    BY <1>2, FileType
  <1>4. s = [len |-> s.len, page |-> s.page, recs |-> s.recs] /\ f = [len |-> f.len, page |-> f.page, recs |-> f.recs]
    BY Zenon, <1>2 DEF Files
  <1> QED
    BY Zenon, <1>2, <1>3, <1>4

-----------------------------------------------------------------------------
(* The steps.  Each keeps the invariant and is a step of the store, or none. *)

StoreStep == Store!Next \/ UNCHANGED Store!vars

(* No file but the one the path names is ever opened to be read. *)
LEMMA OnlyEntryHeld ==
    ASSUME DOMAIN load = Loader, Loading
    PROVE  DOMAIN load' = Loader /\ Held' \subseteq Held \cup {entry}
  <1>1. PICK l \in Loader :
            LoadPageA(l) \/ LoadPageB(l) \/ LoadRecord(l) \/ LoadSent(l) \/ \E c \in Chunk : LoadOpen(l, c)
    BY Zenon DEF Loading
  <1>2. /\ DOMAIN load' = Loader /\ \A m \in Loader \ {l} : load'[m] = load[m]
        /\ load'[l].pc \in {"opened", "pageA", "record"} =>
              \/ load'[l].inode = entry
              \/ load[l].pc \in {"opened", "pageA", "record"} /\ load'[l].inode = load[l].inode
    <2>1. CASE LoadPageA(l)
      <3>1. PICK p, t : load' = [load EXCEPT ![l] = [pc |-> "pageA", pos |-> load[l].pos, inode |-> load[l].inode,
                                                     page |-> p, torn |-> t]]
        BY Zenon, <2>1 DEF LoadPageA
      <3>2. load[l].pc = "opened"
        BY Zenon, <2>1 DEF LoadPageA
      <3> QED
        BY Zenon, <3>1, <3>2
    <2>2. CASE LoadPageB(l)
      <3>1. load[l].pc = "pageA"
        BY Zenon, <2>2 DEF LoadPageB
      <3>2. CASE \E v : Done(l, load[l].pos, v, load[l].torn)
        BY <3>2 DEF Done
      <3>3. CASE \E n : load' = [load EXCEPT ![l] = [pc |-> "record", pos |-> load[l].pos, inode |-> load[l].inode,
                                                    rec |-> n, torn |-> load[l].torn]]
        <4>1. PICK n : load' = [load EXCEPT ![l] = [pc |-> "record", pos |-> load[l].pos, inode |-> load[l].inode,
                                                    rec |-> n, torn |-> load[l].torn]]
          BY Zenon, <3>3
        <4> QED
          BY Zenon, <3>1, <4>1
      <3> QED
        BY Zenon, <2>2, <3>2, <3>3 DEF LoadPageB
    <2>3. CASE LoadRecord(l)
      BY Zenon, <2>3 DEF LoadRecord, Done
    <2>4. CASE LoadSent(l)
      BY Zenon, <2>4 DEF LoadSent
    <2>5. CASE \E c \in Chunk : LoadOpen(l, c)
      BY <2>5 DEF LoadOpen, Done
    <2> QED
      BY Zenon, <1>1, <2>1, <2>2, <2>3, <2>4, <2>5
  <1> QED
    BY Zenon, <1>2 DEF Held, Reading

LEMMA LoadingKeeps ==
    ASSUME IInv, Loading, UNCHANGED faults
    PROVE  IInv' /\ UNCHANGED Store!vars
  <1>inv. Types /\ Stages /\ Unopened /\ InHand /\ InPlace /\ SaveInv /\ TempInv
    BY Zenon DEF IInv
  <1>1. UNCHANGED <<osVars, writerVars, acked, tried>>
    BY Zenon DEF Loading, LoadPageA, LoadPageB, LoadRecord, LoadSent, LoadOpen
  <1>2. DOMAIN load' = Loader /\ Held' \subseteq Held \cup {entry}
    BY Zenon, <1>inv, OnlyEntryHeld DEF Types
  <1>3. Visible' = Visible
    BY Zenon, <1>1 DEF Visible, osVars
  <1>4. Types'
    BY Zenon, <1>inv, <1>1, <1>2 DEF Types, osVars, writerVars
  <1>5. Stages'
    BY Zenon, <1>inv, <1>1 DEF Stages, osVars, writerVars
  <1>6. Unopened'
    BY Zenon, <1>inv, <1>1, <1>3 DEF Unopened, PowerFails, osVars, writerVars
  <1>7. InHand' /\ InPlace'
    BY Zenon, <1>inv, <1>1 DEF InHand, InPlace, PowerFails, osVars, writerVars
  <1>8. SaveInv'
    BY Zenon, <1>inv, <1>1 DEF SaveInv, Inactive, NextIndex, osVars, writerVars
  <1>9. TempInv'
    BY Zenon, <1>inv, <1>1, <1>2 DEF TempInv, osVars, writerVars
  <1> QED
    BY Zenon, <1>1, <1>3, <1>4, <1>5, <1>6, <1>7, <1>8, <1>9 DEF IInv, Store!vars

(* open_or_create of a file that is there: the handle has the visible state. *)
LEMMA OpeningKeeps ==
    ASSUME IInv, handle = None, entry \in Inode, Openable(file[entry])
    PROVE  LET h == Opened(entry)
           IN  /\ h \in Handles /\ h # None /\ h.inode = entry
               /\ file[entry].page[h.active] = Page(h.gen, h.idx)
               /\ Kept(file[entry], h.active, acked, tried)
               /\ disk[entry] = file[entry] => KeptOnDisk(file[entry], disk[entry], h.active, tried)
  <1>inv. Types /\ Stages /\ Unopened /\ InHand /\ InPlace /\ SaveInv /\ TempInv
    BY Zenon DEF IInv
  <1> DEFINE f == file[entry]
             k == Active(f.page)
             h == Opened(entry)
  <1>1. f \in Files /\ entry # NoInode
    BY Zenon, <1>inv, RegionFileAssumption DEF Types
  <1>2. Apart(f) /\ acked = Visible
    BY Zenon, <1>inv, <1>1 DEF Unopened
  <1>3. acked = Shown(f.recs, f.page[k])
    BY Zenon, <1>1, <1>2, ContentsShown DEF Visible
  <1>4. k \in 1 .. 2 /\ f.page[k] \in Pages /\ Kept(f, k, acked, tried)
    BY Zenon, <1>1, <1>2, <1>3, OpenedKeeps
  <1>5. h = [inode |-> entry, active |-> k, gen |-> f.page[k].gen, idx |-> f.page[k].idx]
    BY Zenon DEF Opened
  <1> HIDE DEF f, k, h
  <1>6. f.page[k].gen \in 0 .. MaxGen /\ f.page[k].idx \in Indices /\ f.page[k] = Page(f.page[k].gen, f.page[k].idx)
    BY Zenon, <1>4 DEF Pages, Page
  <1>7. h \in Handles /\ h # None /\ h.inode = entry /\ h.active = k /\ f.page[k] = Page(h.gen, h.idx)
    BY <1>4, <1>5, <1>6, RegionFileAssumption DEF Handles
  <1>8. KeptOnDisk(f, f, k, tried)
    BY Zenon, <1>4 DEF Kept, KeptOnDisk
  <1> QED
    BY Zenon, <1>4, <1>7, <1>8 DEF f, h

LEMMA SaveSnapshotKeeps ==
    ASSUME IInv, NEW c \in Chunk, NEW v \in Value, SaveSnapshot(c, v), UNCHANGED faults
    PROVE  IInv' /\ UNCHANGED Store!vars
  <1>inv. Types /\ Stages /\ Unopened /\ InHand /\ InPlace /\ SaveInv /\ TempInv
    BY Zenon DEF IInv
  <1>0. /\ wpc = "idle" /\ job' = [pos |-> c, val |-> v] /\ job' \in Records
        /\ UNCHANGED <<file, disk, entryDisk, temp, load, acked, tried>>
    BY DEF SaveSnapshot, Records
  <1>1. CASE handle # None /\ wpc' = "append" /\ UNCHANGED <<handle, entry>>
    <2>1. Visible' = Visible
      BY Zenon, <1>0, <1>1 DEF Visible
    <2>2. Types' /\ Stages' /\ Unopened'
      BY Zenon, <1>inv, <1>0, <1>1 DEF Types, Stages, Unopened, Places, Creating, Saving
    <2>3. InHand' /\ InPlace'
      BY Zenon, <1>inv, <1>0, <1>1 DEF InHand, InPlace, PowerFails
    <2>4. SaveInv' /\ TempInv'
      BY Zenon, <1>0, <1>1 DEF SaveInv, TempInv, Saving, Compacting
    <2> QED
      BY Zenon, <1>0, <2>1, <2>2, <2>3, <2>4 DEF IInv, Store!vars
  <1>2. CASE handle = None /\ entry = NoInode /\ FreeInodes # {} /\ entry' = NewInode /\ wpc' = "header" /\ UNCHANGED handle
    <2>1. entry' \in Inode /\ entry' # NoInode
      BY Zenon, <1>2, RegionFileAssumption DEF NewInode, FreeInodes
    <2>2. /\ tried = {} /\ acked = Visible /\ entryDisk = NoInode
          /\ file[entry'] = EmptyFile /\ disk[entry'] = EmptyFile
      BY Zenon, <1>inv, <1>2, <2>1 DEF Unopened
    <2>4. Visible' = Visible
      BY Zenon, <1>0, <1>2, <2>1, <2>2, EmptyFileBlank, ContentsNone DEF Visible
    <2>5. FileSound(EmptyFile, EmptyFile) /\ Apart(EmptyFile)
      BY Zenon, EmptyFileBlank, BlankShows
    <2>6. Types' /\ Stages'
      BY Zenon, <1>inv, <1>0, <1>2, <2>1 DEF Types, Stages, Places, Creating, Saving
    <2>7. Unopened'
      BY Zenon, <1>0, <1>2, <2>1, <2>2, <2>4, <2>5, EmptyFileBlank DEF Unopened, PowerFails
    <2>8. InHand' /\ InPlace'
      BY Zenon, <1>0, <1>2, <2>2, <2>5, RegionFileAssumption DEF InHand, InPlace
    <2>9. SaveInv' /\ TempInv'
      BY Zenon, <1>0, <1>2 DEF SaveInv, TempInv, Saving, Compacting
    <2> QED
      BY Zenon, <1>0, <2>4, <2>6, <2>7, <2>8, <2>9 DEF IInv, Store!vars
  <1>3. CASE handle = None /\ entry # NoInode /\ file[entry].len = "empty" /\ wpc' = "header" /\ UNCHANGED <<handle, entry>>
    <2>1. Visible' = Visible
      BY Zenon, <1>0, <1>3 DEF Visible
    <2>2. Types' /\ Stages'
      BY Zenon, <1>inv, <1>0, <1>3 DEF Types, Stages, Places, Creating, Saving
    <2>3. Unopened'
      BY Zenon, <1>inv, <1>0, <1>3, <2>1 DEF Unopened, PowerFails
    <2>4. InHand' /\ InPlace'
      BY Zenon, <1>inv, <1>0, <1>3 DEF InHand, InPlace
    <2>5. SaveInv' /\ TempInv'
      BY Zenon, <1>0, <1>3 DEF SaveInv, TempInv, Saving, Compacting
    <2> QED
      BY Zenon, <1>0, <2>1, <2>2, <2>3, <2>4, <2>5 DEF IInv, Store!vars
  <1>4. CASE /\ handle = None /\ entry # NoInode /\ Openable(file[entry])
             /\ handle' = Opened(entry) /\ wpc' = "append" /\ UNCHANGED entry
    <2>0. Visible' = Visible /\ entry \in Inode
      BY Zenon, <1>inv, <1>0, <1>4 DEF Visible, Types
    <2>1. /\ handle' \in Handles /\ handle' # None /\ handle'.inode = entry
          /\ file[entry].page[handle'.active] = Page(handle'.gen, handle'.idx)
          /\ Kept(file[entry], handle'.active, acked, tried)
          /\ disk[entry] = file[entry] => KeptOnDisk(file[entry], disk[entry], handle'.active, tried)
      BY Zenon, <1>4, <2>0, OpeningKeeps
    <2>2. PowerFails => disk[entry] = file[entry] /\ entryDisk = entry
      BY Zenon, <1>inv, <1>0, <1>4 DEF Unopened, Openable
    <2>3. Types' /\ Stages' /\ Unopened'
      BY Zenon, <1>inv, <1>0, <1>4, <2>0, <2>1 DEF Types, Stages, Unopened, Places, Creating, Saving
    <2>4. InHand' /\ InPlace'
      BY Zenon, <1>inv, <1>0, <1>4, <2>1, <2>2 DEF InHand, InPlace, PowerFails
    <2>5. SaveInv' /\ TempInv'
      BY Zenon, <1>0, <1>4 DEF SaveInv, TempInv, Saving, Compacting
    <2> QED
      BY Zenon, <1>0, <2>0, <2>3, <2>4, <2>5 DEF IInv, Store!vars
  <1> QED
    BY Zenon, <1>1, <1>2, <1>3, <1>4 DEF SaveSnapshot

LEMMA BlankContents ==
    ASSUME NEW F \in [Inode -> Files], NEW e \in Inode, Blank(F[e])
    PROVE  Contents(F, e) = [c \in Chunk |-> None]
  <1>1. F[e] \in Files /\ e # NoInode
    BY Zenon, RegionFileAssumption
  <1>2. CASE Openable(F[e])
    BY Zenon, <1>1, <1>2, BlankShows, ContentsShown
  <1>3. CASE ~Openable(F[e])
    BY Zenon, <1>3, ContentsNone
  <1> QED
    BY Zenon, <1>2, <1>3

(* initialize_region: nothing is readable or durable before it is over, and a
   failure on the way leaves a file that shows nothing. *)
LEMMA InitializingKeeps ==
    ASSUME IInv, wpc \in Creating, wpc' \in {"idle"} \cup Creating,
           UNCHANGED <<handle, entry, entryDisk, load, acked, tried, faults>>,
           wpc' \in Creating => job' = job,
           temp' \in Inode \cup {NoInode},
           file' \in [Inode -> Files], disk' \in [Inode -> Files],
           \A i \in Inode \ {entry} : file'[i] = file[i] /\ disk'[i] = disk[i],
           Blank(file'[entry]), Blank(disk'[entry]),
           wpc' = "pages" => file'[entry].len = "bad",
           wpc' \in {"initsync", "createdir"} => file'[entry].len = "full" /\ file'[entry].page = FreshPages,
           wpc' = "createdir" => disk'[entry] = file'[entry],
           wpc' = "idle" => file'[entry].len # "full" \/ "entry" \in faults
    PROVE  IInv' /\ UNCHANGED Store!vars
  <1>inv. Types /\ Stages /\ Unopened /\ InHand /\ InPlace /\ SaveInv /\ TempInv
    BY Zenon DEF IInv
  <1>1. handle = None /\ handle' = None /\ entry \in Inode /\ entry # NoInode
    BY Zenon, <1>inv, RegionFileAssumption DEF Stages
  <1>2. /\ tried = {} /\ acked = Visible /\ Blank(file[entry]) /\ Blank(disk[entry])
        /\ PowerFails => entryDisk \in {entry, NoInode}
        /\ file \in [Inode -> Files] /\ ~({"entry", "crash"} \subseteq faults)
    BY Zenon, <1>inv, <1>1 DEF Unopened, Types, Creating
  <1>3. Visible' = Visible
    BY Zenon, <1>1, <1>2, BlankContents DEF Visible
  <1>4. FileSound(file'[entry], disk'[entry]) /\ Apart(file'[entry])
    BY Zenon, <1>1, BlankShows
  <1>5. Types' /\ Stages'
    BY Zenon, <1>inv, <1>1 DEF Types, Stages, Places, Creating, Saving
  <1>6. PowerFails /\ wpc' = "idle" => file'[entry].len # "full"
    BY Zenon, <1>2 DEF PowerFails
  <1>7. Unopened'
    BY Zenon, <1>1, <1>2, <1>3, <1>4, <1>6 DEF Unopened, PowerFails
  <1>8. InHand' /\ InPlace'
    BY Zenon, <1>inv, <1>1, <1>4 DEF InHand, InPlace
  <1>9. SaveInv' /\ TempInv'
    BY Zenon DEF SaveInv, TempInv, Saving, Compacting, Creating
  <1> QED
    BY Zenon, <1>3, <1>5, <1>7, <1>8, <1>9 DEF IInv, Store!vars

LEMMA CreateKeeps ==
    ASSUME IInv, Create, UNCHANGED faults
    PROVE  IInv' /\ UNCHANGED Store!vars
  <1>inv. Types /\ Stages /\ Unopened /\ InHand /\ InPlace /\ SaveInv /\ TempInv
    BY Zenon DEF IInv
  <1>0. /\ wpc \in Creating => handle = None /\ entry \in Inode /\ entry # NoInode
        /\ file \in [Inode -> Files] /\ disk \in [Inode -> Files] /\ NoInode \in Inode \cup {NoInode}
        /\ temp \in Inode \cup {NoInode}
    BY Zenon, <1>inv, RegionFileAssumption DEF Stages, Types
  <1>1. wpc \in Creating => Blank(file[entry]) /\ Blank(disk[entry])
    BY Zenon, <1>inv, <1>0 DEF Unopened, Creating
  <1>2. CASE WriteHeader
    <2>1. /\ wpc = "header" /\ file' = [file EXCEPT ![entry] = [file[entry] EXCEPT !.len = "bad"]]
          /\ disk' = disk /\ wpc' \in {"pages", "idle"}
          /\ UNCHANGED <<handle, entry, entryDisk, load, acked, tried>>
          /\ wpc' = "pages" => job' = job
          /\ temp' \in {temp, NoInode}
      BY Zenon, <1>2 DEF WriteHeader, SetFile, Fail
    <2>2. entry \in Inode /\ Blank(file[entry]) /\ Blank(disk[entry])
      BY Zenon, <1>0, <1>1, <2>1 DEF Creating
    <2>3. [file[entry] EXCEPT !.len = "bad"] \in Files
      BY Zenon, <1>0, <2>2 DEF Files
    <2>4. file'[entry] = [file[entry] EXCEPT !.len = "bad"] /\ file' \in [Inode -> Files]
      BY Zenon, <1>0, <2>1, <2>2, <2>3
    <2>5. Blank(file'[entry]) /\ file'[entry].len = "bad"
      BY <1>0, <2>2, <2>4 DEF Blank, Files
    <2> QED
      BY Zenon, <1>0, <2>1, <2>2, <2>4, <2>5, InitializingKeeps DEF Creating
  <1>3. CASE WritePages
    <2> DEFINE g == [len |-> "full", recs |-> <<>>, page |-> <<Page(1, EmptyIndex), Page(0, EmptyIndex)>>]
    <2>1. /\ wpc = "pages" /\ disk' = disk /\ UNCHANGED <<handle, entry, entryDisk, load, acked, tried>>
          /\ temp' \in {temp, NoInode}
          /\ \/ file' = [file EXCEPT ![entry] = g] /\ wpc' = "initsync" /\ job' = job
             \/ file' = file /\ wpc' = "idle"
      BY Zenon, <1>3 DEF WritePages, SetFile, Fail
    <2>2. entry \in Inode /\ Blank(file[entry]) /\ Blank(disk[entry])
      BY Zenon, <1>0, <1>1, <2>1 DEF Creating
    <2>3. g \in Files /\ Blank(g) /\ g.len = "full" /\ g.page = FreshPages
      <3>1. Page(1, EmptyIndex) \in Pages /\ Page(0, EmptyIndex) \in Pages
        <4>1. 0 \in 0 .. MaxGen /\ 1 \in 0 .. MaxGen /\ EmptyIndex \in Indices
          BY RegionFileAssumption DEF EmptyIndex, Indices
        <4> QED
          BY Zenon, <4>1, PageType
      <3>2. <<>> \in Tapes
        BY RegionFileAssumption DEF Tapes
      <3> QED
        BY <3>1, <3>2 DEF Files, Blank, FreshPages
    <2> HIDE DEF g
    <2>4. CASE file' = [file EXCEPT ![entry] = g] /\ wpc' = "initsync" /\ job' = job
      <3>1. file'[entry] = g /\ file' \in [Inode -> Files]
        BY Zenon, <1>0, <2>2, <2>3, <2>4
      <3> QED
        BY Zenon, <1>0, <2>1, <2>2, <2>3, <2>4, <3>1, InitializingKeeps DEF Creating
    <2>5. CASE file' = file /\ wpc' = "idle"
      <3>1. file[entry].len # "full"
        BY Zenon, <1>inv, <1>0, <2>1, <2>2 DEF Unopened, Creating
      <3> QED
        BY Zenon, <1>0, <2>1, <2>2, <2>5, <3>1, InitializingKeeps DEF Creating
    <2> QED
      BY Zenon, <2>1, <2>4, <2>5
  <1>4. CASE SyncInit
    <2>1. /\ wpc = "initsync" /\ file' = file /\ UNCHANGED <<handle, entry, entryDisk, load, acked, tried>>
          /\ temp' \in {temp, NoInode}
          /\ \/ disk' = [disk EXCEPT ![entry] = file[entry]] /\ wpc' = "createdir" /\ job' = job
             \/ disk' = disk /\ wpc' = "idle" /\ "entry" \in faults
      BY Zenon, <1>4 DEF SyncInit, Fail
    <2>2. /\ entry \in Inode /\ Blank(file[entry]) /\ Blank(disk[entry])
          /\ file[entry].len = "full" /\ file[entry].page = FreshPages
      BY Zenon, <1>inv, <1>0, <1>1, <2>1 DEF Creating, Unopened
    <2>3. disk' \in [Inode -> Files] /\ Blank(disk'[entry]) /\ (wpc' = "createdir" => disk'[entry] = file'[entry])
      BY Zenon, <1>0, <2>1, <2>2
    <2> QED
      BY Zenon, <1>0, <2>1, <2>2, <2>3, InitializingKeeps DEF Creating
  <1>5. CASE SyncCreatedEntry /\ wpc' = "idle"
    <2>1. /\ wpc = "createdir" /\ UNCHANGED <<handle, file, disk, entry, entryDisk, load, acked, tried>>
          /\ temp' \in {temp, NoInode} /\ "entry" \in faults
      BY Zenon, <1>5 DEF SyncCreatedEntry, Fail
    <2>2. entry \in Inode /\ Blank(file[entry]) /\ Blank(disk[entry])
      BY Zenon, <1>0, <1>1, <2>1 DEF Creating
    <2> QED
      BY Zenon, <1>0, <1>5, <2>1, <2>2, InitializingKeeps DEF Creating
  <1>6. CASE SyncCreatedEntry /\ wpc' # "idle"
    <2>1. /\ wpc = "createdir" /\ wpc' = "append" /\ UNCHANGED <<file, disk, entry, job, temp, load, acked, tried>>
          /\ entryDisk' = entry /\ handle' = Opened(entry)
      BY Zenon, <1>6 DEF SyncCreatedEntry, Fail
    <2>2. /\ handle = None /\ entry \in Inode /\ entry # NoInode
          /\ disk[entry] = file[entry] /\ file[entry].len = "full" /\ file[entry].page = FreshPages
      BY Zenon, <1>inv, <1>0, <2>1 DEF Creating, Unopened
    <2>3. Openable(file[entry])
      <3>1. file[entry].page[1] = Page(1, EmptyIndex) /\ Page(1, EmptyIndex) # Torn
        <4>1. 1 \in 0 .. MaxGen /\ EmptyIndex \in Indices
          BY RegionFileAssumption DEF EmptyIndex, Indices
        <4> QED
          BY <2>2, <4>1, PageType DEF FreshPages
      <3> QED
        BY <2>2, <3>1 DEF Openable
    <2>4. /\ handle' \in Handles /\ handle' # None /\ handle'.inode = entry
          /\ file[entry].page[handle'.active] = Page(handle'.gen, handle'.idx)
          /\ Kept(file[entry], handle'.active, acked, tried)
          /\ KeptOnDisk(file[entry], disk[entry], handle'.active, tried)
      BY Zenon, <2>1, <2>2, <2>3, OpeningKeeps
    <2>5. Visible' = Visible
      BY Zenon, <2>1 DEF Visible
    <2>6. Types' /\ Stages' /\ Unopened'
      BY Zenon, <1>inv, <2>1, <2>2, <2>4, <2>5 DEF Types, Stages, Unopened, Places, Creating, Saving
    <2>7. InHand' /\ InPlace'
      BY Zenon, <1>inv, <2>1, <2>2, <2>4 DEF InHand, InPlace, PowerFails
    <2>8. SaveInv' /\ TempInv'
      BY Zenon, <2>1 DEF SaveInv, TempInv, Saving, Compacting
    <2> QED
      BY Zenon, <2>1, <2>5, <2>6, <2>7, <2>8 DEF IInv, Store!vars
  <1> QED
    BY Zenon, <1>2, <1>3, <1>4, <1>5, <1>6 DEF Create

-----------------------------------------------------------------------------
(* Compactions. *)

(* compact_region copies what the open file's index names, and nothing else:
   through its pages the copy shows the same. *)
LEMMA CompactedFile ==
    ASSUME NEW h \in Handles, file[h.inode] \in Files, h.gen < MaxGen,
           Sound(file[h.inode].recs, Page(h.gen, h.idx)),
           Len(file[h.inode].recs) > Cardinality(Indexed(h.idx))
    PROVE  LET g == Compacted(h)
           IN  /\ g \in Files /\ g.len = "full" /\ g.page[1] # Torn /\ g.page[2] # Torn
               /\ g.page[1].gen = h.gen + 1 /\ g.page[2].gen = h.gen
               /\ Sound(g.recs, g.page[1]) /\ Sound(g.recs, g.page[2])
               /\ Shown(g.recs, g.page[1]) = Shown(file[h.inode].recs, Page(h.gen, h.idx))
  <1> DEFINE r == file[h.inode].recs
             I == Indexed(h.idx)
             N == Cardinality(I)
             Lists(s) == \A c \in I : \E n \in DOMAIN s : s[n] = c
             order == CHOOSE s \in [1 .. N -> I] : Lists(s)
             idx == [c \in Chunk |-> IF h.idx[c] = 0 THEN 0 ELSE CHOOSE n \in DOMAIN order : order[n] = c]
             copy == [n \in DOMAIN order |-> r[h.idx[order[n]]]]
             g == Compacted(h)
  <1>1. g = [len |-> "full", page |-> <<Page(h.gen + 1, idx), Page(h.gen, idx)>>, recs |-> copy]
    BY Zenon DEF Compacted
  <1>2. I \in SUBSET Chunk /\ \A c \in Chunk : c \in I <=> h.idx[c] # 0
    BY Zenon DEF Indexed
  <1>3. N \in Nat /\ order \in [1 .. N -> I] /\ Lists(order)
    BY Zenon, <1>2, SlotsAssumption
  <1>4. /\ r \in Tapes /\ Len(r) \in Nat /\ N <= MaxRecs /\ r \in Seq(Records \cup {Torn})
        /\ h.gen \in 0 .. MaxGen /\ h.gen + 1 \in 0 .. MaxGen /\ h.idx \in Indices
    BY <1>3, FileType, RegionFileAssumption DEF Tapes, Handles
  <1>5. Page(h.gen, h.idx) # Torn /\ Page(h.gen, h.idx).idx = h.idx
    BY Zenon, <1>4, PageType
  <1>6. \A c \in I : h.idx[c] \in 1 .. Len(r) /\ r[h.idx[c]] # Torn /\ r[h.idx[c]] \in Records /\ r[h.idx[c]].pos = c
    <2> SUFFICES ASSUME NEW c \in I
                 PROVE  h.idx[c] \in 1 .. Len(r) /\ r[h.idx[c]] # Torn /\ r[h.idx[c]] \in Records /\ r[h.idx[c]].pos = c
      BY Zenon
    <2>1. c \in Chunk /\ h.idx[c] # 0 /\ h.idx[c] \in Nat
      BY <1>2, <1>4, RegionFileAssumption DEF Indices
    <2>2. Whole(r, h.idx[c], c)
      BY Zenon, <1>5, <2>1 DEF Sound
    <2> QED
      BY <1>4, <2>1, <2>2 DEF Whole
  <1> HIDE DEF order, I, N, r
  <1>7. DOMAIN order = 1 .. N
    BY Zenon, <1>3
  <1>8. copy \in Tapes /\ Len(copy) = N
    <2>1. \A n \in 1 .. N : r[h.idx[order[n]]] \in Records \cup {Torn}
      BY Zenon, <1>3, <1>6
    <2>2. copy \in [1 .. N -> Records \cup {Torn}]
      BY Zenon, <1>7, <2>1
    <2> HIDE DEF copy
    <2>3. copy \in Seq(Records \cup {Torn}) /\ Len(copy) = N
      BY <1>3, <2>2
    <2> QED
      BY Zenon, <1>4, <2>3 DEF Tapes
  <1>9. ASSUME NEW c \in I
        PROVE  idx[c] \in 1 .. N /\ order[idx[c]] = c /\ copy[idx[c]] = r[h.idx[c]]
    <2>1. PICK n \in 1 .. N : order[n] = c
      BY Zenon, <1>3, <1>7
    <2>2. idx[c] = CHOOSE m \in 1 .. N : order[m] = c
      BY Zenon, <1>2, <1>7
    <2> HIDE DEF idx
    <2>3. idx[c] \in 1 .. N /\ order[idx[c]] = c
      BY Zenon, <2>1, <2>2
    <2> QED
      BY Zenon, <1>7, <2>3
  <1>10. \A c \in Chunk \ I : idx[c] = 0
    BY Zenon, <1>2
  <1> HIDE DEF idx, copy, g
  <1>11. idx \in Indices
    <2>1. idx = [c \in Chunk |-> idx[c]]
      BY DEF idx
    <2>2. \A c \in Chunk : idx[c] \in 0 .. MaxRecs
      BY <1>3, <1>4, <1>9, <1>10, RegionFileAssumption
    <2> QED
      BY Zenon, <2>1, <2>2 DEF Indices
  <1>12. /\ Page(h.gen + 1, idx) \in Pages /\ Page(h.gen + 1, idx) # Torn
         /\ Page(h.gen + 1, idx).gen = h.gen + 1 /\ Page(h.gen + 1, idx).idx = idx
         /\ Page(h.gen, idx) \in Pages /\ Page(h.gen, idx) # Torn
         /\ Page(h.gen, idx).gen = h.gen /\ Page(h.gen, idx).idx = idx
    BY Zenon, <1>4, <1>11, PageType
  <1>13. g.recs = copy /\ g.len = "full" /\ g.page[1] = Page(h.gen + 1, idx) /\ g.page[2] = Page(h.gen, idx)
    BY Zenon, <1>1
  <1>14. g \in Files
    BY <1>1, <1>8, <1>12 DEF Files
  <1>15. \A c \in Chunk : idx[c] # 0 => Whole(copy, idx[c], c)
    BY <1>3, <1>6, <1>8, <1>9, <1>10 DEF Whole
  <1>16. Sound(copy, Page(h.gen + 1, idx)) /\ Sound(copy, Page(h.gen, idx))
    BY Zenon, <1>12, <1>15 DEF Sound
  <1>17. Shown(copy, Page(h.gen + 1, idx)) = Shown(r, Page(h.gen, h.idx))
    <2>1. \A c \in Chunk : (IF idx[c] = 0 THEN None ELSE copy[idx[c]].val)
                             = (IF h.idx[c] = 0 THEN None ELSE r[h.idx[c]].val)
      BY <1>2, <1>3, <1>9, <1>10
    <2> QED
      BY Zenon, <1>5, <1>12, <2>1 DEF Shown
  <1> QED
    BY Zenon, <1>12, <1>13, <1>14, <1>16, <1>17 DEF g, r

(* What is left to show for a step of a compaction that leaves the path alone. *)
LEMMA CompactFrame ==
    ASSUME IInv, UNCHANGED <<entry, entryDisk, load, acked, tried, faults>>, entry \in Inode,
           file' \in [Inode -> Files], disk' \in [Inode -> Files],
           \A i \in {entry, entryDisk} \cap Inode : file'[i] = file[i] /\ disk'[i] = disk[i],
           handle' \in Handles, handle'.inode = entry, wpc # "renamedir",
           wpc' \in {"idle", "tempsync", "rename"}, temp' \in Inode \cup {NoInode},
           file[entry].page[handle'.active] = Page(handle'.gen, handle'.idx),
           Kept(file[entry], handle'.active, acked, tried),
           PowerFails => KeptOnDisk(file[entry], disk[entry], handle'.active, tried) /\ entryDisk = entry,
           TempInv'
    PROVE  IInv' /\ UNCHANGED Store!vars
  <1>inv. Types /\ Stages /\ Unopened /\ InHand /\ InPlace /\ SaveInv /\ TempInv
    BY Zenon DEF IInv
  <1>1. handle' # None /\ entry # NoInode /\ file'[entry] = file[entry] /\ disk'[entry] = disk[entry]
    BY Zenon, RegionFileAssumption
  <1>2. Types' /\ Stages' /\ Unopened'
    BY Zenon, <1>inv, <1>1 DEF Types, Stages, Unopened, Places, Saving, Creating
  <1>3. InHand' /\ InPlace'
    BY Zenon, <1>inv, <1>1 DEF InHand, InPlace, PowerFails
  <1>4. SaveInv'
    BY Zenon DEF SaveInv, Saving
  <1>5. Visible' = Visible
    BY <1>1, ContentsLocal DEF Visible
  <1> QED
    BY Zenon, <1>2, <1>3, <1>4, <1>5 DEF IInv, Store!vars

(* The open file of a worker that is not in the middle of a save. *)
LEMMA InHandIdle ==
    ASSUME IInv, handle # None, wpc # "renamedir"
    PROVE  /\ handle \in Handles /\ handle.inode = entry /\ entry \in Inode
           /\ file[entry].page[handle.active] = Page(handle.gen, handle.idx)
           /\ Kept(file[entry], handle.active, acked, tried)
           /\ PowerFails => KeptOnDisk(file[entry], disk[entry], handle.active, tried) /\ entryDisk = entry
  <1>inv. Types /\ Stages /\ Unopened /\ InHand /\ InPlace /\ SaveInv /\ TempInv
    BY Zenon DEF IInv
  <1> QED
    BY Zenon, <1>inv DEF Types, Stages, InHand

LEMMA CompactRegionKeeps ==
    ASSUME IInv, CompactRegion, UNCHANGED faults
    PROVE  IInv' /\ UNCHANGED Store!vars
  <1>inv. Types /\ Stages /\ Unopened /\ InHand /\ InPlace /\ SaveInv /\ TempInv
    BY Zenon DEF IInv
  <1> DEFINE h == handle'
             f == file[entry]
  <1>1. /\ wpc = "idle" /\ UNCHANGED <<entry, entryDisk, load, acked, tried>> /\ h.gen < MaxGen
        /\ handle # None \/ (entry # NoInode /\ Openable(file[entry]))
        /\ h = IF handle # None THEN handle ELSE Opened(entry)
    BY Zenon DEF CompactRegion
  <1>2. file \in [Inode -> Files] /\ disk \in [Inode -> Files] /\ temp \in Inode \cup {NoInode}
    BY Zenon, <1>inv DEF Types
  <1>3. /\ h \in Handles /\ h.inode = entry /\ entry \in Inode
        /\ f.page[h.active] = Page(h.gen, h.idx) /\ Kept(f, h.active, acked, tried)
        /\ PowerFails => KeptOnDisk(f, disk[entry], h.active, tried) /\ entryDisk = entry
    <2>1. CASE handle # None
      BY Zenon, <1>1, <2>1, InHandIdle
    <2>2. CASE handle = None
      <3>1. entry \in Inode /\ Openable(f) /\ h = Opened(entry)
        BY Zenon, <1>inv, <1>1, <2>2 DEF Types
      <3>2. PowerFails => disk[entry] = f /\ entryDisk = entry
        BY Zenon, <1>inv, <1>1, <2>2, <3>1 DEF Unopened, Openable
      <3> QED
        BY Zenon, <2>2, <3>1, <3>2, OpeningKeeps
    <2> QED
      BY Zenon, <2>1, <2>2
  <1> HIDE DEF h
  <1>4. CASE UNCHANGED <<file, disk, wpc, temp>>
    <2>1. TempInv'
      BY Zenon, <1>1, <1>4 DEF TempInv, Compacting
    <2> QED
      BY Zenon, <1>1, <1>2, <1>3, <1>4, <2>1, CompactFrame DEF h
  <1>5. CASE /\ Len(file[h.inode].recs) > Cardinality(Indexed(h.idx))
             /\ FreeInodes # {} /\ temp' = NewInode /\ file' = [file EXCEPT ![temp'] = Compacted(h)]
             /\ wpc' = "tempsync" /\ disk' = disk
    <2> DEFINE g == Compacted(h)
    <2>1. Sound(f.recs, Page(h.gen, h.idx))
      <3>1. f \in Files /\ disk[entry] \in Files /\ FileSound(f, disk[entry]) /\ h.active \in 1 .. 2
        BY Zenon, <1>inv, <1>2, <1>3 DEF InPlace, Handles
      <3> QED
        BY Zenon, <1>3, <3>1, FileType, SoundLonger DEF FileSound, Kept
    <2>2. /\ g \in Files /\ g.len = "full" /\ g.page[1] # Torn /\ g.page[2] # Torn
          /\ g.page[1].gen = h.gen + 1 /\ g.page[2].gen = h.gen
          /\ Sound(g.recs, g.page[1]) /\ Sound(g.recs, g.page[2])
          /\ Shown(g.recs, g.page[1]) = acked
      BY Zenon, <1>1, <1>2, <1>3, <1>5, <2>1, CompactedFile DEF Kept
    <2> HIDE DEF g
    <2>3. temp' \in Inode \ {entry, entryDisk} /\ temp' \notin Held
      BY Zenon, <1>5 DEF FreeInodes, NewInode
    <2>4. /\ file' \in [Inode -> Files] /\ file'[temp'] = g
          /\ \A i \in {entry, entryDisk} \cap Inode : file'[i] = file[i]
      BY Zenon, <1>2, <1>5, <2>2, <2>3 DEF g
    <2>5. TempInv'
      BY Zenon, <1>1, <1>5, <2>2, <2>3, <2>4 DEF TempInv, Held, Reading, h
    <2> QED
      BY Zenon, <1>1, <1>2, <1>3, <1>5, <2>3, <2>4, <2>5, CompactFrame DEF h
  <1> QED
    BY Zenon, <1>4, <1>5 DEF CompactRegion, SetFile, h

LEMMA SyncTempKeeps ==
    ASSUME IInv, SyncTemp, UNCHANGED faults
    PROVE  IInv' /\ UNCHANGED Store!vars
  <1>inv. Types /\ Stages /\ Unopened /\ InHand /\ InPlace /\ SaveInv /\ TempInv
    BY Zenon DEF IInv
  <1>1. /\ wpc = "tempsync" /\ UNCHANGED <<entry, entryDisk, handle, load, acked, tried>>
        /\ \/ disk' = [disk EXCEPT ![temp] = file[temp]] /\ wpc' = "rename" /\ UNCHANGED <<file, temp>>
           \/ file' = [file EXCEPT ![temp] = EmptyFile] /\ wpc' = "idle" /\ disk' = disk /\ temp' = NoInode
    BY Zenon DEF SyncTemp, Fail, SetFile
  <1>2. /\ file \in [Inode -> Files] /\ disk \in [Inode -> Files] /\ handle # None
        /\ temp \in Inode \ {entry, entryDisk} /\ file[temp] \in Files
    BY Zenon, <1>inv, <1>1 DEF Types, Stages, TempInv, Creating, Compacting
  <1>3. /\ file' \in [Inode -> Files] /\ disk' \in [Inode -> Files]
        /\ \A i \in {entry, entryDisk} \cap Inode : file'[i] = file[i] /\ disk'[i] = disk[i]
        /\ wpc' = "rename" => disk'[temp] = file[temp]
    BY Zenon, <1>1, <1>2, EmptyFileBlank
  <1>4. TempInv'
    <2>1. CASE wpc' = "idle"
      BY Zenon, <2>1 DEF TempInv, Compacting
    <2>2. CASE wpc' = "rename"
      BY <1>inv, <1>1, <1>3, <2>2 DEF TempInv, Compacting, Held, Reading
    <2> QED
      BY Zenon, <1>1, <2>1, <2>2
  <1> QED
    BY Zenon, <1>1, <1>2, <1>3, <1>4, InHandIdle, CompactFrame

(* The copy takes the place of the file: readers find the acknowledged state,
   and a crash finds it in whichever of the two the directory still names. *)
LEMMA RenameKeeps ==
    ASSUME IInv, Rename, UNCHANGED faults
    PROVE  IInv' /\ Store!Revert
  <1>inv. Types /\ Stages /\ Unopened /\ InHand /\ InPlace /\ SaveInv /\ TempInv
    BY Zenon DEF IInv
  <1>1. /\ wpc = "rename" /\ wpc' = "renamedir" /\ entry' = temp /\ handle' = Opened(temp) /\ temp' = NoInode
        /\ UNCHANGED <<file, disk, entryDisk, load, acked, tried>>
    BY Zenon DEF Rename
  <1> DEFINE f == file[temp]
  <1>2. /\ handle # None /\ temp \in Inode /\ temp # NoInode /\ f \in Files /\ disk[temp] = f
        /\ f.len = "full" /\ f.page[1] # Torn /\ f.page[2] # Torn
        /\ f.page[1].gen = handle.gen + 1 /\ f.page[2].gen = handle.gen
        /\ Sound(f.recs, f.page[1]) /\ Sound(f.recs, f.page[2]) /\ Shown(f.recs, f.page[1]) = acked
    BY Zenon, <1>inv, <1>1, RegionFileAssumption DEF Types, Stages, TempInv, Creating, Compacting
  <1>3. /\ f.page[1] \in Pages /\ f.page \in [1 .. 2 -> Pages \cup {Torn}]
        /\ f.page[2].gen < f.page[1].gen /\ f.page[2].gen # f.page[1].gen
    <2>1. handle.gen \in Nat
      BY <1>1, <1>2, InHandIdle, RegionFileAssumption DEF Handles
    <2> QED
      BY <1>2, <2>1, FileType
  <1>4. Active(f.page) = 1 /\ Openable(f)
    BY <1>2, <1>3, ActivePage DEF Openable
  <1>5. /\ handle' = [inode |-> temp, active |-> 1, gen |-> f.page[1].gen, idx |-> f.page[1].idx]
        /\ handle' \in Handles /\ handle' # None /\ f.page[1] = Page(handle'.gen, handle'.idx)
    <2>1. handle' = [inode |-> temp, active |-> 1, gen |-> f.page[1].gen, idx |-> f.page[1].idx]
      BY Zenon, <1>1, <1>4 DEF Opened
    <2> QED
      BY <1>2, <1>3, <2>1, RegionFileAssumption DEF Handles, Pages, Page
  <1>6. Kept(f, 1, acked, tried) /\ KeptOnDisk(f, f, 1, tried)
    <2>1. Rival(f.recs, f.page[1], f.page[2], tried)
      BY <1>2, <1>3, RegionFileAssumption DEF Rival, Pages
    <2> QED
      BY <1>2, <2>1 DEF Kept, KeptOnDisk
  <1>7. FileSound(f, f)
    <2>1. \A k \in 1 .. 2 : Sound(f.recs, f.page[k])
      BY <1>2
    <2> QED
      BY Zenon, <1>2, <2>1, FileType, LongerItself DEF FileSound
  <1>8. Visible' = acked
    BY Zenon, <1>1, <1>2, <1>4, ContentsShown DEF Visible
  <1>9. Types' /\ Stages' /\ Unopened'
    <2>1. Types'
      BY Zenon, <1>inv, <1>1, <1>2, <1>5 DEF Types, Places
    <2>2. Stages'
      BY <1>1, <1>2, <1>5 DEF Stages, Saving, Creating
    <2> QED
      BY Zenon, <1>5, <2>1, <2>2 DEF Unopened
  <1>10. InHand'
    <2>1. /\ handle \in Handles /\ entry \in Inode /\ handle.active \in 1 .. 2
          /\ Kept(file[entry], handle.active, acked, tried)
          /\ PowerFails => KeptOnDisk(file[entry], disk[entry], handle.active, tried) /\ entryDisk = entry
      BY Zenon, <1>1, <1>2, InHandIdle DEF Handles
    <2>2. PowerFails => entryDisk \in Inode /\ \E a \in 1 .. 2 :
              Kept(file[entryDisk], a, acked, tried) /\ KeptOnDisk(file[entryDisk], disk[entryDisk], a, tried)
      BY Zenon, <2>1
    <2>3. file'[entry'] = f /\ disk'[entry'] = f /\ handle'.active = 1
      BY <1>1, <1>2, <1>5
    <2> QED
      BY Zenon, <1>1, <1>5, <1>6, <2>2, <2>3 DEF InHand, PowerFails
  <1>11. InPlace'
    BY Zenon, <1>inv, <1>1, <1>2, <1>7 DEF InPlace
  <1>12. SaveInv' /\ TempInv'
    BY Zenon, <1>1 DEF SaveInv, TempInv, Saving, Compacting
  <1> QED
    BY Zenon, <1>1, <1>8, <1>9, <1>10, <1>11, <1>12 DEF IInv, Store!Revert

LEMMA SyncRenamedEntryKeeps ==
    ASSUME IInv, SyncRenamedEntry, UNCHANGED faults
    PROVE  IInv' /\ UNCHANGED Store!vars
  <1>inv. Types /\ Stages /\ Unopened /\ InHand /\ InPlace /\ SaveInv /\ TempInv
    BY Zenon DEF IInv
  <1>1. /\ wpc = "renamedir" /\ wpc' = "idle" /\ UNCHANGED <<entry, handle, load, acked, tried>>
        /\ temp' \in {temp, NoInode}
    BY Zenon DEF SyncRenamedEntry, Fail
  <1>2. /\ handle # None /\ handle \in Handles /\ handle.inode = entry /\ entry \in Inode
        /\ file \in [Inode -> Files] /\ disk \in [Inode -> Files] /\ entryDisk \in Inode \cup {NoInode}
        /\ FileSound(file[entry], disk[entry])
    BY Zenon, <1>inv, <1>1 DEF Types, Stages, InPlace, Creating
  <1>3. /\ file' \in [Inode -> Files] /\ disk' \in [Inode -> Files]
        /\ file'[entry] = file[entry] /\ disk'[entry] = disk[entry]
        /\ \/ entryDisk' = entry
           \/ ~PowerFails /\ UNCHANGED <<file, disk, entryDisk>>
    <2>1. CASE /\ entryDisk' = entry /\ file' = Reclaim(file, {entry} \cup Held)
               /\ disk' = Reclaim(disk, {entry} \cup Held)
      BY Zenon, <1>2, <2>1, EmptyFileBlank DEF Reclaim
    <2>2. CASE Fail("entry") /\ UNCHANGED <<file, disk, entryDisk>>
      BY Zenon, <1>inv, <1>2, <2>2 DEF Fail, PowerFails, Types
    <2> QED
      BY Zenon, <2>1, <2>2 DEF SyncRenamedEntry
  <1>4. Visible' = Visible
    BY <1>1, <1>3, ContentsLocal DEF Visible
  <1>5. Types' /\ Stages' /\ Unopened'
    BY Zenon, <1>inv, <1>1, <1>2, <1>3 DEF Types, Stages, Unopened, Places, Saving, Creating
  <1>6. InHand'
    BY Zenon, <1>inv, <1>1, <1>2, <1>3 DEF InHand, PowerFails
  <1>7. InPlace'
    BY Zenon, <1>inv, <1>1, <1>2, <1>3 DEF InPlace
  <1>8. SaveInv' /\ TempInv'
    BY Zenon, <1>1 DEF SaveInv, TempInv, Saving, Compacting
  <1> QED
    BY Zenon, <1>1, <1>4, <1>5, <1>6, <1>7, <1>8 DEF IInv, Store!vars


-----------------------------------------------------------------------------
(* Commits.  A record at the end of the file changes nothing for its pages. *)
LEMMA Appended ==
    ASSUME NEW r \in Tapes, NEW x \in Records \cup {Torn}, Len(r) < MaxRecs
    PROVE  LET s == Append(r, x)
           IN  s \in Tapes /\ Longer(r, s) /\ Len(s) > 0 /\ s[Len(s)] = x
  BY RegionFileAssumption DEF Tapes, Longer

LEMMA GrownKeeps ==
    ASSUME NEW f \in Files, NEW d \in Files, NEW r \in Tapes, Longer(f.recs, r), FileSound(f, d),
           NEW a \in 1 .. 2, NEW A, NEW T, Kept(f, a, A, T)
    PROVE  LET g == [f EXCEPT !.recs = r]
           IN  /\ g \in Files /\ g.recs = r /\ g.page = f.page /\ FileSound(g, d) /\ Kept(g, a, A, T)
               /\ KeptOnDisk(f, d, a, T) => KeptOnDisk(g, d, a, T)
               /\ \A k \in 1 .. 2 : f.page[k] # Torn => Shown(g.recs, f.page[k]) = Shown(f.recs, f.page[k])
  <1> DEFINE g == [f EXCEPT !.recs = r]
  <1>1. g \in Files /\ g.recs = r /\ g.page = f.page /\ g.len = f.len
    BY Zenon DEF Files
  <1> HIDE DEF g
  <1>2. f.recs \in Tapes /\ d.recs \in Tapes /\ Longer(d.recs, f.recs) /\ 3 - a \in 1 .. 2
    BY FileType DEF FileSound
  <1>3. Longer(d.recs, r)
    BY Zenon, <1>2, LongerTrans
  <1>4. \A k \in 1 .. 2 : /\ f.page[k] # Torn => f.page[k] \in Pages /\ Sound(d.recs, f.page[k])
                          /\ d.page[k] # Torn => d.page[k] \in Pages /\ Sound(d.recs, d.page[k])
    BY Zenon, FileType DEF FileSound
  <1>5. \A k \in 1 .. 2 : /\ f.page[k] # Torn => Shown(r, f.page[k]) = Shown(f.recs, f.page[k])
                          /\ d.page[k] # Torn => Shown(r, d.page[k]) = Shown(f.recs, d.page[k])
    BY Zenon, <1>2, <1>3, <1>4, SoundLonger
  <1>6. FileSound(g, d)
    BY Zenon, <1>1, <1>3 DEF FileSound
  <1>7. Kept(g, a, A, T)
    BY Zenon, <1>1, <1>2, <1>5 DEF Kept, Rival
  <1>8. KeptOnDisk(f, d, a, T) => KeptOnDisk(g, d, a, T)
    BY Zenon, <1>1, <1>2, <1>5 DEF KeptOnDisk, Rival
  <1> QED
    BY Zenon, <1>1, <1>5, <1>6, <1>7, <1>8 DEF g

(* What is left to show for a step of a save. *)
LEMMA CommitFrame ==
    ASSUME IInv, wpc \in Saving, UNCHANGED <<entry, entryDisk, faults>>, DOMAIN load' = Loader,
           file' \in [Inode -> Files], disk' \in [Inode -> Files],
           \A i \in Inode \ {entry} : file'[i] = file[i] /\ disk'[i] = disk[i],
           handle' \in Handles, handle'.inode = entry,
           wpc' \in {"idle"} \cup Saving, wpc' \in Saving => job' \in Records,
           temp' \in Inode \cup {NoInode}, acked' \in [Chunk -> Value \cup {None}],
           file'[entry].page[handle'.active] = Page(handle'.gen, handle'.idx),
           Kept(file'[entry], handle'.active, acked', tried'),
           PowerFails => KeptOnDisk(file'[entry], disk'[entry], handle'.active, tried'),
           FileSound(file'[entry], disk'[entry]), SaveInv'
    PROVE  IInv'
  <1>inv. Types /\ Stages /\ Unopened /\ InHand /\ InPlace /\ SaveInv /\ TempInv
    BY Zenon DEF IInv
  <1>1. handle # None /\ entry \in Inode /\ handle' # None
    BY Zenon, <1>inv, RegionFileAssumption DEF Stages, Saving, Creating
  <1>2. Types' /\ Stages' /\ Unopened'
    BY Zenon, <1>inv, <1>1 DEF Types, Stages, Unopened, Places, Saving, Creating
  <1>3. PowerFails => entryDisk = entry
    BY Zenon, <1>inv, <1>1 DEF InHand, Saving
  <1>4. InHand'
    BY Zenon, <1>1, <1>3 DEF InHand, PowerFails, Saving
  <1>5. InPlace' /\ TempInv'
    BY Zenon, <1>inv, <1>1 DEF InPlace, TempInv, Saving, Compacting
  <1> QED
    BY Zenon, <1>2, <1>4, <1>5 DEF IInv

LEMMA InHandFacts ==
    ASSUME IInv, wpc \in Saving
    PROVE  /\ handle \in Handles /\ handle.inode = entry /\ entry \in Inode /\ entry # NoInode
           /\ handle.active \in 1 .. 2 /\ Inactive \in 1 .. 2 /\ Inactive = 3 - handle.active
           /\ handle.gen \in 0 .. MaxGen /\ handle.idx \in Indices
           /\ file \in [Inode -> Files] /\ disk \in [Inode -> Files]
           /\ file[entry] \in Files /\ disk[entry] \in Files /\ job \in Records
           /\ file[entry].page[handle.active] = Page(handle.gen, handle.idx)
           /\ Kept(file[entry], handle.active, acked, tried)
           /\ PowerFails => KeptOnDisk(file[entry], disk[entry], handle.active, tried)
           /\ FileSound(file[entry], disk[entry])
           /\ acked \in [Chunk -> Value \cup {None}] /\ DOMAIN load = Loader
           /\ temp \in Inode \cup {NoInode} /\ NoInode \in Inode \cup {NoInode}
  <1>inv. Types /\ Stages /\ Unopened /\ InHand /\ InPlace /\ SaveInv /\ TempInv
    BY Zenon DEF IInv
  <1>1. handle # None /\ entry \in Inode /\ handle.inode = entry /\ job \in Records
    BY Zenon, <1>inv DEF Stages, Saving, Creating
  <1>2. handle \in Handles /\ file \in [Inode -> Files] /\ disk \in [Inode -> Files]
    BY Zenon, <1>inv, <1>1 DEF Types
  <1>3. handle.active \in 1 .. 2 /\ handle.gen \in 0 .. MaxGen /\ handle.idx \in Indices
    BY Zenon, <1>2 DEF Handles
  <1>4. FileSound(file[entry], disk[entry])
    BY Zenon, <1>inv, <1>1 DEF InPlace
  <1> QED
    BY <1>inv, <1>1, <1>2, <1>3, <1>4, RegionFileAssumption DEF Types, InHand, Inactive

LEMMA AppendRecordKeeps ==
    ASSUME IInv, AppendRecord, UNCHANGED faults
    PROVE  IInv' /\ UNCHANGED Store!vars
  <1>1. PICK x \in {job, Torn} :
            /\ wpc = "append" /\ Len(file[handle.inode].recs) < MaxRecs /\ handle.gen < MaxGen
            /\ file' = [file EXCEPT ![handle.inode] = [file[handle.inode] EXCEPT !.recs = Append(@, x)]]
            /\ UNCHANGED <<disk, entry, entryDisk, handle, load, acked, tried>>
            /\ temp' \in {temp, NoInode}
            /\ wpc' = "idle" \/ (wpc' = "recsync" /\ x = job /\ job' = job)
    BY Zenon DEF AppendRecord, SetFile, Fail
  <1>2. wpc \in Saving
    BY Zenon, <1>1 DEF Saving
  <1> DEFINE f == file[entry]
             r == Append(f.recs, x)
             g == [f EXCEPT !.recs = r]
  <1>3. r \in Tapes /\ Longer(f.recs, r) /\ Len(r) > 0 /\ r[Len(r)] = x
    BY <1>1, <1>2, InHandFacts, FileType, Appended
  <1>4. /\ g \in Files /\ g.recs = r /\ g.page = f.page /\ FileSound(g, disk[entry])
        /\ Kept(g, handle.active, acked, tried)
        /\ KeptOnDisk(f, disk[entry], handle.active, tried) => KeptOnDisk(g, disk[entry], handle.active, tried)
        /\ \A k \in 1 .. 2 : f.page[k] # Torn => Shown(g.recs, f.page[k]) = Shown(f.recs, f.page[k])
    <2>1. /\ f \in Files /\ disk[entry] \in Files /\ FileSound(f, disk[entry]) /\ handle.active \in 1 .. 2
          /\ Kept(f, handle.active, acked, tried)
      BY Zenon, <1>2, InHandFacts
    <2> HIDE DEF r, f
    <2> QED
      BY <1>3, <2>1, GrownKeeps
  <1>5. file' = [file EXCEPT ![entry] = g] /\ f = file[entry]
    BY Zenon, <1>1, <1>2, InHandFacts
  <1> HIDE DEF g, r, f
  <1>6. file'[entry] = g /\ file' \in [Inode -> Files] /\ \A i \in Inode \ {entry} : file'[i] = file[i]
    BY Zenon, <1>2, <1>4, <1>5, InHandFacts
  <1>7. SaveInv'
    BY Zenon, <1>1, <1>2, <1>3, <1>4, <1>6, InHandFacts DEF SaveInv, Saving
  <1>8. IInv'
    BY Zenon, <1>1, <1>2, <1>4, <1>5, <1>6, <1>7, InHandFacts, CommitFrame DEF Saving
  <1>9. Visible' = Visible
    <2>1. Openable(f) /\ Openable(g) /\ f \in Files
      BY Zenon, <1>2, <1>4, <1>5, InHandFacts, KeptShows
    <2>2. f.page[Active(f.page)] # Torn /\ Active(f.page) \in 1 .. 2
      BY Zenon, <1>5, <2>1, FileType, ActivePage DEF Openable
    <2>3. Shown(g.recs, g.page[Active(g.page)]) = Shown(f.recs, f.page[Active(f.page)])
      BY Zenon, <1>4, <2>2
    <2>4. Visible = Shown(f.recs, f.page[Active(f.page)]) /\ Visible' = Shown(g.recs, g.page[Active(g.page)])
      BY Zenon, <1>1, <1>2, <1>5, <1>6, <2>1, InHandFacts, ContentsShown DEF Visible
    <2> QED
      BY Zenon, <2>3, <2>4
  <1> QED
    BY Zenon, <1>1, <1>8, <1>9 DEF Store!vars

LEMMA SyncRecordKeeps ==
    ASSUME IInv, SyncRecord, UNCHANGED faults
    PROVE  IInv' /\ UNCHANGED Store!vars
  <1>inv. Types /\ Stages /\ Unopened /\ InHand /\ InPlace /\ SaveInv /\ TempInv
    BY Zenon DEF IInv
  <1>1. /\ wpc = "recsync" /\ UNCHANGED <<file, entry, entryDisk, handle, load, acked, tried>>
        /\ temp' \in {temp, NoInode}
        /\ \/ disk' = [disk EXCEPT ![handle.inode] = file[handle.inode]] /\ wpc' = "tear" /\ job' = job
           \/ disk' = disk /\ wpc' = "idle"
    BY Zenon DEF SyncRecord, Fail
  <1>2. wpc \in Saving
    BY Zenon, <1>1 DEF Saving
  <1> DEFINE f == file[entry]
  <1>3. f \in Files /\ Kept(f, handle.active, acked, tried) /\ FileSound(f, disk[entry])
    BY Zenon, <1>2, InHandFacts
  <1>4. FileSound(f, f) /\ KeptOnDisk(f, f, handle.active, tried)
    <2>1. \A k \in 1 .. 2 : Sound(f.recs, f.page[k])
      <3> SUFFICES ASSUME NEW k \in 1 .. 2, f.page[k] # Torn PROVE Sound(f.recs, f.page[k])
        BY Zenon DEF Sound
      <3> QED
        BY Zenon, <1>2, <1>3, InHandFacts, FileType, SoundLonger DEF FileSound
    <2> QED
      BY Zenon, <1>3, <2>1, FileType, LongerItself DEF FileSound, Kept, KeptOnDisk
  <1>5. /\ disk' \in [Inode -> Files] /\ \A i \in Inode \ {entry} : disk'[i] = disk[i]
        /\ wpc' = "tear" => disk'[entry] = f
        /\ wpc' # "tear" => disk' = disk
    BY Zenon, <1>1, <1>2, <1>3, InHandFacts
  <1>6. SaveInv'
    BY Zenon, <1>inv, <1>1, <1>2, <1>5, InHandFacts DEF SaveInv, Saving
  <1>7. IInv'
    BY Zenon, <1>1, <1>2, <1>4, <1>5, <1>6, InHandFacts, CommitFrame DEF Saving
  <1>8. Visible' = Visible
    BY Zenon, <1>1 DEF Visible
  <1> QED
    BY Zenon, <1>1, <1>7, <1>8 DEF Store!vars

(* The write of the inactive page takes back what a failed save had published. *)
LEMMA TearPageKeeps ==
    ASSUME IInv, TearPage, UNCHANGED faults
    PROVE  IInv' /\ Store!Revert
  <1>inv. Types /\ Stages /\ Unopened /\ InHand /\ InPlace /\ SaveInv /\ TempInv
    BY Zenon DEF IInv
  <1>1. /\ wpc = "tear" /\ wpc' = "page"
        /\ file' = [file EXCEPT ![handle.inode] = [file[handle.inode] EXCEPT !.page[Inactive] = Torn]]
        /\ UNCHANGED <<disk, entry, entryDisk, handle, job, temp, acked, tried>> /\ DOMAIN load' = Loader
    BY Zenon DEF TearPage, SetFile
  <1>2. wpc \in Saving
    BY Zenon, <1>1 DEF Saving
  <1> DEFINE f == file[entry]
             d == disk[entry]
             a == handle.active
             g == [f EXCEPT !.page[Inactive] = Torn]
  <1>3. /\ f \in Files /\ d \in Files /\ a \in 1 .. 2 /\ Inactive = 3 - a /\ Inactive # a /\ Inactive \in 1 .. 2
        /\ Kept(f, a, acked, tried) /\ FileSound(f, d) /\ (PowerFails => KeptOnDisk(f, d, a, tried))
        /\ f.page[a] = Page(handle.gen, handle.idx)
    BY <1>2, InHandFacts
  <1>4. /\ g \in Files /\ g.len = f.len /\ g.recs = f.recs /\ g.page[a] = f.page[a] /\ g.page[3 - a] = Torn
        /\ \A k \in 1 .. 2 : g.page[k] \in {f.page[k], Torn}
    BY Zenon, <1>3 DEF Files
  <1>5. file' = [file EXCEPT ![entry] = g]
    BY Zenon, <1>1, <1>2, InHandFacts
  <1> HIDE DEF g
  <1>6. file'[entry] = g /\ file' \in [Inode -> Files] /\ \A i \in Inode \ {entry} : file'[i] = file[i]
    BY Zenon, <1>2, <1>4, <1>5, InHandFacts
  <1>7. Kept(g, a, acked, tried) /\ (PowerFails => KeptOnDisk(g, d, a, tried))
    BY Zenon, <1>3, <1>4 DEF Kept, KeptOnDisk, Rival
  <1>8. FileSound(g, d)
    BY Zenon, <1>3, <1>4 DEF FileSound, Sound
  <1>9. SaveInv'
    BY Zenon, <1>inv, <1>1, <1>2, <1>3, <1>4, <1>6 DEF SaveInv, Saving, Inactive
  <1>10. IInv'
    BY Zenon, <1>1, <1>2, <1>3, <1>4, <1>6, <1>7, <1>8, <1>9, InHandFacts, CommitFrame DEF Saving
  <1>11. Visible' = acked
    <2>1. Openable(g) /\ Shown(g.recs, g.page[Active(g.page)]) = acked
      BY Zenon, <1>3, <1>4, <1>7, KeptShows
    <2> QED
      BY Zenon, <1>1, <1>2, <1>6, <2>1, InHandFacts, ContentsShown DEF Visible
  <1> QED
    BY Zenon, <1>1, <1>10, <1>11 DEF Store!Revert

(* The page a commit writes: it names the new record, which is on stable
   storage, and otherwise the records the active page names. *)
LEMMA NewPage ==
    ASSUME IInv, wpc \in {"page", "pagesync"}
    PROVE  LET p == Page(handle.gen + 1, NextIndex)
               r == file[entry].recs
           IN  /\ NextIndex \in Indices /\ handle.gen + 1 \in 0 .. MaxGen
               /\ disk[entry].recs = r /\ Sound(r, p)
               /\ Shown(r, p) = [acked EXCEPT ![job.pos] = job.val]
               /\ Shown(r, p) \in [Chunk -> Value \cup {None}]
               /\ [c \in Chunk |-> Read(file[handle.inode], NextIndex, c)] = Shown(r, p)
  <1>inv. Types /\ Stages /\ Unopened /\ InHand /\ InPlace /\ SaveInv /\ TempInv
    BY Zenon DEF IInv
  <1>0. wpc \in Saving /\ wpc \in Saving \ {"append"} /\ wpc \in {"tear", "page", "pagesync"}
    BY Zenon DEF Saving
  <1> DEFINE f == file[entry]
             r == f.recs
             n == Len(r)
             p == Page(handle.gen + 1, NextIndex)
             q == Page(handle.gen, handle.idx)
  <1>1. /\ handle.gen < MaxGen /\ n > 0 /\ r[n] = job /\ disk[entry].recs = r
    BY Zenon, <1>inv, <1>0 DEF SaveInv
  <1>2. /\ r \in Tapes /\ n \in 1 .. MaxRecs /\ job \in Records /\ job.pos \in Chunk /\ job.val \in Value
        /\ handle.idx \in Indices /\ handle.gen \in 0 .. MaxGen /\ handle.inode = entry
        /\ acked \in [Chunk -> Value \cup {None}]
    BY <1>0, <1>1, InHandFacts, FileType, RegionFileAssumption DEF Tapes, Records
  <1>3. NextIndex = [handle.idx EXCEPT ![job.pos] = n] /\ NextIndex \in Indices
    BY <1>2 DEF NextIndex, Indices
  <1>4. handle.gen + 1 \in 0 .. MaxGen
    BY <1>1, <1>2, RegionFileAssumption
  <1>5. q \in Pages /\ q # Torn /\ q.idx = handle.idx /\ p \in Pages /\ p # Torn /\ p.idx = NextIndex
    BY Zenon, <1>2, <1>3, <1>4, PageType
  <1>6. f.page[handle.active] = q /\ acked = Shown(r, q) /\ Sound(r, q)
    BY Zenon, <1>0, <1>1, InHandFacts DEF Kept, FileSound
  <1>7. Sound(r, p)
    <2>1. ASSUME NEW c \in Chunk, NextIndex[c] # 0 PROVE Whole(r, NextIndex[c], c)
      <3>1. CASE c = job.pos
        <4>1. NextIndex[c] = n
          BY Zenon, <1>2, <1>3, <3>1 DEF Indices
        <4> QED
          BY <1>1, <1>2, <3>1, <4>1, RegionFileAssumption DEF Whole
      <3>2. CASE c # job.pos
        <4>1. NextIndex[c] = handle.idx[c]
          BY Zenon, <1>2, <1>3, <3>2 DEF Indices
        <4> QED
          BY Zenon, <1>5, <1>6, <2>1, <4>1 DEF Sound
      <3> QED
        BY Zenon, <3>1, <3>2
    <2> QED
      BY Zenon, <1>5, <2>1 DEF Sound
  <1>8. Shown(r, p) = [acked EXCEPT ![job.pos] = job.val]
    <2> HIDE DEF p, q, n
    <2>1. \A c \in Chunk : acked[c] = IF handle.idx[c] = 0 THEN None ELSE r[handle.idx[c]].val
      BY Zenon, <1>5, <1>6 DEF Shown
    <2>2. NextIndex[job.pos] = n /\ n # 0 /\ \A c \in Chunk \ {job.pos} : NextIndex[c] = handle.idx[c]
      BY <1>2, <1>3 DEF Indices
    <2>3. Shown(r, p) = [c \in Chunk |-> IF NextIndex[c] = 0 THEN None ELSE r[NextIndex[c]].val]
      BY Zenon, <1>5 DEF Shown
    <2>4. r[n].val = job.val
      BY Zenon, <1>1
    <2> HIDE DEF r
    <2>5. \A c \in Chunk : Shown(r, p)[c] = [acked EXCEPT ![job.pos] = job.val][c]
      BY <1>2, <2>1, <2>2, <2>3, <2>4
    <2> QED
      BY Zenon, <1>2, <2>3, <2>5
  <1>9. Shown(r, p) \in [Chunk -> Value \cup {None}]
    BY Zenon, <1>2, <1>8
  <1>10. [c \in Chunk |-> Read(file[handle.inode], NextIndex, c)] = Shown(r, p)
    BY Zenon, <1>2, <1>5 DEF Shown, Read
  <1> QED
    BY Zenon, <1>1, <1>3, <1>4, <1>7, <1>8, <1>9, <1>10

LEMMA WritePageKeeps ==
    ASSUME IInv, WritePage, UNCHANGED faults
    PROVE  IInv' /\ StoreStep
  <1>inv. Types /\ Stages /\ Unopened /\ InHand /\ InPlace /\ SaveInv /\ TempInv
    BY Zenon DEF IInv
  <1>1. wpc = "page" /\ wpc \in Saving /\ UNCHANGED <<disk, entry, entryDisk, handle, load, acked>>
    BY Zenon DEF WritePage, Fail, Saving
  <1> DEFINE f == file[entry]
             d == disk[entry]
             a == handle.active
             p == Page(handle.gen + 1, NextIndex)
             S == Shown(f.recs, p)
             g == [f EXCEPT !.page[Inactive] = p]
  <1>2. /\ f \in Files /\ d \in Files /\ a \in 1 .. 2 /\ Inactive = 3 - a /\ Inactive # a /\ Inactive \in 1 .. 2
        /\ Kept(f, a, acked, tried) /\ FileSound(f, d) /\ (PowerFails => KeptOnDisk(f, d, a, tried))
        /\ f.page[a] = Page(handle.gen, handle.idx) /\ handle.gen \in 0 .. MaxGen /\ handle.idx \in Indices
    BY <1>1, InHandFacts
  <1>3. /\ NextIndex \in Indices /\ handle.gen + 1 \in 0 .. MaxGen /\ d.recs = f.recs /\ Sound(f.recs, p)
        /\ S = [acked EXCEPT ![job.pos] = job.val]
        /\ [c \in Chunk |-> Read(file[handle.inode], NextIndex, c)] = S
    BY Zenon, <1>1, NewPage
  <1>4. p \in Pages /\ p # Torn /\ p.gen = handle.gen + 1 /\ f.page[a].gen = handle.gen /\ p.idx = NextIndex
    BY <1>2, <1>3, PageType
  <1>5. CASE wpc' = "idle"
    <2>1. file' = file /\ tried' = tried /\ temp' = NoInode
      BY Zenon, <1>5 DEF WritePage, Fail
    <2>2. SaveInv'
      BY Zenon, <1>5 DEF SaveInv, Saving
    <2>3. IInv'
      BY Zenon, <1>1, <1>5, <2>1, <2>2, InHandFacts, CommitFrame DEF Saving
    <2>4. Visible' = Visible
      BY Zenon, <1>1, <2>1 DEF Visible
    <2> QED
      BY Zenon, <1>1, <2>1, <2>3, <2>4 DEF StoreStep, Store!vars
  <1>6. CASE wpc' # "idle"
    <2> HIDE DEF p
    <2>1. /\ g \in Files /\ g.len = f.len /\ g.recs = f.recs /\ g.page[a] = f.page[a] /\ g.page[3 - a] = p
      BY Zenon, <1>2, <1>4 DEF Files
    <2>2. /\ file' = [file EXCEPT ![entry] = g] /\ tried' = tried \cup {S}
          /\ wpc' = "pagesync" /\ UNCHANGED <<job, temp>>
      BY Zenon, <1>1, <1>3, <1>6, InHandFacts DEF WritePage, Fail, SetFile, p
    <2> HIDE DEF g, S
    <2>3. file'[entry] = g /\ file' \in [Inode -> Files] /\ \A i \in Inode \ {entry} : file'[i] = file[i]
      BY Zenon, <1>1, <2>1, <2>2, InHandFacts
    <2>4. Kept(g, a, acked, tried') /\ (PowerFails => KeptOnDisk(g, d, a, tried'))
      <3>1. Rival(g.recs, g.page[a], p, tried')
        BY <1>2, <1>4, <2>1, <2>2 DEF Rival, S
      <3>2. PowerFails => Rival(g.recs, g.page[a], d.page[3 - a], tried')
        BY Zenon, <1>2, <2>1, <2>2 DEF KeptOnDisk, Rival
      <3> QED
        BY Zenon, <1>2, <2>1, <3>1, <3>2 DEF Kept, KeptOnDisk
    <2>5. FileSound(g, d)
      <3>1. \A k \in 1 .. 2 : g.page[k] = f.page[k] \/ g.page[k] = p
        BY <1>2, <2>1
      <3> QED
        BY Zenon, <1>2, <1>3, <2>1, <3>1 DEF FileSound, p
    <2>6. NextIndex' = NextIndex /\ Inactive' = Inactive
      BY Zenon, <1>1, <2>1, <2>2, <2>3, InHandFacts DEF NextIndex, Inactive
    <2>7. SaveInv'
      BY Zenon, <1>inv, <1>1, <1>2, <1>3, <2>1, <2>2, <2>3, <2>6 DEF SaveInv, Saving, p
    <2>8. IInv'
      BY Zenon, <1>1, <1>2, <2>1, <2>2, <2>3, <2>4, <2>5, <2>7, InHandFacts, CommitFrame DEF Saving
    <2>9. Visible' = S
      <3>1. g.page \in [1 .. 2 -> Pages \cup {Torn}] /\ g.page[a] # Torn /\ g.page[3 - a] # Torn
            /\ g.page[3 - a].gen > g.page[a].gen
        BY <1>2, <1>4, <2>1, FileType DEF Kept
      <3>2. Active(g.page) = 3 - a
        BY Zenon, <1>2, <3>1, ActivePage
      <3>3. Openable(g)
        BY Zenon, <1>2, <2>1, <2>4, KeptShows
      <3>4. Visible' = Shown(g.recs, g.page[Active(g.page)])
        BY Zenon, <1>1, <2>3, <3>3, InHandFacts, ContentsShown DEF Visible
      <3> QED
        BY Zenon, <2>1, <3>2, <3>4 DEF S
    <2>10. job.pos \in Chunk /\ job.val \in Value
      BY Zenon, <1>1, InHandFacts DEF Records
    <2>11. Store!Publish(job.pos, job.val)
      BY Zenon, <1>1, <1>3, <2>2, <2>9 DEF Store!Publish
    <2> QED
      BY Zenon, <2>8, <2>10, <2>11 DEF StoreStep, Store!Next
  <1> QED
    BY Zenon, <1>5, <1>6

LEMMA SyncPageKeeps ==
    ASSUME IInv, SyncPage, UNCHANGED faults
    PROVE  IInv' /\ StoreStep
  <1>inv. Types /\ Stages /\ Unopened /\ InHand /\ InPlace /\ SaveInv /\ TempInv
    BY Zenon DEF IInv
  <1>1. wpc = "pagesync" /\ wpc \in Saving /\ UNCHANGED <<file, entry, entryDisk, load>> /\ wpc' = "idle"
    BY Zenon DEF SyncPage, Fail, Saving
  <1>2. Visible' = Visible
    BY Zenon, <1>1 DEF Visible
  <1> DEFINE f == file[entry]
             d == disk[entry]
             a == handle.active
             p == Page(handle.gen + 1, NextIndex)
             S == Shown(f.recs, p)
  <1>3. SaveInv'
    BY Zenon, <1>1 DEF SaveInv, Saving
  <1>4. CASE "sync" \in faults /\ UNCHANGED <<disk, handle, acked, tried>> /\ temp' = NoInode
    <2>1. IInv'
      BY Zenon, <1>1, <1>3, <1>4, InHandFacts, CommitFrame DEF Saving
    <2> QED
      BY Zenon, <1>2, <1>4, <2>1 DEF StoreStep, Store!vars
  <1>5. CASE /\ disk' = [disk EXCEPT ![handle.inode] = file[handle.inode]]
             /\ handle' = [inode |-> handle.inode, active |-> Inactive, gen |-> handle.gen + 1, idx |-> NextIndex]
             /\ acked' = [c \in Chunk |-> Read(file[handle.inode], NextIndex, c)]
             /\ tried' = {} /\ temp' = temp
    <2>1. /\ f \in Files /\ d \in Files /\ a \in 1 .. 2 /\ Inactive = 3 - a /\ Inactive # a /\ Inactive \in 1 .. 2
          /\ Kept(f, a, acked, tried) /\ FileSound(f, d)
          /\ f.page[a] = Page(handle.gen, handle.idx) /\ handle.gen \in 0 .. MaxGen /\ handle.idx \in Indices
      BY <1>1, InHandFacts
    <2>2. /\ NextIndex \in Indices /\ handle.gen + 1 \in 0 .. MaxGen /\ d.recs = f.recs
          /\ S \in [Chunk -> Value \cup {None}] /\ acked' = S
      BY Zenon, <1>1, <1>5, NewPage
    <2>3. f.page[3 - a] = p
      BY Zenon, <1>inv, <1>1, <2>1 DEF SaveInv
    <2>4. p \in Pages /\ p # Torn /\ p.gen = handle.gen + 1 /\ f.page[a].gen = handle.gen
      BY <2>1, <2>2, PageType
    <2>5. /\ handle' \in Handles /\ handle'.inode = entry /\ handle'.active = 3 - a
          /\ f.page[handle'.active] = Page(handle'.gen, handle'.idx)
      BY Zenon, <1>1, <1>5, <2>1, <2>2, <2>3, InHandFacts DEF Handles
    <2>6. disk'[entry] = f /\ disk' \in [Inode -> Files] /\ \A i \in Inode \ {entry} : disk'[i] = disk[i]
      BY Zenon, <1>1, <1>5, InHandFacts
    <2> HIDE DEF p
    <2>7. Kept(f, 3 - a, acked', tried')
      <3>1. 3 - (3 - a) = a
        BY <2>1
      <3>2. Rival(f.recs, f.page[3 - a], f.page[a], tried')
        BY <2>1, <2>3, <2>4 DEF Rival
      <3> QED
        BY Zenon, <2>1, <2>2, <2>3, <2>4, <3>1, <3>2 DEF Kept
    <2>8. KeptOnDisk(f, f, 3 - a, tried') /\ FileSound(f, f)
      BY Zenon, <2>1, <2>2, <2>7, FileType, LongerItself DEF Kept, KeptOnDisk, FileSound
    <2>9. IInv'
      BY <1>1, <1>3, <2>1, <2>2, <2>5, <2>6, <2>7, <2>8, <1>5, InHandFacts, CommitFrame DEF Saving
    <2>10. S \in tried
      BY <2>1, <2>3, <2>4 DEF Kept, Rival
    <2>11. Visible = S
      <3>1. f.page \in [1 .. 2 -> Pages \cup {Torn}] /\ f.page[a] # Torn /\ f.page[3 - a] # Torn
            /\ f.page[3 - a].gen > f.page[a].gen
        BY <2>1, <2>3, <2>4, FileType DEF Kept
      <3>2. Active(f.page) = 3 - a
        BY Zenon, <2>1, <3>1, ActivePage
      <3>3. Openable(f)
        BY Zenon, <2>1, KeptShows
      <3> QED
        BY <1>1, <2>3, <3>2, <3>3, InHandFacts, ContentsShown DEF Visible
    <2>12. Store!Commit
      BY Zenon, <1>2, <1>5, <2>2, <2>10, <2>11 DEF Store!Commit
    <2> QED
      BY Zenon, <2>9, <2>12 DEF StoreStep, Store!Next
  <1> QED
    BY Zenon, <1>4, <1>5 DEF SyncPage, Fail

-----------------------------------------------------------------------------
(* Crashes. *)

(* Of the file a restart finds, nothing else being there: it shows the
   acknowledged state or one that was tried, and is sound. *)
LEMMA RestartKeeps ==
    ASSUME IInv, Crash, UNCHANGED faults, entry' \in Inode, NEW s \in Files,
           file' = [i \in Inode |-> IF i = entry' THEN s ELSE EmptyFile],
           Apart(s), Blank(s) \/ s.len = "full", FileSound(s, s), Contents(file', entry') \in {acked} \cup tried,
           acked' \in [Chunk -> Value \cup {None}]
    PROVE  IInv' /\ Store!Crash
  <1>inv. Types /\ Stages /\ Unopened /\ InHand /\ InPlace /\ SaveInv /\ TempInv
    BY Zenon DEF IInv
  <1>1. /\ entryDisk' = entry' /\ disk' = file' /\ handle' = None /\ wpc' = "idle" /\ temp' = NoInode
        /\ DOMAIN load' = Loader /\ acked' = Visible' /\ tried' = {}
    BY Zenon DEF Crash, Visible
  <1>2. file' \in [Inode -> Files] /\ file'[entry'] = s /\ entry' # NoInode
    BY Zenon, EmptyFileBlank, RegionFileAssumption
  <1>3. Types' /\ Stages'
    BY Zenon, <1>inv, <1>1, <1>2 DEF Types, Stages, Places, Creating, Saving
  <1>4. Unopened'
    BY Zenon, <1>1, <1>2 DEF Unopened, PowerFails
  <1>5. InHand' /\ InPlace'
    BY Zenon, <1>1, <1>2 DEF InHand, InPlace
  <1>6. SaveInv' /\ TempInv'
    BY Zenon, <1>1 DEF SaveInv, TempInv, Saving, Compacting
  <1>7. Store!Crash
    BY Zenon, <1>1 DEF Visible, Store!Crash
  <1> QED
    BY Zenon, <1>3, <1>4, <1>5, <1>6, <1>7 DEF IInv

LEMMA CrashUnopened ==
    ASSUME IInv, Crash, UNCHANGED faults, handle = None
    PROVE  IInv' /\ Store!Crash
  <1>inv. Types /\ Stages /\ Unopened /\ InHand /\ InPlace /\ SaveInv /\ TempInv
    BY Zenon DEF IInv
  <1>1. /\ "crash" \in faults /\ entry' \in {entry, entryDisk} /\ entryDisk' = entry' /\ disk' = file'
        /\ handle' = None /\ wpc' = "idle" /\ temp' = NoInode /\ DOMAIN load' = Loader
        /\ acked' = Contents(file', entry') /\ acked' = Visible' /\ tried' = {}
    BY Zenon DEF Crash, Visible
  <1>2. file \in [Inode -> Files] /\ disk \in [Inode -> Files] /\ entry \in Inode \cup {NoInode}
        /\ tried = {} /\ acked = Visible /\ acked \in [Chunk -> Value \cup {None}]
    BY Zenon, <1>inv DEF Types, Unopened
  <1>3. CASE entry' = NoInode
    <2>1. file' = [i \in Inode |-> EmptyFile]
      BY Zenon, <1>3 DEF Crash
    <2>2. Visible' = [c \in Chunk |-> None]
      BY Zenon, <1>3, ContentsNone DEF Visible
    <2>3. acked = [c \in Chunk |-> None]
      <3>1. CASE entry = NoInode
        BY Zenon, <1>2, <3>1, ContentsNone DEF Visible
      <3>2. CASE entry # NoInode
        <4>1. entry \in Inode /\ Blank(file[entry])
          BY Zenon, <1>inv, <1>1, <1>2, <1>3, <3>2 DEF Unopened, PowerFails
        <4> QED
          BY Zenon, <1>2, <4>1, BlankContents DEF Visible
      <3> QED
        BY Zenon, <3>1, <3>2
    <2>4. Store!Crash
      BY Zenon, <1>1, <2>2, <2>3 DEF Store!Crash
    <2>5. Types' /\ Stages'
      BY Zenon, <1>inv, <1>1, <1>2, <1>3, <2>1, <2>2, <2>3, EmptyFileBlank DEF Types, Stages, Places, Creating, Saving
    <2>6. Unopened' /\ InHand' /\ InPlace'
      BY Zenon, <1>1, <1>3, <2>1, RegionFileAssumption DEF Unopened, InHand, InPlace
    <2>7. SaveInv' /\ TempInv'
      BY Zenon, <1>1 DEF SaveInv, TempInv, Saving, Compacting
    <2> QED
      BY Zenon, <2>4, <2>5, <2>6, <2>7 DEF IInv
  <1>4. CASE entry' # NoInode
    <2> DEFINE f == file[entry]
    <2>1. /\ entry \in Inode /\ entry' = entry /\ entry # NoInode /\ f \in Files /\ disk[entry] \in Files /\ Apart(f)
          /\ \/ Blank(f) /\ Blank(disk[entry])
             \/ disk[entry] = f /\ f.len = "full"
      BY Zenon, <1>inv, <1>1, <1>2, <1>4 DEF Unopened, PowerFails
    <2>2. PICK s \in Survivors(disk[entry], f) : file' = [i \in Inode |-> IF i = entry' THEN s ELSE EmptyFile]
      BY Zenon, <1>4, <2>1 DEF Crash
    <2>3. /\ s \in Files /\ Apart(s) /\ (Blank(s) \/ s.len = "full") /\ FileSound(s, s)
          /\ Contents(file', entry') = acked
      <3>1. file'[entry] = s
        BY Zenon, <2>1, <2>2
      <3>2. CASE Blank(f) /\ Blank(disk[entry])
        <4>1. s \in Files /\ Blank(s)
          BY Zenon, <2>1, <2>2, <3>2, BlankSurvives
        <4>2. file' \in [Inode -> Files]
          BY Zenon, <2>2, <4>1, EmptyFileBlank
        <4>3. Contents(file', entry') = acked
          BY Zenon, <1>2, <2>1, <3>1, <3>2, <4>1, <4>2, BlankContents DEF Visible
        <4> QED
          BY Zenon, <4>1, <4>3, BlankShows
      <3>3. CASE disk[entry] = f /\ f.len = "full"
        <4>1. s = f
          BY Zenon, <2>1, <2>2, <3>3, SyncedSurvives
        <4>2. FileSound(f, f)
          BY Zenon, <1>inv, <2>1, <3>3 DEF InPlace
        <4>3. Contents(file', entry') = acked
          BY <1>2, <2>1, <3>1, <4>1, ContentsLocal DEF Visible
        <4> QED
          BY Zenon, <2>1, <3>3, <4>1, <4>2, <4>3
      <3> QED
        BY Zenon, <2>1, <3>2, <3>3
    <2> QED
      BY Zenon, <1>1, <1>2, <2>1, <2>2, <2>3, RestartKeeps
  <1> QED
    BY Zenon, <1>3, <1>4

LEMMA CrashOpened ==
    ASSUME IInv, Crash, UNCHANGED faults, handle # None
    PROVE  IInv' /\ Store!Crash
  <1>inv. Types /\ Stages /\ Unopened /\ InHand /\ InPlace /\ SaveInv /\ TempInv
    BY Zenon DEF IInv
  <1>1. /\ PowerFails /\ entry' \in {entry, entryDisk} /\ acked' = Contents(file', entry')
        /\ file \in [Inode -> Files] /\ disk \in [Inode -> Files] /\ handle \in Handles
    BY Zenon, <1>inv DEF Crash, PowerFails, Types
  <1>2. /\ entry' \in Inode /\ FileSound(file[entry'], disk[entry'])
        /\ \E a \in 1 .. 2 : /\ Kept(file[entry'], a, acked, tried)
                             /\ KeptOnDisk(file[entry'], disk[entry'], a, tried)
    <2>1. /\ entry \in Inode /\ handle.active \in 1 .. 2 /\ Kept(file[entry], handle.active, acked, tried)
          /\ KeptOnDisk(file[entry], disk[entry], handle.active, tried)
      BY Zenon, <1>inv, <1>1 DEF Stages, InHand, Handles
    <2>2. entry' # entry => /\ entryDisk \in Inode /\ entry' = entryDisk
                            /\ \E a \in 1 .. 2 : /\ Kept(file[entryDisk], a, acked, tried)
                                                 /\ KeptOnDisk(file[entryDisk], disk[entryDisk], a, tried)
      BY Zenon, <1>inv, <1>1 DEF InHand
    <2>3. entry' \in Inode
      BY Zenon, <1>1, <2>1, <2>2
    <2>4. FileSound(file[entry'], disk[entry'])
      BY Zenon, <1>inv, <1>1, <2>3 DEF InPlace
    <2> QED
      BY Zenon, <2>1, <2>2, <2>3, <2>4
  <1>3. PICK a \in 1 .. 2 : Kept(file[entry'], a, acked, tried) /\ KeptOnDisk(file[entry'], disk[entry'], a, tried)
    BY Zenon, <1>2
  <1>4. entry' # NoInode /\ file[entry'] \in Files /\ disk[entry'] \in Files
    BY Zenon, <1>1, <1>2, RegionFileAssumption
  <1>5. PICK s \in Survivors(disk[entry'], file[entry']) : file' = [i \in Inode |-> IF i = entry' THEN s ELSE EmptyFile]
    BY Zenon, <1>4 DEF Crash
  <1>6. s.len = "full" /\ Kept(s, a, acked, tried) /\ FileSound(s, s) /\ Apart(s)
    BY Zenon, <1>2, <1>3, <1>4, <1>5, KeptSurvives
  <1>7. s \in Files
    BY Zenon, <1>2, <1>4, <1>5, SurvivorShape DEF FileSound
  <1> DEFINE p == s.page[Active(s.page)]
  <1>8. Openable(s) /\ Shown(s.recs, p) \in {acked} \cup tried
    BY Zenon, <1>6, <1>7, KeptShows
  <1>9. Active(s.page) \in 1 .. 2 /\ p \in Pages /\ s.recs \in Tapes /\ Sound(s.recs, p)
    BY Zenon, <1>6, <1>7, <1>8, FileType, ActivePage DEF Openable, FileSound
  <1> HIDE DEF p
  <1>10. file'[entry'] = s
    BY Zenon, <1>2, <1>5
  <1>11. Contents(file', entry') = Shown(s.recs, p)
    BY Zenon, <1>4, <1>8, <1>10, ContentsShown DEF p
  <1>12. acked' \in [Chunk -> Value \cup {None}]
    BY <1>1, <1>9, <1>11, ShownType
  <1> QED
    BY Zenon, <1>2, <1>5, <1>6, <1>7, <1>8, <1>11, <1>12, RestartKeeps

-----------------------------------------------------------------------------
LEMMA InitHolds ==
    ASSUME Init, \A F \in FaultSets : ~({"entry", "crash"} \subseteq F)
    PROVE  IInv /\ Store!Init
  <1>1. /\ file = [i \in Inode |-> EmptyFile] /\ disk = file /\ entry = NoInode /\ entryDisk = NoInode
        /\ handle = None /\ wpc = "idle" /\ temp = NoInode /\ DOMAIN load = Loader
        /\ acked = [c \in Chunk |-> None] /\ tried = {} /\ ~({"entry", "crash"} \subseteq faults)
    BY Zenon DEF Init
  <1>2. Visible = [c \in Chunk |-> None]
    BY Zenon, <1>1, ContentsNone DEF Visible
  <1>3. Types /\ Stages
    BY Zenon, <1>1, EmptyFileBlank DEF Types, Stages, Places, Creating, Saving
  <1>4. Unopened /\ InHand /\ InPlace
    BY Zenon, <1>1, <1>2, RegionFileAssumption DEF Unopened, InHand, InPlace
  <1>5. SaveInv /\ TempInv
    BY Zenon, <1>1 DEF SaveInv, TempInv, Saving, Compacting
  <1> QED
    BY Zenon, <1>1, <1>2, <1>3, <1>4, <1>5 DEF IInv, Store!Init

LEMMA StutterKeeps ==
    ASSUME IInv, UNCHANGED vars
    PROVE  IInv' /\ UNCHANGED Store!vars
  <1>inv. Types /\ Stages /\ Unopened /\ InHand /\ InPlace /\ SaveInv /\ TempInv
    BY Zenon DEF IInv
  <1>1. /\ UNCHANGED <<file, disk, entry, entryDisk, handle, wpc, job, temp, load, acked, tried, faults>>
    BY Zenon DEF vars, osVars, writerVars
  <1>2. UNCHANGED <<Visible, Held, Inactive, NextIndex>>
    BY Zenon, <1>1 DEF Visible, Held, Reading, Inactive, NextIndex
  <1>3. Types' /\ Stages'
    BY Zenon, <1>inv, <1>1 DEF Types, Stages
  <1>4. Unopened'
    BY Zenon, <1>inv, <1>1, <1>2 DEF Unopened, PowerFails
  <1>5. InHand'
    BY Zenon, <1>inv, <1>1 DEF InHand, PowerFails
  <1>6. InPlace' /\ SaveInv'
    BY Zenon, <1>inv, <1>1, <1>2 DEF InPlace, SaveInv
  <1>7. TempInv'
    BY Zenon, <1>inv, <1>1, <1>2 DEF TempInv
  <1> QED
    BY Zenon, <1>1, <1>2, <1>3, <1>4, <1>5, <1>6, <1>7 DEF IInv, Store!vars

LEMMA NextKeeps ==
    ASSUME IInv, [Next]_vars
    PROVE  IInv' /\ StoreStep
  <1>1. CASE UNCHANGED vars
    BY Zenon, <1>1, StutterKeeps DEF StoreStep
  <1>2. CASE Next
    <2>1. Step /\ UNCHANGED faults
      BY Zenon, <1>2 DEF Next
    <2>2. CASE Save
      BY Zenon, <2>1, <2>2, SaveSnapshotKeeps DEF Save, StoreStep
    <2>3. CASE Create
      BY Zenon, <2>1, <2>3, CreateKeeps DEF StoreStep
    <2>4. CASE Commit
      BY Zenon, <2>1, <2>4, AppendRecordKeeps, SyncRecordKeeps, TearPageKeeps, WritePageKeeps, SyncPageKeeps
         DEF Commit, StoreStep, Store!Next
    <2>5. CASE Compact
      BY Zenon, <2>1, <2>5, CompactRegionKeeps, SyncTempKeeps, RenameKeeps, SyncRenamedEntryKeeps
         DEF Compact, StoreStep, Store!Next
    <2>6. CASE Loading
      BY Zenon, <2>1, <2>6, LoadingKeeps DEF StoreStep
    <2>7. CASE Crash
      BY Zenon, <2>1, <2>7, CrashUnopened, CrashOpened DEF StoreStep, Store!Next
    <2> QED
      BY Zenon, <2>1, <2>2, <2>3, <2>4, <2>5, <2>6, <2>7 DEF Step
  <1> QED
    BY Zenon, <1>1, <1>2

LEMMA Sounds ==
    ASSUME IInv
    PROVE  IndexSound
  <1>inv. Types /\ Stages /\ Unopened /\ InHand /\ InPlace /\ SaveInv /\ TempInv
    BY Zenon DEF IInv
  <1>1. TypeOK
    <2>1. \A i \in Inode : file[i] \in Files /\ disk[i] \in Files
      BY Zenon, <1>inv DEF Types
    <2>2. \A f \in Files : /\ f.len \in {"empty", "bad", "full"} /\ Len(f.recs) <= MaxRecs
                           /\ \A k \in 1 .. 2 : f.page[k] # Torn =>
                                 f.page[k].gen \in 0 .. MaxGen /\ f.page[k].idx \in [Chunk -> 0 .. MaxRecs]
      BY Zenon DEF Files, Tapes, Pages, Indices
    <2>3. handle # None => handle.inode = entry /\ handle.gen \in 0 .. MaxGen
      BY Zenon, <1>inv DEF Types, Stages, Handles
    <2> QED
      BY Zenon, <1>inv, <2>1, <2>2, <2>3 DEF TypeOK, Types, Stages, Creating
  <1>2. ASSUME NEW i \in {entry, entryDisk} \cap Inode,
               NEW f \in {file[i]} \cup (IF "crash" \in faults THEN Survivors(disk[i], file[i]) ELSE {disk[i]}),
               NEW k \in 1 .. 2, f.page[k] # Torn
        PROVE  Sound(f.recs, f.page[k])
    <2>1. file[i] \in Files /\ disk[i] \in Files /\ FileSound(file[i], disk[i])
      BY Zenon, <1>inv DEF Types, InPlace
    <2>2. f \in {file[i], disk[i]} \/ f \in Survivors(disk[i], file[i])
      BY Zenon
    <2>3. /\ f \in Files /\ Longer(disk[i].recs, f.recs)
          /\ f.page[k] \in {file[i].page[k], disk[i].page[k], Torn}
      BY <2>1, <2>2, SurvivorShape, FileType, LongerItself DEF FileSound
    <2> QED
      BY Zenon, <1>2, <2>1, <2>3, FileType, SoundLonger DEF FileSound
  <1>3. ASSUME NEW i \in {entry, entryDisk} \cap Inode,
               NEW f \in {file[i]} \cup (IF "crash" \in faults THEN Survivors(disk[i], file[i]) ELSE {disk[i]}),
               NEW k \in 1 .. 2, f.len = "full" /\ f.page[k] # Torn, NEW c \in Chunk, f.page[k].idx[c] # 0
        PROVE  Whole(f.recs, f.page[k].idx[c], c)
    BY Zenon, <1>2, <1>3 DEF Sound
  <1> QED
    BY Zenon, <1>1, <1>3 DEF IndexSound, Whole

(* Where the machine does not go down after the sync of a directory entry has
   failed, an index page that validates only names whole records of its
   chunks, at every moment and after any power failure: save_chunks syncs a
   record before it writes the page that names it, and writes the page that is
   not active. *)
THEOREM PagesNameWholeRecords ==
    ASSUME \A F \in FaultSets : ~({"entry", "crash"} \subseteq F)
    PROVE  Spec => []IndexSound
  <1>1. Init => IInv
    BY Zenon, InitHolds
  <1>2. IInv /\ [Next]_vars => IInv'
    BY Zenon, NextKeeps
  <1>3. IInv => IndexSound
    BY Zenon, Sounds
  <1> QED
    BY <1>1, <1>2, <1>3, PTL DEF Spec

(* On the same machine a region file is a store whose saves become readable
   and then durable as a whole: what a receipt of save_snapshot said is
   durable, or a save attempted since, is what a restart finds, and neither
   compact_region nor a failed save changes it. *)
THEOREM RegionFileImplementsStore ==
    ASSUME \A F \in FaultSets : ~({"entry", "crash"} \subseteq F)
    PROVE  Spec => ImplementsRegionStore
  <1>1. Init => IInv /\ Store!Init
    BY Zenon, InitHolds
  <1>2. IInv /\ [Next]_vars => IInv' /\ [Store!Next]_Store!vars
    BY Zenon, NextKeeps DEF StoreStep
  <1> QED
    BY <1>1, <1>2, PTL DEF Spec, ImplementsRegionStore, Store!Spec
=============================================================================
