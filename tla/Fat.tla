-------------------------------- MODULE Fat --------------------------------
(***************************************************************************)
(* The FAT file system (filesystems/fat: main.rs, bpb.rs, directory.rs).   *)
(*                                                                         *)
(* The program mounts a volume: it decides its type, checks its parameter  *)
(* block, and keeps copies of the file allocation table and of the root    *)
(* directory region.  It then serves requests one at a time: a path is     *)
(* followed from the directory a capability stands for, entry by entry and *)
(* long name by long name, and a file is read sector by sector along its   *)
(* chain of clusters.  A failed assertion or an index out of range ends    *)
(* the program, and one that fails in the kernel on its behalf too.        *)
(*                                                                         *)
(* Data is counted in records of the size of a directory entry, so that    *)
(* the contents of a file can be taken for entries, as the program takes   *)
(* them when a path leads through a file; the allocation table is bytes.   *)
(* Names are sequences of UTF-16 codes, those asked for of ASCII codes, and *)
(* paths sequences of names.  Arithmetic is checked for overflow, as in the *)
(* build the repository runs.                                              *)
(***************************************************************************)
EXTENDS Naturals, FiniteSets, Sequences, SequencesExt

CONSTANTS
  DISK_SECTOR_SIZE,      \* 512 bytes, in records
  PAGE_SECTORS,          \* 8: sectors of the drive in a page
  FAT12_END, FAT16_END,  \* 4085 and 65525: clusters from which on a volume is larger
  SECTORS_16_END,        \* 0x10000
  MAIN_LEN, EXT_LEN,     \* 8 and 3: the parts of a short name
  MAX_LONG_ENTRIES,      \* 20
  MAX_LONG_ENTRY_LENGTH, \* 13
  MAX_LONG_RESULT_LENGTH,\* 255
  REPLY,                 \* 127: records that fit in a reply behind their length
  CERTIFICATES,          \* 256: a certificate's place in the page is below
  HEAP,                  \* records that fit in the memory left to the program
  Volumes,               \* volumes the program may find on the drive
  Paths                  \* paths its clients ask for

VARIABLES
  volume,     \* the drive: parameter block, sectors, and what was stored on it
  type,       \* "Fat12", "Fat16" or "Fat32", once it is known
  fat, rdr,   \* copies of the allocation table and the root directory region
  objects,    \* directories granted to clients, with the path each was asked by
  request,    \* the request being served, or the last one
  reply,      \* what it was answered
  certificates, \* place of the next certificate: CAPABILITIES_ALLOCATED
  kept,       \* records of the copies shared with clients, which stay
  pc,         \* "mount", "idle", "open", "scan", "read", "done" or "panicked"
  reason,     \* why the program ended
  look,       \* directory and rest of the path that traverse_path() looks at
  entries,    \* entries of the directory not looked at yet
  walk,       \* cluster being read, its successor and the next of its sectors
  data, size  \* what read_file() has read, and how much it wants

mounted == <<volume, type, fat, rdr>>
served == <<objects, request, reply>>
spent == <<certificates, kept>>
file == <<data, size>>
fat_vars == <<mounted, served, spent, pc, reason, look, entries, walk, file>>

NoReply == [given |-> FALSE, data |-> <<>>]
NoSize == 1000000         \* read_file(cluster, None)
Region == [normal |-> FALSE, cluster |-> 0]
Normal(cluster) == [normal |-> TRUE, cluster |-> cluster]

NoLook == [dir |-> Region, path |-> <<>>]
NoWalk == [cluster |-> 0, next |-> 0, sector |-> 0]

FatInit ==
  /\ volume \in Volumes
  /\ type = "none" /\ fat = <<>> /\ rdr = <<>>
  /\ objects = {} /\ request = [op |-> "none", at |-> <<>>, path |-> <<>>] /\ reply = NoReply
  /\ certificates = 1 /\ kept = 0
  /\ pc = "mount" /\ reason = "none"
  /\ look = NoLook /\ entries = <<>> /\ walk = NoWalk
  /\ data = <<>> /\ size = NoSize

Goto(label) == pc' = label /\ UNCHANGED <<reason, walk>>
Panic(why) == pc' = "panicked" /\ reason' = why /\ UNCHANGED walk

\* A handler returns: its local variables are gone.
Return ==
  /\ pc' = "idle" /\ UNCHANGED reason
  /\ look' = NoLook /\ entries' = <<>> /\ walk' = NoWalk
  /\ data' = <<>> /\ size' = NoSize

-----------------------------------------------------------------------------
(* Layout of the volume.  Of the parameter block's fields, ratio is        *)
(* byts_per_sec in sectors of the drive.                                   *)

byts_per_sec(v) == v.bpb.ratio * DISK_SECTOR_SIZE

fat_sz(v, t) == IF t = "Fat32" THEN v.bpb.fat_sz_32 ELSE v.bpb.fat_sz_16

fat_sectors(v, t) ==
  [start |-> v.bpb.rsvd_sec_cnt,
   end |-> v.bpb.rsvd_sec_cnt + v.bpb.num_fats * fat_sz(v, t)]

root_directory_sectors(v, t) ==
  [start |-> fat_sectors(v, t).end,
   end |-> fat_sectors(v, t).end + v.bpb.root_ent_cnt \div byts_per_sec(v)]

DataStart(v, t) == root_directory_sectors(v, t).end

total_sectors_count(v, t) ==
  IF t # "Fat32" /\ v.bpb.tot_sec_16 # 0 THEN v.bpb.tot_sec_16 ELSE v.bpb.tot_sec_32

\* Clusters can only be counted if there are as many sectors as are before them.
EnoughForData(v, t) == total_sectors_count(v, t) >= DataStart(v, t)

max_cluster(v, t) == (total_sectors_count(v, t) - DataStart(v, t)) \div v.bpb.sec_per_clus + 1

\* What determine_type() takes for the number of sectors, and for that of those
\* before the root directory: the subtraction fails if it is the larger one.
tot_sec(v) == IF v.bpb.tot_sec_16 # 0 THEN v.bpb.tot_sec_16 ELSE v.bpb.tot_sec_32

SectorsBefore(v) ==
  v.bpb.rsvd_sec_cnt
    + v.bpb.num_fats * IF v.bpb.fat_sz_16 # 0 THEN v.bpb.fat_sz_16 ELSE v.bpb.fat_sz_32

EnoughForTable(v) == tot_sec(v) >= SectorsBefore(v)

\* The sectors of the root directory are added to the data sectors, not taken
\* from them.
determine_type(v) ==
  LET root_dir_sectors == (v.bpb.root_ent_cnt + byts_per_sec(v) - 1) \div byts_per_sec(v)
      clusters == (tot_sec(v) - SectorsBefore(v) + root_dir_sectors) \div v.bpb.sec_per_clus
  IN  IF clusters < FAT12_END THEN "Fat12" ELSE IF clusters < FAT16_END THEN "Fat16" ELSE "Fat32"

validate_bpb(v, t) ==
  LET b == v.bpb
  IN  /\ b.rsvd_sec_cnt # 0
      /\ IF t = "Fat32"
           THEN b.root_ent_cnt = 0 /\ b.tot_sec_16 = 0 /\ b.tot_sec_32 # 0 /\ b.fat_sz_16 = 0
           ELSE /\ b.root_ent_cnt % byts_per_sec(v) = 0
                /\ IF b.tot_sec_16 # 0 THEN b.tot_sec_32 = 0 ELSE b.tot_sec_32 >= SECTORS_16_END

\* Drive::read_mapped(), for the volume's sectors from start on.
ReadMapped(v, sectors) ==
  LET first == sectors.start * v.bpb.ratio
      count == (sectors.end - sectors.start) * v.bpb.ratio
  IN  FlattenSeq([i \in 1 .. count |-> v.disk[first + i - 1]])

\* The drive maps whole pages only.
WholePages(v, sectors) == ((sectors.end - sectors.start) * v.bpb.ratio) % PAGE_SECTORS = 0

\* What is mapped of a volume of a type.
Mappable(v, t) ==
  /\ WholePages(v, fat_sectors(v, t))
  /\ t # "Fat32" => WholePages(v, root_directory_sectors(v, t))
TableOf(v, t) == ReadMapped(v, fat_sectors(v, t))
RegionOf(v, t) == IF t = "Fat32" THEN <<>> ELSE ReadMapped(v, root_directory_sectors(v, t))
RootOf(v, t) == IF t = "Fat32" THEN Normal(v.bpb.root_clus) ELSE Region

\* main() and run(), until requests are served.
Mount ==
  /\ pc = "mount"
  /\ LET t == determine_type(volume)
     IN  IF ~EnoughForTable(volume) \/ ~validate_bpb(volume, t) \/ ~Mappable(volume, t)
           THEN Panic("assert") /\ UNCHANGED <<type, fat, rdr, objects>>
           ELSE /\ type' = t
                /\ fat' = TableOf(volume, t)
                /\ rdr' = RegionOf(volume, t)
                /\ objects' = {[at |-> <<>>, dir |-> RootOf(volume, t)]}
                /\ Goto("idle")
  /\ UNCHANGED <<volume, request, reply, spent, look, entries, file>>

-----------------------------------------------------------------------------
(* Chains of clusters. *)

\* The bytes of a cluster's entry in the table.
FatBytes(cluster) ==
  CASE type = "Fat12" -> [first |-> cluster + cluster \div 2, count |-> 2]
    [] type = "Fat16" -> [first |-> 2 * cluster, count |-> 2]
    [] type = "Fat32" -> [first |-> 4 * cluster, count |-> 4]

\* The entry without the four bits that are reserved in a Fat32 table.
read_fat_entry(cluster) ==
  LET at == FatBytes(cluster).first
      low == fat[at + 1] + 256 * fat[at + 2]
  IN  CASE type = "Fat12" -> IF cluster % 2 = 0 THEN low % 4096 ELSE low \div 16
        [] type = "Fat16" -> low
        [] type = "Fat32" -> low + 65536 * fat[at + 3] + 16777216 * (fat[at + 4] % 16)

EndMarks(t) ==
  CASE t = "Fat12" -> 4088 .. 4095
    [] t = "Fat16" -> 65528 .. 65535
    [] t = "Fat32" -> 268435448 .. 268435455

\* Numbers that no cluster has stand for the end of a chain and for an entry
\* the program does not handle.
NoCluster == 0
Unknown == 1

Successor(cluster) ==
  LET entry == read_fat_entry(cluster)
  IN  IF entry \in 2 .. max_cluster(volume, type) THEN entry
      ELSE IF entry \in EndMarks(type) THEN NoCluster ELSE Unknown

\* walk_clusters() looks a cluster's successor up before it yields the cluster.
\* The clusters are counted when the successor may be one, and the place of
\* clusters 0 and 1 cannot be computed.  That the cluster itself is one of the
\* volume's is not checked.
Enter(cluster) ==
  IF FatBytes(cluster).first + FatBytes(cluster).count > Len(fat) THEN Panic("index")
  ELSE IF read_fat_entry(cluster) >= 2 /\ ~EnoughForData(volume, type) THEN Panic("overflow")
  ELSE IF Successor(cluster) = Unknown THEN Panic("unimplemented")
  ELSE IF cluster < 2 THEN Panic("overflow")
  ELSE /\ walk' = [cluster |-> cluster, next |-> Successor(cluster), sector |-> 0]
       /\ pc' = "read" /\ UNCHANGED reason

\* Mutant: clusters are counted from 0.
MutantFromZero ==
  LET ratio == volume.bpb.ratio
      sector == DataStart(volume, type) + walk.cluster * volume.bpb.sec_per_clus + walk.sector \div ratio
  IN  ratio * sector + (walk.sector % ratio)

\* The sector of the drive that is read next: sectors_of_cluster() and
\* drive_sectors_of_sector().
DriveSector ==
  LET ratio == volume.bpb.ratio
      sector == DataStart(volume, type) + (walk.cluster - 2) * volume.bpb.sec_per_clus + walk.sector \div ratio
  IN  ratio * sector + (walk.sector % ratio)

RoundUp(n, unit) == unit * ((n + unit - 1) \div unit)

\* What a file takes while it is read, and its copy in shared memory.
Reserved(records) == RoundUp(records, DISK_SECTOR_SIZE)
Copied(records) == RoundUp(records, PAGE_SECTORS * DISK_SECTOR_SIZE)

\* read_file(): one sector.  The walk ends as soon as there is enough data, and
\* goes on to the next sector or the next cluster otherwise.  The kernel gives
\* up when it is asked for a sector the drive does not have.
ReadSector ==
  /\ pc = "read"
  /\ IF DriveSector \notin DOMAIN volume.disk \/ Len(data) + DISK_SECTOR_SIZE + kept > HEAP
       THEN /\ Panic(IF DriveSector \in DOMAIN volume.disk THEN "memory" ELSE "drive")
            /\ UNCHANGED data
       ELSE /\ data' = data \o volume.disk[DriveSector]
            /\ CASE size # NoSize /\ Len(data') >= size -> Goto("done")
                 [] OTHER ->
                      CASE walk.sector + 1 < volume.bpb.sec_per_clus * volume.bpb.ratio ->
                             walk' = [walk EXCEPT !.sector = @ + 1] /\ UNCHANGED <<pc, reason>>
                        [] OTHER -> IF walk.next = NoCluster THEN Goto("done") ELSE Enter(walk.next)
  /\ UNCHANGED <<mounted, served, spent, look, entries, size>>

-----------------------------------------------------------------------------
(* Names. *)

Upper(code) == IF code \in 97 .. 122 THEN code - 32 ELSE code

is_valid_short_char(code) ==
  code \in (65 .. 90) \cup (48 .. 57) \cup (128 .. 255)
           \cup {32, 33, 35, 36, 37, 38, 39, 40, 41, 45, 64, 94, 95, 96, 123, 125, 126}

is_valid_long_char(code) ==
  is_valid_short_char(code) \/ code >= 128 \/ code \in (97 .. 122) \cup {44, 46, 59, 61, 91, 93}

Padded(s, length) == [i \in 1 .. length |-> IF i <= Len(s) THEN s[i] ELSE 32]

\* The name an entry without a long name must have, or <<>> if there is none.
to_short_name(s) ==
  LET dots == {i \in DOMAIN s : s[i] = 46}
      dot == IF dots = {} THEN Len(s) + 1 ELSE CHOOSE i \in dots : \A j \in dots : i <= j
      main == SubSeq(s, 1, dot - 1)
      extension == SubSeq(s, dot + 1, Len(s))
      upper(part) == [i \in DOMAIN part |-> Upper(part[i])]
      valid(part) == \A i \in DOMAIN part : is_valid_short_char(Upper(part[i]))
  IN  IF Len(main) > MAIN_LEN \/ Len(extension) > EXT_LEN \/ ~valid(main) \/ ~valid(extension)
        THEN <<>>
        ELSE Padded(upper(main), MAIN_LEN) \o Padded(upper(extension), EXT_LEN)

compute_checksum(name) ==
  FoldLeft(LAMBDA sum, byte : ((sum % 2) * 128 + sum \div 2 + byte) % 256, 0, name)

ord(i, count) == i + IF i = count THEN 64 ELSE 0

\* What copy_long() leaves in its buffer: the last of the entries comes first.
copy_long(longs) ==
  [i \in 1 .. Len(longs) * MAX_LONG_ENTRY_LENGTH |->
     longs[Len(longs) - (i - 1) \div MAX_LONG_ENTRY_LENGTH].text[((i - 1) % MAX_LONG_ENTRY_LENGTH) + 1]]

\* postprocess_long_name(): the name ends before a zero, and is without the
\* spaces in front and the spaces and periods at the end.
NameEnd(raw) == IF \E i \in DOMAIN raw : raw[i] = 0 THEN SelectInSeq(raw, LAMBDA c : c = 0) ELSE Len(raw) + 1

LongName(raw) ==
  SubSeq(raw, SelectInSeq(raw, LAMBDA c : c # 32),
              SelectLastInSubSeq(raw, 1, NameEnd(raw) - 1, LAMBDA c : c \notin {32, 46}))

\* The assertions about a set of long entries and the short one they belong to;
\* an entry of the other kind has neither the number nor the checksum.
LongsValid(longs, short) ==
  /\ ~short.long
  /\ \A i \in DOMAIN longs :
        /\ longs[i].long
        /\ longs[i].ord = ord(Len(longs) + 1 - i, Len(longs))
        /\ longs[i].chksum = compute_checksum(short.name)

\* Surrogates come in pairs, a high one and a low one.
WellFormed(name) ==
  \A i \in DOMAIN name :
    /\ name[i] \in 55296 .. 56319 => i < Len(name) /\ name[i + 1] \in 56320 .. 57343
    /\ name[i] \in 56320 .. 57343 => i > 1 /\ name[i - 1] \in 55296 .. 56319

NameValid(raw) ==
  /\ \A i \in NameEnd(raw) + 1 .. Len(raw) : raw[i] = 65535
  /\ \A c \in Range(LongName(raw)) : is_valid_long_char(c)
  /\ Len(LongName(raw)) <= MAX_LONG_RESULT_LENGTH /\ WellFormed(LongName(raw))

-----------------------------------------------------------------------------
(* Following a path. *)

\* Mutant: paths start at the root, whatever directory a capability is for.
MutantFromRoot(op, object, path) ==
  /\ pc = "idle" /\ op # "write"
  /\ request' = [op |-> op, at |-> object.at, path |-> path]
  /\ reply' = NoReply
  /\ look' = [dir |-> RootOf(volume, type), path |-> path]
  /\ Goto("open")
  /\ UNCHANGED <<mounted, objects, spent, entries, file>>

\* A request arrives, as a client's generated code makes it.  Writing is not
\* implemented.
Call(op, object, path) ==
  /\ pc = "idle"
  /\ request' = [op |-> op, at |-> object.at, path |-> path]
  /\ reply' = NoReply
  /\ look' = [dir |-> object.dir, path |-> path]
  /\ IF op = "write" THEN Panic("unimplemented") ELSE Goto("open")
  /\ UNCHANGED <<mounted, objects, spent, entries, file>>

\* read_directory(): the copy of the region, or all the data of a chain.
OpenDirectory ==
  /\ pc = "open"
  /\ IF look.dir.normal
       THEN /\ Enter(look.dir.cluster)
            /\ data' = <<>> /\ size' = NoSize /\ UNCHANGED entries
       ELSE /\ entries' = rdr
            /\ Goto("scan") /\ UNCHANGED file
  /\ UNCHANGED <<mounted, served, spent, look>>

DirectoryRead ==
  /\ pc = "done" /\ size = NoSize
  /\ entries' = data /\ data' = <<>>
  /\ Goto("scan")
  /\ UNCHANGED <<mounted, served, spent, look, size>>

\* A capability takes a certificate, and its page may be full.
NoCertificate == certificates >= CERTIFICATES
allocate_certificate == certificates' = certificates + 1

\* The entry of the path's first name: another directory to look at, or the
\* object that was asked for.  No attribute is looked at.  Memory for a file is
\* taken before its first cluster is looked up.
Found(short) ==
  IF Len(look.path) > 1
    THEN /\ look' = [dir |-> Normal(short.cluster), path |-> Tail(look.path)]
         /\ Goto("open") /\ entries' = <<>> /\ UNCHANGED <<objects, certificates, file>>
  ELSE IF request.op = "subcapability"
    THEN /\ allocate_certificate
         /\ IF NoCertificate
              THEN Panic("certificates") /\ UNCHANGED <<objects, look, entries, file>>
              ELSE /\ objects' = objects \cup {[at |-> request.at \o request.path, dir |-> Normal(short.cluster)]}
                   /\ Return
  ELSE /\ data' = <<>> /\ size' = short.size
       /\ IF Reserved(short.size) + kept > HEAP THEN Panic("memory") ELSE Enter(short.cluster)
       /\ entries' = <<>> /\ UNCHANGED <<objects, certificates, look>>

\* Mutant: the short entry is passed together with its long name.
MutantSkipsAlias(count) == SubSeq(entries, count + IF entries[1].long THEN 2 ELSE 1, Len(entries))

\* Mutant: the entries of a long name are not passed.
MutantStays(count) == IF entries[1].long THEN entries ELSE Tail(entries)

\* The entries after the first of them.
After(count) == SubSeq(entries, count + 1, Len(entries))

\* One turn of the loop of traverse_path().
Yield(short, matches, count) ==
  CASE short.name[1] = 0 -> Panic("not found") /\ UNCHANGED <<objects, certificates, look, entries, file>>
    [] short.name[1] # 0 /\ short.name[1] # 229 /\ matches -> Found(short)
    [] OTHER -> Goto("scan") /\ entries' = After(count) /\ UNCHANGED <<objects, certificates, look, file>>

ShortEntry ==
  /\ pc = "scan" /\ entries # <<>> /\ ~entries[1].long
  /\ Yield(entries[1], to_short_name(look.path[1]) = entries[1].name, 1)
  /\ UNCHANGED <<mounted, request, reply, kept>>

\* try_as_first_long(): the number of entries of a long name, if it is one.
LongCount(entry) == IF entry.ord \in 65 .. 64 + MAX_LONG_ENTRIES THEN entry.ord - 64 ELSE 0

\* A set of long entries that a short one follows, from place k on.
LongSet(e, k) ==
  LET count == LongCount(e[k])
      longs == SubSeq(e, k, k + count - 1)
  IN  /\ count > 0 /\ k + count <= Len(e)
      /\ LongsValid(longs, e[k + count]) /\ NameValid(copy_long(longs))

LongNameAt(e, k) == LongName(copy_long(SubSeq(e, k, k + LongCount(e[k]) - 1)))

\* A long name: the short entry after it is yielded with the name, and then
\* again without it.
LongEntry ==
  /\ pc = "scan" /\ entries # <<>> /\ entries[1].long
  /\ LET count == LongCount(entries[1])
     IN  IF LongSet(entries, 1)
           THEN Yield(entries[1 + count], LongNameAt(entries, 1) = look.path[1], count)
           ELSE /\ Panic(IF count >= Len(entries) THEN "index" ELSE "assert")
                /\ UNCHANGED <<objects, certificates, look, entries, file>>
  /\ UNCHANGED <<mounted, request, reply, kept>>

\* The loop only ends at an entry that says so: the iterator takes the first
\* entry of a slice that may be empty.
NoEntry ==
  /\ pc = "scan" /\ entries = <<>>
  /\ Panic("index")
  /\ UNCHANGED <<mounted, served, spent, look, entries, file>>

\* A directory entry of zeros, and so the record that data is filled up with.
End == [long |-> FALSE, name |-> [i \in 1 .. MAIN_LEN + EXT_LEN |-> 0], cluster |-> 0, size |-> 0]

\* The data, cut off or filled up with zeros.
Data == [i \in 1 .. size |-> IF i <= Len(data) THEN data[i] ELSE End]

Answer == reply' = [given |-> TRUE, data |-> Data] /\ Return

\* read() answers with the data, which has to fit in the buffer of a reply.
Read ==
  /\ pc = "done" /\ size # NoSize /\ request.op = "read"
  /\ IF size > REPLY
       THEN Panic("reply") /\ UNCHANGED <<reply, look, entries, file>>
       ELSE Answer
  /\ UNCHANGED <<mounted, objects, request, spent>>

\* read_large() answers with a copy in shared memory, which is never freed, and
\* forwards the capability for it.
ReadLarge ==
  /\ pc = "done" /\ size # NoSize /\ request.op = "read_large"
  /\ IF Reserved(size) + Copied(size) + kept > HEAP
       THEN Panic("memory") /\ UNCHANGED <<reply, spent, look, entries, file>>
       ELSE /\ kept' = kept + Copied(size) /\ allocate_certificate
            /\ IF NoCertificate
                 THEN Panic("certificates") /\ UNCHANGED <<reply, look, entries, file>>
                 ELSE Answer
  /\ UNCHANGED <<mounted, objects, request>>

-----------------------------------------------------------------------------
(* The specification. *)

Serve ==
  \/ Mount \/ OpenDirectory \/ DirectoryRead \/ ShortEntry \/ LongEntry \/ NoEntry
  \/ ReadSector \/ Read \/ ReadLarge

Operations == {"read", "read_large", "subcapability", "write"}

FatNext ==
  \/ Serve
  \/ \E op \in Operations, object \in objects, path \in Paths : Call(op, object, path)

\* The kernel lets the program run again and again, and answers its requests
\* for sectors.
FatSpec == FatInit /\ [][FatNext]_fat_vars /\ WF_fat_vars(Serve)

-----------------------------------------------------------------------------
(* Volumes.  A volume says which files and directories were stored on it:  *)
(* the paths each is found by, its chain of clusters and its data, and     *)
(* whether it is sound.  What that means is said here in the terms of the  *)
(* format, so that the assumption holds of volumes written by others.      *)

\* The names that are asked for.
Names == UNION {Range(path) : path \in Paths}

Fields == {"ratio", "sec_per_clus", "rsvd_sec_cnt", "num_fats", "root_ent_cnt", "tot_sec_16",
           "tot_sec_32", "fat_sz_16", "fat_sz_32", "root_clus"}

\* The records after the table.
RecordsOf(v, t) ==
  UNION {Range(v.disk[s]) : s \in {x \in DOMAIN v.disk : x >= v.bpb.ratio * fat_sectors(v, t).end}}

\* A drive as it has to be, whatever is wrong with what is stored on it: bytes
\* in the table, and sectors of one size after it.
Readable(v) ==
  LET t == determine_type(v)
  IN  /\ v.bpb \in [Fields -> Nat] /\ v.bpb.ratio > 0 /\ v.bpb.sec_per_clus > 0
      /\ TableOf(v, t) \in Seq(0 .. 255) /\ RegionOf(v, t) \in Seq(RecordsOf(v, t))
      /\ \A s \in DOMAIN v.disk :
            s >= v.bpb.ratio * DataStart(v, t) => v.disk[s] \in [1 .. DISK_SECTOR_SIZE -> RecordsOf(v, t)]
      /\ \A r \in RecordsOf(v, t) : ~r.long => r.cluster \in Nat /\ r.size \in Nat

\* The sectors of the drive that a cluster takes, and the records in them.
ClusterSectors(v) == v.bpb.ratio * v.bpb.sec_per_clus
ClusterRecords(v) == ClusterSectors(v) * DISK_SECTOR_SIZE
FirstSector(v, t, cluster) ==
  v.bpb.ratio * DataStart(v, t) + (cluster - 2) * ClusterSectors(v)

\* The table is an array of numbers of three, four or eight hexadecimal digits,
\* the lowest first, the last of eight being reserved.
Digits(t) == CASE t = "Fat12" -> 3 [] t = "Fat16" -> 4 [] t = "Fat32" -> 8

Digit(table, i) == (table[i \div 2 + 1] \div IF i % 2 = 0 THEN 1 ELSE 16) % 16

Link(table, t, cluster) ==
  LET d(i) == Digit(table, Digits(t) * cluster + i)
      low == d(0) + 16 * d(1) + 256 * d(2)
  IN  CASE t = "Fat12" -> low
        [] t = "Fat16" -> low + 4096 * d(3)
        [] t = "Fat32" -> low + 4096 * d(3) + 65536 * d(4) + 1048576 * d(5) + 16777216 * d(6)

\* A file's clusters, each of which leads to the next and the last to none.
Chained(v, t, chain) ==
  /\ chain \in Seq(2 .. max_cluster(v, t))
  /\ \A i \in DOMAIN chain :
        LET first == FirstSector(v, t, chain[i])
            link == Link(TableOf(v, t), t, chain[i])
        IN  /\ Digits(t) * (chain[i] + 1) <= 2 * Len(TableOf(v, t))
            /\ IF i < Len(chain) THEN link = chain[i + 1]
                                 ELSE link \in EndMarks(t) /\ link > max_cluster(v, t)
            /\ first .. first + ClusterSectors(v) - 1 \subseteq DOMAIN v.disk

FirstCluster(f) == IF f.chain = <<>> THEN 0 ELSE f.chain[1]

\* The root directory of a Fat12 or Fat16 volume is a region of its own.
InRegion(t, f) == <<>> \in f.paths /\ t # "Fat32"
DirectoryOf(t, f) == IF InRegion(t, f) THEN Region ELSE Normal(FirstCluster(f))

\* The records of a file's clusters, one after the other.
Contents(v, t, f) ==
  IF InRegion(t, f)
    THEN RegionOf(v, t)
    ELSE [k \in 1 .. Len(f.chain) * ClusterRecords(v) |->
            LET cluster == f.chain[(k - 1) \div ClusterRecords(v) + 1]
                place == (k - 1) % ClusterRecords(v)
            IN  v.disk[FirstSector(v, t, cluster) + place \div DISK_SECTOR_SIZE]
                      [(place % DISK_SECTOR_SIZE) + 1]]

\* Place k of a directory gives an entry a name: a set of long entries that
\* begins there its long name, a short entry its short one.
EntryAt(e, k) == e[k + IF e[k].long THEN LongCount(e[k]) ELSE 0]

NamedAt(e, k, name) ==
  /\ IF e[k].long THEN LongSet(e, k) /\ LongNameAt(e, k) = name
                  ELSE to_short_name(name) = e[k].name
  /\ EntryAt(e, k).name[1] \notin {0, 229}

\* Nothing before a place of a directory ends it, or is half a long name.
Passable(e, k) ==
  \A i \in 1 .. k - 1 :
    IF e[i].long
      THEN \E l \in 1 .. i : e[l].long /\ LongSet(e, l) /\ i < l + LongCount(e[l])
      ELSE e[i].name[1] # 0

\* What an entry that a path leads to says of the file there; a path to no file
\* leads to an entry without clusters, as that of the volume's label.
Describes(v, entry, path) ==
  IF \E f \in v.files : path \in f.paths
    THEN \E f \in v.files :
           path \in f.paths /\ entry.cluster = FirstCluster(f) /\ entry.size = Len(f.data)
    ELSE entry.cluster = 0

Sound(v) ==
  LET t == determine_type(v)
      contents == [f \in v.files |-> Contents(v, t, f)]
  IN  /\ validate_bpb(v, t)
      \* the sectors of all parts are counted among the volume's
      /\ EnoughForTable(v) /\ EnoughForData(v, t)
      \* the root, and paths that name one file each
      /\ \E f \in v.files : f.paths = {<<>>} /\ DirectoryOf(t, f) = RootOf(v, t)
      /\ \A f, g \in v.files : f.paths \cap g.paths # {} => f = g
      \* what is stored
      /\ \A f \in v.files :
            /\ Chained(v, t, f.chain) /\ Len(contents[f]) <= HEAP
            /\ \E n \in 0 .. Len(contents[f]) : f.data = SubSeq(contents[f], 1, n)
      \* what is found, and that everything is
      /\ \A f \in v.files : \A path \in f.paths, k \in DOMAIN contents[f], name \in Names :
            NamedAt(contents[f], k, name) =>
              Describes(v, EntryAt(contents[f], k), Append(path, name))
      /\ \A f \in v.files : \A path \in f.paths : \A i \in 1 .. Len(path) :
            \E g \in v.files : \E k \in DOMAIN contents[g] :
              /\ SubSeq(path, 1, i - 1) \in g.paths
              /\ NamedAt(contents[g], k, path[i]) /\ Passable(contents[g], k)

ASSUME FatAssumption ==
  /\ DISK_SECTOR_SIZE \in Nat \ {0} /\ PAGE_SECTORS \in Nat \ {0} /\ CERTIFICATES \in Nat
  /\ MAX_LONG_ENTRIES \in 0 .. 63
  /\ HEAP \in 0 .. NoSize - 1 /\ HEAP % DISK_SECTOR_SIZE = 0
  /\ Names \subseteq Seq((0 .. 127) \ {47})
  /\ Paths \subseteq Seq(Names) \ {<<>>}
  /\ \A v \in Volumes : Readable(v) /\ v.sound = Sound(v)

-----------------------------------------------------------------------------
(* Properties. *)

Asked == request.at \o request.path

\* The state has its shape.
FatTypeOK ==
  /\ type \in {"none", "Fat12", "Fat16", "Fat32"}
  /\ pc \in {"mount", "idle", "open", "scan", "read", "done", "panicked"}
  /\ certificates \in Nat /\ kept \in Nat /\ Len(data) <= HEAP

\* A read is answered with the data of the file that the path names, whatever
\* the type of the volume, the order of the file's clusters and the form of
\* the names on the way; a path that names nothing is not answered.
ReadsExact ==
  volume.sound /\ pc = "idle" /\ reply.given =>
    \E f \in volume.files : Asked \in f.paths /\ reply.data = f.data

\* What ends the program on a sound volume, and nothing else does: its table or
\* its root directory region does not fill whole pages and cannot be mapped; a
\* client writes, or asks for what is not there, or reads an empty file, whose
\* first cluster is 0, or a file that does not fit in a reply; certificates are
\* used up, of which every subcapability and every large read takes one for
\* good; or memory is, of which every large read takes some for good.
FilesFound ==
  volume.sound /\ pc = "panicked" =>
    \/ request.op = "none" /\ ~Mappable(volume, determine_type(volume))
    \/ request.op = "write"
    \/ ~\E f \in volume.files : Asked \in f.paths
    \/ /\ request.op \in {"read", "read_large"}
       /\ \E f \in volume.files : Asked \in f.paths /\ f.chain = <<>>
    \/ /\ request.op = "read"
       /\ \E f \in volume.files : Asked \in f.paths /\ Len(f.data) > REPLY
    \/ request.op \in {"subcapability", "read_large"} /\ certificates > CERTIFICATES
    \/ reason = "memory" /\ (request.op = "read_large" \/ kept > 0)

\* On any volume, a cluster the volume does not have is read only as the first
\* of a chain, which a directory entry or the parameter block names and nothing
\* checks: no other is followed.  On a sound volume, a request through a
\* directory's capability reads only that directory, what is in it, and nothing
\* that is not on its path: no name leads upwards.
Confined ==
  /\ FatTypeOK
  /\ pc = "read" =>
       /\ walk.next \in {NoCluster} \cup 2 .. max_cluster(volume, type)
       /\ walk.cluster \notin 2 .. max_cluster(volume, type) => Len(data) = walk.sector * DISK_SECTOR_SIZE
  /\ volume.sound /\ pc = "read" =>
       \E f \in volume.files :
         /\ walk.cluster \in Range(f.chain)
         /\ \E path \in f.paths : IsPrefix(request.at, path) /\ IsPrefix(path, Asked)

\* Every request is answered or ends the program, also on a damaged volume
\* where a chain is a cycle.
RequestsEnd == pc \in {"open", "scan", "read", "done"} ~> pc \in {"idle", "panicked"}

=============================================================================
