------------------------------- MODULE MCFat -------------------------------
(***************************************************************************)
(* Volumes for TLC, of each type and laid out in several ways.             *)
(*                                                                         *)
(* Their root directory holds a label, a deleted file, a file "a" of two   *)
(* clusters in either order, an empty file "e", and a directory "Dir"      *)
(* with a long name and the alias "D~"; the directory fills four clusters  *)
(* and holds a file "b.c".  Other volumes have one thing wrong each; the   *)
(* one whose tables cannot be mapped, for their odd number, is sound.      *)
(***************************************************************************)
EXTENDS Fat

\* Entries.  Names have two characters and one in the extension.
Short(name, cluster, records) ==
  [long |-> FALSE, name |-> name, cluster |-> cluster, size |-> records]
Long(n, text, name) ==
  [long |-> TRUE, ord |-> n, text |-> text, chksum |-> compute_checksum(name)]
Record(n) == Short(<<128, n, 32>>, 9999, n)

A == <<65, 32, 32>>
E == <<69, 32, 32>>
B == <<66, 32, 67>>
D == <<68, 126, 32>>
Dot == <<46, 32, 32>>
DotDot == <<46, 46, 32>>
Label == <<76, 32, 32>>
Deleted == <<229, 32, 32>>

\* The long name "Dir" in two entries of two characters.
DirLongs == <<Long(66, <<114, 0>>, D), Long(1, <<68, 105>>, D)>>

RootEntries(a, d) ==
  <<Short(Label, 0, 0), Short(Deleted, a, 1)>> \o DirLongs
    \o <<Short(D, d, 0), Short(A, a, 5), Short(E, 0, 0), End>>

DirEntries(d, b) ==
  <<Short(Dot, d, 0), Short(DotDot, 0, 0), Short(Deleted, 0, 0), Short(Deleted, 0, 0),
    Short(B, b, 2), Short(E, 0, 0)>>

Records(first, count) == [i \in 1 .. count |-> Record(first + i)]

\* Parameter blocks.
Bpb(ratio, spc, fats, root, tot16, tot32, sz16, sz32) ==
  [ratio |-> ratio, sec_per_clus |-> spc, rsvd_sec_cnt |-> 1, num_fats |-> fats,
   root_ent_cnt |-> root, tot_sec_16 |-> tot16, tot_sec_32 |-> tot32,
   fat_sz_16 |-> sz16, fat_sz_32 |-> sz32, root_clus |-> 0]

Bpb12 == Bpb(1, 1, 2, 8, 17, 0, 1, 0)     \* 10 clusters
Bpb16 == Bpb(2, 1, 2, 8, 0, 26, 1, 0)     \* 21 clusters
Bpb32 == Bpb(1, 2, 2, 0, 0, 61, 0, 1)     \* 29 clusters

\* Parts of a volume: the records of a cluster, and the chains.
Place(t) ==
  CASE t = "Fat12" -> [bpb |-> Bpb12, max |-> 11, records |-> 2, a |-> 3, d |-> 3, root |-> 0, mark |-> 4095]
    [] t = "Fat16" -> [bpb |-> Bpb16, max |-> 22, records |-> 4, a |-> 2, d |-> 2, root |-> 0, mark |-> 65535]
    [] t = "Fat32" -> [bpb |-> Bpb32, max |-> 30, records |-> 4, a |-> 2, d |-> 2, root |-> 2, mark |-> 268435455]

\* Bytes of the table's entries, a pair of them at a time.
Bytes(t, x, y) ==
  CASE t = "Fat12" -> <<x % 256, x \div 256 + 16 * (y % 16), y \div 16>>
    [] t = "Fat16" -> <<x % 256, x \div 256, y % 256, y \div 256>>
    [] t = "Fat32" -> <<x % 256, (x \div 256) % 256, (x \div 65536) % 256, x \div 16777216,
                        y % 256, (y \div 256) % 256, (y \div 65536) % 256, 240 + y \div 16777216>>

\* A volume with its clusters in a given order and one thing wrong, or none.
Format(t, order, wrong) ==
  LET p == Place(t)
      a == SubSeq(order, 1, p.a)
      d == SubSeq(order, p.a + 1, p.a + p.d)
      b == <<order[p.a + p.d + 1]>>
      root == SubSeq(order, p.a + p.d + 2, p.a + p.d + 1 + p.root)
      first_a == IF wrong = "range" THEN p.max + 1 ELSE a[1]
      entries_of == RootEntries(first_a, d[1])
      root_entries == CASE wrong = "deleted" -> [entries_of EXCEPT ![2] = Long(229, <<68, 105>>, D)]
                        [] wrong = "surrogate" -> [entries_of EXCEPT ![4] = Long(1, <<55296, 105>>, D)]
                        [] OTHER -> entries_of
      stored == {[chain |-> a, data |-> Records(0, 5)], [chain |-> b, data |-> Records(8, 2)],
                 [chain |-> d, data |-> DirEntries(d[1], b[1])], [chain |-> root, data |-> root_entries]}
      next(c) ==
        LET has == {s \in stored : c \in Range(s.chain)}
        IN  CASE c < 2 -> p.mark
              [] c >= 2 /\ has = {} -> 0
              [] wrong = "bad" /\ c = a[1] -> p.mark - 8
              [] wrong = "short" /\ c = a[1] -> p.mark
              [] wrong = "cycle" /\ c = Last(d) -> d[1]
              [] OTHER -> LET s == CHOOSE s \in has : TRUE
                              i == CHOOSE i \in DOMAIN s.chain : s.chain[i] = c
                          IN  IF i = Len(s.chain) THEN p.mark ELSE s.chain[i + 1]
      bytes == FlattenSeq([i \in 1 .. p.max \div 2 + 1 |-> Bytes(t, next(2 * i - 2), next(2 * i - 1))])
      \* record r of cluster c
      record(c, r) ==
        LET has == {s \in stored : c \in Range(s.chain)}
        IN  IF has = {} THEN End
            ELSE LET s == CHOOSE s \in has : TRUE
                     i == (CHOOSE i \in DOMAIN s.chain : s.chain[i] = c) - 1
                 IN  IF i * p.records + r <= Len(s.data) THEN s.data[i * p.records + r] ELSE End
      bpb == [p.bpb EXCEPT !.root_clus = IF p.root = 0 THEN 0 ELSE root[1],
                           !.num_fats = IF wrong = "half page" THEN @ + 1 ELSE @,
                           !.tot_sec_16 = CASE wrong = "no table" -> 2
                                            [] wrong = "no clusters" -> 4
                                            [] OTHER -> @,
                           !.tot_sec_32 = IF wrong = "bpb" THEN 17 ELSE @]
      fats == bpb.num_fats * bpb.ratio                \* drive sectors of the tables
      base == bpb.ratio + fats                        \* of what is before the root directory
      start == base + bpb.root_ent_cnt \div 2         \* of what is before the clusters
      half == Len(bytes) \div bpb.ratio
      sector(s) ==
        CASE s < bpb.ratio -> <<>>
          [] s >= bpb.ratio /\ s < base ->
               LET part == (s - bpb.ratio) % bpb.ratio
               IN  SubSeq(bytes, part * half + 1, (part + 1) * half)
          [] s >= base /\ s < start -> SubSeq(root_entries, 2 * (s - base) + 1, 2 * (s - base) + 2)
          [] s >= start ->
               LET per == p.records \div 2
                   c == (s - start) \div per + 2
                   r == 2 * ((s - start) % per)
               IN  <<record(c, r + 1), record(c, r + 2)>>
      total == p.bpb.ratio * IF p.bpb.tot_sec_16 # 0 THEN p.bpb.tot_sec_16 + 1 ELSE p.bpb.tot_sec_32
      names(s) == {<<n>> : n \in s}
      dirs == {<<68, 105, 114>>, <<68, 126>>, <<100, 126>>}
      tree(paths, chain, contents) == [paths |-> paths, chain |-> chain, data |-> contents]
  IN  [bpb |-> bpb, disk |-> [s \in 0 .. total - 1 |-> sector(s)], sound |-> wrong \in {"nothing", "half page"},
       files |->
         {tree({<<>>}, root, <<>>), tree(names({<<97>>, <<65>>}), a, Records(0, 5)),
          tree(names({<<101>>, <<69>>}), <<>>, <<>>), tree(names(dirs), d, <<>>),
          tree({<<n, <<98, 46, 99>>>> : n \in dirs}, b, Records(8, 2)),
          tree({<<n, <<101>>>> : n \in dirs}, <<>>, <<>>)}]

Upward(t) == [i \in 1 .. 9 |-> i + 1]
Downward(t) == [i \in 1 .. 9 |-> Place(t).max + 1 - i]
Mixed(t) == <<5, 3, 8, 2, 9, 4, 7, 10, 6>>

SomeVolumes ==
  {Format(t, order, "nothing") : <<t, order>> \in
     UNION {{<<t, Upward(t)>>, <<t, Downward(t)>>, <<t, Mixed(t)>>} : t \in {"Fat12", "Fat16", "Fat32"}}}
  \cup {Format("Fat12", Mixed("Fat12"), wrong) :
          wrong \in {"bad", "short", "cycle", "range", "deleted", "surrogate",
                    "bpb", "half page", "no table", "no clusters"}}

SomePaths ==
  LET a == <<97>>  upper_a == <<65>>  e == <<101>>  label == <<108>>  missing == <<120>>
      dir == <<68, 105, 114>>  alias == <<100, 126>>  bc == <<98, 46, 99>>  up == <<46, 46>>
  IN  {<<a>>, <<upper_a>>, <<e>>, <<label>>, <<missing>>, <<dir>>, <<alias>>, <<bc>>,
       <<dir, bc>>, <<alias, bc>>, <<alias, e>>, <<dir, up, a>>, <<up, a>>, <<a, bc>>}

=============================================================================
