------------------------------ MODULE MountTable ------------------------------
(***************************************************************************)
(* The copy of /proc/mounts (src/mount) and the lookup that tells files on *)
(* DAX mounts from others (src/nvmm).  A mount point or a file is a        *)
(* sequence of names, a name a sequence of characters; the program only    *)
(* sees the text.  A mount is [device, point, options] in the order of     *)
(* /proc/mounts, an entry of the table [path, options].                    *)
(***************************************************************************)
EXTENDS Integers, Sequences

LOCAL INSTANCE SequencesExt

Text(names) ==
  IF names = <<>> THEN <<"/">>
  ELSE FlattenSeq([i \in DOMAIN names |-> <<"/">> \o names[i]])

\* The kernel writes a blank in a mount point as \040.
Mangled(text) == [i \in DOMAIN text |-> IF text[i] = " " THEN "\\040" ELSE text[i]]

\* mount_details_init_by_line fails on a line with too few words, as an empty
\* device leaves it.
Parses(m) == m.device # ""

Details(m) == [path |-> Mangled(Text(m.point)), options |-> m.options]

\* mount_update on an empty table, when all lines can be read.
Loaded(mounts) == [i \in DOMAIN mounts |-> Details(mounts[i])]

-----------------------------------------------------------------------------
\* Mutant: a mount point may end within a name.
PathStarts(path, point) ==
  IF point = <<"/">> THEN 1
  ELSE IF IsPrefix(point, path) THEN Len(point) + 1 ELSE 0

\* path_on_mountpoint: how much of the path the mount point is, or 0.
PathOnMountpoint(path, point) ==
  IF point = <<"/">> THEN 1
  ELSE IF IsStrictPrefix(point, path) /\ path[Len(point) + 1] = "/"
       THEN Len(point) + 1 ELSE 0

\* mount_query: the entries with the longest match, of which the first wins.
MountQuery(table, path) ==
  LET len(i) == PathOnMountpoint(path, table[i].path)
  IN  {i \in DOMAIN table :
         /\ len(i) > 0
         /\ \A j \in DOMAIN table : len(j) =< len(i) /\ (j < i => len(j) < len(i))}

\* strstr(options, "dax")
SaysDax(options) == options \in {"dax", "dax=always", "dax=inode", "dax=never"}

\* nvmm_lookup_query
NvmmLookupQuery(table, path) ==
  \E i \in MountQuery(table, path) : SaysDax(table[i].options)

-----------------------------------------------------------------------------
\* What the kernel does: a file is on the deepest mount point above it.
Above(m, file) == IsStrictPrefix(m.point, file)

OnDax(mounts, file) ==
  \E i \in DOMAIN mounts :
    /\ Above(mounts[i], file)
    /\ \A j \in DOMAIN mounts :
         Above(mounts[j], file) => Len(mounts[j].point) =< Len(mounts[i].point)
    /\ mounts[i].options \in {"dax", "dax=always"}

\* No mount hides an earlier one, mount points have no blanks, and DAX is not
\* left to the single file or ruled out.
Plain(mounts) ==
  /\ \A i, j \in DOMAIN mounts : i < j => ~IsPrefix(mounts[j].point, mounts[i].point)
  /\ \A i \in DOMAIN mounts :
       /\ Mangled(Text(mounts[i].point)) = Text(mounts[i].point)
       /\ mounts[i].options \notin {"dax=inode", "dax=never"}
=============================================================================
