-------------------------------- MODULE Sync --------------------------------
(***************************************************************************)
(* The directory synchroniser of Assignment 9 (sync.c): `sync SRC DST`     *)
(* makes the tree under DST a copy of the tree under SRC, reporting every  *)
(* change as "[c] path".  The program is sequential, so one run of         *)
(* synchronize() is a single step of the state machine; the recursion of   *)
(* sync_dirs, remove_directory and sync_time_permissions is written as     *)
(* RECURSIVE operators over a file system and the set of reports.          *)
(*                                                                         *)
(* The file system fs maps a path (a sequence of names whose first element *)
(* is the root "S" or "D") to a node: a directory or a regular file with   *)
(* its data, mtime and mode.  Both roots exist.  A loop over the entries   *)
(* of a directory is a FoldSet over their names: with no links and no      *)
(* failing calls the entries of one directory touch disjoint subtrees, and *)
(* the only state they share, the directory's mtime, they all set to NOW,  *)
(* so the readdir order does not change the result.                        *)
(***************************************************************************)
EXTENDS Integers, Sequences, FiniteSetsExt, Functions, TLC

CONSTANTS
  Data,    \* file contents, told apart only by equality and Size
  Size,    \* Size[d]: st_size of a file holding d
  Times,   \* mtimes the trees start with, all before NOW
  NOW,     \* the clock while sync runs: the mtime of what it writes
  Modes,   \* permission bits; all of them let the owner read and write
  Umask,   \* Umask[m]: m with the process umask applied (mkdir, O_CREAT)
  Names,   \* entry names
  Start    \* the file systems a run may start from

VARIABLES
  fs,      \* the file system
  fs0,     \* the file system before the first run
  pc,      \* "start", "once" (after one run) or "twice"
  rep      \* the reports of the last run: a set of <<dst path, symbol>>

vars == <<fs, fs0, pc, rep>>

Dir(t, m) == [kind |-> "dir", data |-> "none", mtime |-> t, mode |-> m]
File(d, t, m) == [kind |-> "file", data |-> d, mtime |-> t, mode |-> m]

Src(r) == <<"S">> \o r
Dst(r) == <<"D">> \o r
Parent(p) == SubSeq(p, 1, Len(p) - 1)
IsDir(f, p) == p \in DOMAIN f /\ f[p].kind = "dir"
\* the names readdir returns for directory p, "." and ".." skipped
Entries(f, p) == { n \in Names : p \o <<n>> \in DOMAIN f }
\* p and every path below it
Subtree(f, p) == { q \in DOMAIN f : Len(q) >= Len(p) /\ SubSeq(q, 1, Len(p)) = p }

(***************************************************************************)
(* The system calls, on a state st = [fs, rep].  Creating or removing an   *)
(* entry sets the mtime of the directory holding it to NOW.                *)
(***************************************************************************)
report_change(st, p, c) == [st EXCEPT !.rep = @ \cup {<<p, c>>}]

Touch(f, p) == [f EXCEPT ![Parent(p)].mtime = NOW]

\* mkdir(p, mode): the new directory gets mode with the umask applied
MakeDir(st, p, m) ==
  [st EXCEPT !.fs = Touch((p :> Dir(NOW, Umask[m])) @@ @, p)]

\* remove(p) of a file
RemoveFile(st, p) ==
  [st EXCEPT !.fs = Touch(Restrict(@, DOMAIN @ \ {p}), p)]

\* mutant: only the directory itself is reported
RemoveDirectoryTopOnly(st, p) ==
  LET gone == Subtree(st.fs, p)
  IN  [fs  |-> Touch(Restrict(st.fs, DOMAIN st.fs \ gone), p),
       rep |-> st.rep \cup {<<p, "-">>}]

\* remove_directory(p): every file is reported '-' as it is removed, and
\* every directory '-' after its rmdir, so the whole subtree is reported
RemoveDirectory(st, p) ==
  LET gone == Subtree(st.fs, p)
  IN  [fs  |-> Touch(Restrict(st.fs, DOMAIN st.fs \ gone), p),
       rep |-> st.rep \cup { <<q, "-">> : q \in gone }]

\* open(d, O_WRONLY | O_CREAT ..., mode) and the read/write loop copying
\* src into it: a new file gets mode with the umask applied and its
\* parent's mtime changes; an existing one (O_TRUNC) keeps its mode
CopyFile(st, s, d) ==
  IF d \in DOMAIN st.fs
  THEN [st EXCEPT !.fs[d] = File(st.fs[s].data, NOW, @.mode)]
  ELSE [st EXCEPT !.fs = Touch((d :> File(st.fs[s].data, NOW,
                                          Umask[st.fs[s].mode])) @@ @, d)]

\* mutant: the quick check compares sizes only
DiffersSizeOnly(f, s, d) == Size[f[s].data] # Size[f[d].data]

\* the quick check of sync_dirs: a file is copied over an existing one
\* only when size or mtime differ
Differs(f, s, d) ==
  Size[f[s].data] # Size[f[d].data] \/ f[s].mtime # f[d].mtime

(***************************************************************************)
(* sync_dirs(src/r, dst/r): the first loop handles each source entry, the  *)
(* second, after rewinddir, removes the destination entries with no        *)
(* source entry of that name.                                              *)
(***************************************************************************)
RECURSIVE SyncDirs(_, _), SyncEntry(_, _)

SyncEntry(st, r) ==
  LET s == Src(r)
      d == Dst(r)
      f == st.fs
  IN  IF IsDir(f, s)
      THEN LET st1 ==
                 IF d \notin DOMAIN f
                 THEN report_change(MakeDir(st, d, f[s].mode), d, "+")
                 ELSE IF ~IsDir(f, d)
                 THEN report_change(MakeDir(report_change(RemoveFile(st, d), d, "-"),
                                            d, f[s].mode), d, "+")
                 ELSE st
           IN  SyncDirs(st1, r)
      ELSE IF d \notin DOMAIN f
      THEN report_change(CopyFile(st, s, d), d, "+")
      ELSE LET flag == IsDir(f, d)
               st1  == IF flag THEN RemoveDirectory(st, d) ELSE st
           IN  IF flag \/ Differs(f, s, d)
               THEN report_change(CopyFile(st1, s, d), d, IF flag THEN "+" ELSE "o")
               ELSE st1

\* mutant: stale directories are left in place
RemoveStaleFilesOnly(st, r) ==
  LET d == Dst(r)
  IN  IF Src(r) \in DOMAIN st.fs \/ IsDir(st.fs, d) THEN st
      ELSE report_change(RemoveFile(st, d), d, "-")

\* mutant: the report names src_item_path, built next to dst_item_path
RemoveStaleReportSrc(st, r) ==
  LET d == Dst(r)
  IN  IF Src(r) \in DOMAIN st.fs THEN st
      ELSE IF IsDir(st.fs, d) THEN RemoveDirectory(st, d)
      ELSE report_change(RemoveFile(st, d), Src(r), "-")

\* the second loop's body for one destination entry
RemoveStale(st, r) ==
  LET d == Dst(r)
  IN  IF Src(r) \in DOMAIN st.fs THEN st
      ELSE IF IsDir(st.fs, d) THEN RemoveDirectory(st, d)
      ELSE report_change(RemoveFile(st, d), d, "-")

SyncDirs(st, r) ==
  LET st1 == FoldSet(LAMBDA n, acc : SyncEntry(acc, r \o <<n>>),
                     st, Entries(st.fs, Src(r)))
  IN  FoldSet(LAMBDA n, acc : RemoveStale(acc, r \o <<n>>),
              st1, Entries(st1.fs, Dst(r)))

(***************************************************************************)
(* sync_time_permissions(src/r, dst/r): recurse into the directories, set  *)
(* each file's mtime (futimes) and mode (fchmod) to the source's, then do  *)
(* the same for the directory itself, after its entries.                   *)
(***************************************************************************)
\* mutant: 't' reported without the time_changed test
SetTimePermAlwaysT(st, r) ==
  LET s  == Src(r)
      d  == Dst(r)
      f  == st.fs
      st2 == report_change([st EXCEPT !.fs[d].mtime = f[s].mtime], d, "t")
  IN  IF f[s].mode # f[d].mode
      THEN report_change([st2 EXCEPT !.fs[d].mode = f[s].mode], d, "p")
      ELSE st2

\* the futimes and fchmod of one destination node, with their reports
SetTimePerm(st, r) ==
  LET s  == Src(r)
      d  == Dst(r)
      f  == st.fs
      st1 == [st EXCEPT !.fs[d].mtime = f[s].mtime]
      st2 == IF f[s].mtime # f[d].mtime THEN report_change(st1, d, "t") ELSE st1
  IN  IF f[s].mode # f[d].mode
      THEN report_change([st2 EXCEPT !.fs[d].mode = f[s].mode], d, "p")
      ELSE st2

RECURSIVE SyncTimePerm(_, _)
SyncTimePerm(st, r) ==
  LET st1 == FoldSet(LAMBDA n, acc :
                       LET q == r \o <<n>>
                       IN  IF Dst(q) \notin DOMAIN acc.fs THEN acc
                           ELSE IF IsDir(acc.fs, Src(q)) THEN SyncTimePerm(acc, q)
                           ELSE SetTimePerm(acc, q),
                     st, Entries(st.fs, Src(r)))
  IN  SetTimePerm(st1, r)

synchronize(f) ==
  SyncTimePerm(SyncDirs([fs |-> f, rep |-> {}], <<>>), <<>>)

(***************************************************************************)
(* The trees the runs start from: a source and a destination root with up  *)
(* to a few entries below them.                                            *)
(***************************************************************************)
EmptyFn == [q \in {} |-> "none"]
Files == { File(d, t, m) : d \in Data, t \in Times, m \in Modes }
Dirs  == { Dir(t, m) : t \in Times, m \in Modes }
\* nothing, a file or an empty directory at p
Leaf(p) == {EmptyFn} \cup { p :> n : n \in Files \cup Dirs }
\* a Leaf, or a directory at p holding a Leaf named c
Tree(p, c) == Leaf(p) \cup { (p :> n) @@ t : n \in Dirs, t \in Leaf(p \o <<c>>) }

Init ==
  /\ fs \in Start
  /\ fs0 = fs
  /\ pc = "start"
  /\ rep = {}

\* main(): the run is `sync S D` for the two roots, run twice
Run ==
  /\ pc \in {"start", "once"}
  /\ LET res == synchronize(fs) IN fs' = res.fs /\ rep' = res.rep
  /\ pc' = IF pc = "start" THEN "once" ELSE "twice"
  /\ UNCHANGED fs0

Next == Run

Spec == Init /\ [][Next]_vars

(***************************************************************************)
(* Properties                                                              *)
(***************************************************************************)
Nodes == Files \cup Dirs \cup { File(d, NOW, m) : d \in Data, m \in Modes }
         \cup { Dir(NOW, m) : m \in Modes }

\* Every node is a directory or a file with the attributes sync can give
\* it, both roots exist, and report_change names only destination paths.
TypeOK ==
  /\ \A p \in DOMAIN fs : p[1] \in {"S", "D"} /\ fs[p] \in Nodes
  /\ <<"S">> \in DOMAIN fs /\ <<"D">> \in DOMAIN fs
  /\ rep \subseteq { <<p, c>> : p \in { q \in DOMAIN fs0 \cup DOMAIN fs : q[1] = "D" },
                                c \in {"+", "-", "o", "t", "p"} }
  /\ pc \in {"start", "once", "twice"}

\* the relative paths of the two trees
Rel(f, root) == { Tail(p) : p \in { q \in DOMAIN f : q[1] = root } }

\* the premise under which the size-and-mtime quick check is enough: a
\* destination file with the source file's size and mtime has its data
QuickCheckSound(f) ==
  \A r \in Rel(f, "S") \cap Rel(f, "D") :
    LET a == f[Src(r)]
        b == f[Dst(r)]
    IN  (a.kind = "file" /\ b.kind = "file" /\ Size[a.data] = Size[b.data]
           /\ a.mtime = b.mtime) => a.data = b.data

\* After a run of sync_dirs followed by sync_time_permissions, the
\* destination is the source again, entry for entry: the same names, each
\* a directory or a file as in the source, with the source's data, mtime
\* and mode, the roots included, unless the quick check was fooled.
SyncMirrors ==
  pc # "start" /\ QuickCheckSound(fs0) =>
    /\ Rel(fs, "S") = Rel(fs, "D")
    /\ \A r \in Rel(fs, "S") : fs[Src(r)] = fs[Dst(r)]

\* Every destination path that a run creates, removes or changes (in its
\* kind, data, mtime or mode) is named by one of the run's report_change
\* lines.
ReportsComplete ==
  [][ \A p \in (DOMAIN fs \cup DOMAIN fs') \ {q \in DOMAIN fs : q[1] = "S"} :
        (p \notin DOMAIN fs \/ p \notin DOMAIN fs' \/ fs[p] # fs'[p])
          => \E c \in {"+", "-", "o", "t", "p"} : <<p, c>> \in rep' ]_vars

\* Running sync a second time on what the first run left changes nothing
\* and reports nothing: the copies' mtimes, set by futimes, pass the
\* quick check, and the directory mtimes disturbed by the first run are
\* put back after their entries.
SecondRunQuiet ==
  [][ pc = "once" => fs' = fs /\ rep' = {} ]_vars

=============================================================================
