------------------------------- MODULE MCSync -------------------------------
EXTENDS Sync

\* "a" and "b" have the same size, "cc" another
MCData == {"a", "b", "cc"}
MCSize == [d \in MCData |-> IF d = "cc" THEN 2 ELSE 1]
\* m2 (rwx for all) loses group and other write under the umask: m1
MCUmask == [m \in {"m1", "m2"} |-> "m1"]

\* the source root holds at most x, itself at most holding z; the
\* destination root holds the same choices at x, and a file or an empty
\* directory at y.  The roots differ in mtime and mode.
MCStart ==
  { (<<"S">> :> Dir(1, "m1")) @@ (<<"D">> :> Dir(2, "m2")) @@ sx @@ dx @@ dy :
      sx \in Tree(<<"S", "x">>, "z"), dx \in Tree(<<"D", "x">>, "z"),
      dy \in Leaf(<<"D", "y">>) }
=============================================================================
