------------------------------ MODULE MCReceiver ------------------------------
EXTENDS Receiver

\* Names, one a beginning of another, and one with a blank.
a == <<"a">>
aa == <<"a", "a">>
ab == <<"a", " ">>

Mnt(point, options) == [device |-> "dev", point |-> point, options |-> options]

\* DAX below and above other mounts, in either order, beside a mount point that is
\* a beginning of its name, over one mount point twice, with options that
\* only contain the word, with a blank, and a mount without a device.
MCMounts ==
  {<<Mnt(<<>>, "rw"), Mnt(<<a>>, "dax")>>,
   <<Mnt(<<>>, "dax"), Mnt(<<a>>, "rw"), Mnt(<<a, a>>, "dax")>>,
   <<Mnt(<<a>>, "rw"), Mnt(<<aa>>, "dax=always"), Mnt(<<aa, a>>, "rw")>>,
   <<Mnt(<<aa>>, "rw"), Mnt(<<a>>, "dax")>>,
   <<Mnt(<<>>, "rw"), Mnt(<<a>>, "rw"), Mnt(<<a>>, "dax")>>,
   <<Mnt(<<>>, "rw"), Mnt(<<a>>, "dax=never"), Mnt(<<ab>>, "dax")>>,
   <<Mnt(<<>>, "dax"), [device |-> "", point |-> <<a>>, options |-> "rw"]>>}

\* Files on each of them.
MCFiles == {<<a>>, <<aa>>, <<a, a>>, <<aa, a>>, <<a, a, a>>, <<aa, a, a>>, <<ab, a>>}

Token == {0, 1, 2, Comma, Dash, Other}

\* Lists of up to five characters without a number after another, and the
\* first pair of items of a list and one more.
Lists(n) ==
  {l \in UNION {[1 .. k -> Token] : k \in 0 .. n} :
     \A i \in 1 .. Len(l) - 1 : l[i] < 0 \/ l[i + 1] < 0}

MCArguments == (Lists(5) \X {<<1, Dash, 2>>}) \cup ({<<0, Dash, 2>>} \X Lists(3))
=============================================================================
