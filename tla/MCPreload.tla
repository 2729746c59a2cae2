---------------------------- MODULE MCPreload -------------------------------
(* The snapshots that Redis may have left, and what clients write then.    *)
EXTENDS Preload

NoDeadline == [unit |-> "none"]
Seconds(n) == [unit |-> "s", n |-> n]
Millis(n) == [unit |-> "ms", n |-> n]

Pair(key, val, exp) == [type |-> 0, key |-> key, val |-> val, exp |-> exp]
Database(n, ps) == [db |-> n, sized |-> TRUE, pairs |-> ps]
Snapshot(sets) == [aux |-> <<<<Raw(<<118>>), Num(64, 1)>>>>, sets |-> sets]

a == Raw(<<97>>)
b == Raw(<<98, 49>>)
Long == [Raw([i \in 1 .. 70 |-> 97]) EXCEPT !.form = 14]
Wide == [Raw(<<120, 121>>) EXCEPT !.form = 32]
Accented == Raw(<<195, 169>>)

(* Every form of length, number and deadline; one, two and more databases  *)
(* than sixteen, and one that is not number 0; what the reader does not    *)
(* know.                                                                   *)
Files ==
  { [aux |-> <<>>, sets |-> <<>>],
    Snapshot([n \in 1 .. 17 |-> Database(n, <<Pair(a, Num(n, 1), NoDeadline)>>)]),
    Snapshot(<<>>),
    Snapshot(<<Database(0, <<Pair(a, b, NoDeadline), Pair(b, a, Seconds(300))>>)>>),
    Snapshot(<<Database(0, <<Pair(a, Num(5, 1), Millis(700))>>),
               Database(3, <<Pair(b, Num(12345, 2), NoDeadline), Pair(a, Num(-3, 1), NoDeadline)>>)>>),
    Snapshot(<<Database(2, <<Pair(Wide, Long, Seconds(2)), Pair(b, Num(-300, 2), Millis(3))>>)>>),
    Snapshot(<<Database(0, <<Pair(Accented, a, NoDeadline), Pair(a, a, Millis(65535)),
                             Pair(b, b, NoDeadline)>>)>>),
    Snapshot(<<Database(0, <<Pair(a, b, NoDeadline), [Pair(b, a, Seconds(1)) EXCEPT !.type = 1]>>)>>),
    Snapshot(<<Database(300, <<Pair(Num(-3, 1), Num(70000, 4), NoDeadline),
                               Pair(Raw(<<50, 53, 51>>), a, Millis(70000))>>)>>),
    [aux |-> <<<<Raw(<<118>>), Lzf>>>>, sets |-> <<>>],
    Snapshot(<<Database(0, <<Pair(a, Lzf, NoDeadline), Pair(b, b, NoDeadline)>>)>>),
    Snapshot(<<[Database(0, <<Pair(a, b, NoDeadline), Pair(b, a, NoDeadline)>>) EXCEPT !.sized = FALSE]>>) }

SomeKeys == {<<97>>}
SomeEntries == {[val |-> <<119>>, exp |-> NoExpiry]}

(* Filled or not, the last of sixteen, the first beyond, the last of 17.   *)
SomeIndices == {0, 1, 15, 16, 17}
=============================================================================
