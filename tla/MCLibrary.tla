----------------------------- MODULE MCLibrary ------------------------------
(* Library with small sets.                                                  *)
EXTENDS Library, TLC

CONSTANTS
  h1, h2, e1, e2, e3, e4,   \* rings and what is linked
  f1, f2, v1, v2, v3,       \* fibers, or threads, and values
  o1, o2,                   \* objects
  s1, s2                    \* sockets, or users of keys

MCHeads == {h1, h2}
MCEntry == {e1, e2, e3, e4}
MCThree == {e1, e2, e3}
MCFibers == {f1, f2}
MCValues == {v1, v2, v3}
MCOne == {o1}
MCTwo == {o1, o2}
MCThings == {o1, o2, Null}
MCUsers == {s1, s2}
MCStrict == {s2}
MCKinds == {"ring", "local", "htable", "fifo", "array", "keys", "select", "clock",
            "text"}
MCArray == {"array"}
MCSelect == {"select"}
MCText == {"text"}

\* Fibers and values occur in FiberLocal and ThreadKeys only, which treat them
\* alike.
MCSymmetry == Permutations({f1, f2}) \cup Permutations({v1, v2, v3})

\* Keys that collide in an array of one and in one of three, and one apart.
MCHash == e1 :> 0 @@ e2 :> 3 @@ e3 :> 1
MCTableSizes == {0, 2}

\* Places before, in and behind an array.
MCNamed == -1..3
MCArraySizes == {0, 1}

MCSteps == {3, 9}
MCOffsets == {16, 19, 30}

\* What the tests of addresses read: names, quads, groups, groups with a quad,
\* zeros before a quad, anything, and quads with a port.
Names == {<<"x">>, <<"1">>, <<".">>, <<"-">>, <<":">>}
Quads == {<<"0", ".">>, <<"2", "5", "5", ".">>, <<"2", "5", "6">>, <<"7">>, <<".">>}
Groups == {<<":">>, <<"a", "0", "1", "f", ":">>, <<"c">>}
Mixed == {<<":">>, <<"1", ":">>, <<"1", ".", "0", ".", "1", ".", "2">>}
Long == {<<":">>, <<"0", "0">>, <<"1", ".", "0", ".", "1", ".", "2">>}
Odd == {<<":">>, <<"1">>, <<"a">>, <<"g">>, <<".">>}
Ports == {<<"7", ".", "1", ".", "0", ".", "1">>, <<".">>, <<":">>, <<"9">>, <<"-">>}
MCAlphabets == {[pieces |-> Names, most |-> 5], [pieces |-> Quads, most |-> 5],
                [pieces |-> Groups, most |-> 8], [pieces |-> Mixed, most |-> 8],
                [pieces |-> Long, most |-> 6], [pieces |-> Odd, most |-> 5],
                [pieces |-> Ports, most |-> 5]}
MCOctets == {0, 9, 10, 99, 100, 255}

=============================================================================
