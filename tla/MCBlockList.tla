---------------------------- MODULE MCBlockList ----------------------------
(***************************************************************************)
(* The list of offsets for TLC.  Which address an allocation returns is of *)
(* no account, so states that differ only in the addresses of the groups   *)
(* are one for TLC: it compares them with the groups numbered in the order *)
(* of the tree, freed groups that a bound still points to after them.      *)
(*                                                                         *)
(* The broad shape has two levels, and allocations that take offsets out   *)
(* of the list.  The high one has three levels of small groups, no such    *)
(* allocations, and nobody who writes into a freed group; the tall one     *)
(* shows what happens if somebody does.                                    *)
(***************************************************************************)
EXTENDS BlockList

Broad == [group_size |-> 4, offsets |-> 1 .. 10, max_level |-> 1,
          take |-> TRUE, fail |-> TRUE, fail_late |-> TRUE, reuse |-> TRUE]

High == [group_size |-> 2, offsets |-> 1 .. 8, max_level |-> 2,
         take |-> FALSE, fail |-> TRUE, fail_late |-> FALSE, reuse |-> FALSE]

Tall == [High EXCEPT !.offsets = 1 .. 6, !.reuse = TRUE]

BroadAndHigh == {Broad, High}

OnlyTall == {Tall}

RECURSIVE PreOrder(_)
PreOrder(g) ==
    IF mem[g].level = 0 THEN <<g>>
    ELSE <<g>> \o FlattenSeq([u \in DOMAIN mem[g].items |-> PreOrder(mem[g].items[u])])

(* Groups, the freed ones with their first appearance. *)
Numbered ==
    LET tree == IF root # 0 THEN PreOrder(root)
                ELSE IF item.kind = "list" THEN PreOrder(item.at) ELSE <<>>
        gone == SelectSeq(FlattenSeq([i \in DOMAIN tree |-> <<mem[tree[i]].first.group,
                                                             mem[tree[i]].last.group>>]),
                          LAMBDA g : g # 0 /\ mem[g].level < 0)
    IN  tree \o gone

Renumbered ==
    LET order == Numbered
        no == [g \in Range(order) |-> CHOOSE i \in DOMAIN order :
                     order[i] = g /\ \A j \in 1..(i - 1) : order[j] # g]
        Pointer(p) == IF p = Null THEN p ELSE [p EXCEPT !.group = no[@]]
        Group(r) == IF r.level <= 0 THEN r
                    ELSE [r EXCEPT !.items = [u \in DOMAIN @ |-> no[@[u]]],
                                   !.first = Pointer(@), !.last = Pointer(@)]
    IN  <<shape, [i \in DOMAIN order |-> Group(mem[order[i]])],
          Cardinality(Available(mem)),
          IF item.kind = "list" THEN [item EXCEPT !.at = no[@]] ELSE item,
          entries, pc, root # 0,
          [i \in DOMAIN stack |-> [stack[i] EXCEPT !.group = no[@]]], job>>

=============================================================================
