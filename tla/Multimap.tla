------------------------------ MODULE Multimap ------------------------------
(***************************************************************************)
(* What the containers of flat_map.h promise: for each key the values that *)
(* were inserted for it.  A unique container (flat_set, flat_map) keeps at *)
(* most one, the first; the others (flat_multiset, flat_multimap) keep     *)
(* them all, the newest in front.                                          *)
(***************************************************************************)
EXTENDS Integers, SequencesExt

CONSTANTS Key, Val

VARIABLES
  unique,
  values,        \* of one object
  others         \* of the other

Init ==
  /\ unique \in BOOLEAN
  /\ values = [k \in Key |-> <<>>]
  /\ others = values

\* What a key has, after some more values came for it one after the other.
With(old, more) ==
  IF ~unique THEN Reverse(more) \o old
  ELSE IF old # <<>> \/ more = <<>> THEN old ELSE <<Head(more)>>

Insert(k, v) == values' = [values EXCEPT ![k] = With(@, <<v>>)]

\* Neighbouring values of the other object, for a key.
Pieces(k) == {SubSeq(others[k], i, j) : i \in 1 .. Len(others[k]), j \in 0 .. Len(others[k])}
             \cup {<<>>}

\* Added to the values here, or to none.
InsertRange ==
  /\ DOMAIN values' = Key
  /\ \/ \A k \in Key : \E more \in Pieces(k) : values'[k] = With(values[k], more)
     \/ \A k \in Key : \E more \in Pieces(k) : values'[k] = With(<<>>, more)

Assign(k, v) == unique /\ values' = [values EXCEPT ![k] = <<v>>]

EraseKey(k) == values' = [values EXCEPT ![k] = <<>>]

\* Neighbouring values of some keys, those between two others all.
EraseSome ==
  /\ DOMAIN values' = Key
  /\ \A k \in Key : \E i \in 0 .. Len(values[k]) : \E j \in i .. Len(values[k]) :
       values'[k] = SubSeq(values[k], 1, i) \o SubSeq(values[k], j + 1, Len(values[k]))

Clear == values' = [k \in Key |-> <<>>]

Copy == values' = others

Swap == values' = others /\ others' = values

Next ==
  /\ UNCHANGED unique
  /\ \/ /\ \/ \E k \in Key, v \in Val : Insert(k, v) \/ Assign(k, v)
           \/ \E k \in Key : EraseKey(k)
           \/ InsertRange \/ EraseSome \/ Clear \/ Copy
        /\ UNCHANGED others
     \/ Swap

Spec == Init /\ [][Next]_<<unique, values, others>>
=============================================================================
