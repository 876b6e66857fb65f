------------------------------- MODULE FlatMap ------------------------------
(***************************************************************************)
(* flat_map.h: the containers that keep their entries in a sorted vector.  *)
(* Two objects of one type are modelled, as copies, swaps and ranges take  *)
(* a second one; unique tells flat_set and flat_map from their multi       *)
(* variants, whose only difference is insert_single and insert_multi (a    *)
(* set is a map whose values do not matter).  Iterators are positions,     *)
(* Len(vect) + 1 is end().                                                 *)
(***************************************************************************)
EXTENDS Integers, SequencesExt

CONSTANTS
  Key,           \* the keys, ordered as std::less orders them
  Val,
  MaxSize        \* bound: entries in the vector

ASSUME FlatMapAssumption == Key \subseteq Int /\ MaxSize \in Nat

VARIABLES
  unique,
  vect,          \* of this object
  other          \* of the other one

vars == <<unique, vect, other>>

Entry == [key : Key, val : Val]

Init == unique \in BOOLEAN /\ vect = <<>> /\ other = <<>>

-----------------------------------------------------------------------------
\* std::lower_bound and std::upper_bound (external) on a sorted vector s.
lower_bound_Slip(s, k) == 1 + Cardinality({i \in DOMAIN s : s[i].key <= k})

lower_bound(s, k) == 1 + Cardinality({i \in DOMAIN s : s[i].key < k})

upper_bound(s, k) == 1 + Cardinality({i \in DOMAIN s : s[i].key <= k})

find_Slip(k) == lower_bound(vect, k)         \* the key not compared

find(k) ==
  LET it == lower_bound(vect, k)
  IN  IF it <= Len(vect) /\ ~(k < vect[it].key) THEN it ELSE Len(vect) + 1

count(k) == upper_bound(vect, k) - lower_bound(vect, k)

EraseRange(first, last) == SubSeq(vect, 1, first - 1) \o SubSeq(vect, last, Len(vect))

-----------------------------------------------------------------------------
\* insert_single: nothing happens when the key is there.
insert_single(s, x) ==
  LET it == lower_bound(s, x.key)
  IN  IF it > Len(s) \/ x.key < s[it].key THEN InsertAt(s, it, x) ELSE s

\* insert_multi: in front of the entries with an equal key.
insert_multi(s, x) == InsertAt(s, lower_bound(s, x.key), x)

InsertOne(s, x) == IF unique THEN insert_single(s, x) ELSE insert_multi(s, x)

InsertAll_Slip(s, range) == s \o range       \* vect.insert(end, first, last)

\* insert(first, last): one after the other.
InsertAll(s, range) ==
  LET after[n \in 0 .. Len(range)] ==
        IF n = 0 THEN s ELSE InsertOne(after[n - 1], range[n])
  IN  after[Len(range)]

insert(x) ==
  /\ Len(vect) < MaxSize
  /\ vect' = InsertOne(vect, x)
  /\ UNCHANGED <<unique, other>>

\* A range of the other object, inserted here or the start of a new one here.
InsertRange(range) ==
  /\ Len(vect) + Len(range) <= MaxSize
  /\ vect' = InsertAll(vect, range)
  /\ UNCHANGED <<unique, other>>

ConstructFrom(range) == vect' = InsertAll(<<>>, range) /\ UNCHANGED <<unique, other>>

\* m[k] = v on a flat_map: operator[] inserts a default first.
Subscript(k, v) ==
  /\ unique
  /\ Len(vect) < MaxSize
  /\ LET s  == insert_single(vect, [key |-> k, val |-> v])
         it == lower_bound(vect, k)
     IN  vect' = [s EXCEPT ![it].val = v]
  /\ UNCHANGED <<unique, other>>

\* erase of a key, and of a range; that of one iterator is a range of one.
erase(k) ==
  /\ vect' = EraseRange(lower_bound(vect, k), upper_bound(vect, k))
  /\ UNCHANGED <<unique, other>>

EraseIt(first, last) ==
  /\ vect' = EraseRange(first, last)
  /\ UNCHANGED <<unique, other>>

clear == vect' = <<>> /\ UNCHANGED <<unique, other>>

\* The copy constructor and operator=, swap.
Copy == vect' = other /\ UNCHANGED <<unique, other>>

swap == vect' = other /\ other' = vect /\ UNCHANGED unique

Next ==
  \/ \E k \in Key, v \in Val : insert([key |-> k, val |-> v]) \/ Subscript(k, v)
  \/ \E first, last \in 1 .. Len(other) + 1 : first <= last /\
       \E range \in {SubSeq(other, first, last - 1)} : InsertRange(range) \/ ConstructFrom(range)
  \/ \E k \in Key : erase(k)
  \/ \E first, last \in 1 .. Len(vect) + 1 : first <= last /\ EraseIt(first, last)
  \/ clear \/ Copy \/ swap

Spec == Init /\ [][Next]_vars

-----------------------------------------------------------------------------
(***************************************************************************)
(* Every lookup is a binary search, right only on a sorted vector: the     *)
(* inserts of one entry and of a range keep it sorted, and a unique        *)
(* container without a repeated key.                                       *)
(***************************************************************************)
Sorted ==
  \A s \in {vect, other} :
    /\ s \in Seq(Entry)
    /\ \A i, j \in DOMAIN s : i < j =>
         IF unique THEN s[i].key < s[j].key ELSE s[i].key <= s[j].key

(***************************************************************************)
(* find, count and equal_range see exactly the entries that are there: the *)
(* first of them, as many as there are, and end() when there is none.      *)
(***************************************************************************)
LookupsAgree ==
  \A k \in Key :
    LET at == {i \in DOMAIN vect : vect[i].key = k}
    IN  /\ count(k) = Cardinality(at)
        /\ at = lower_bound(vect, k) .. upper_bound(vect, k) - 1
        /\ IF at = {} THEN find(k) = Len(vect) + 1
           ELSE find(k) \in at /\ \A i \in at : find(k) <= i

\* The values of a key in the order of the vector.
ValuesOf(s) ==
  [k \in Key |->
     LET at     == {i \in DOMAIN s : s[i].key = k}
         Nth(n) == CHOOSE i \in at : Cardinality({j \in at : j < i}) = n - 1
     IN  [n \in 1 .. Cardinality(at) |-> s[Nth(n)].val]]

(***************************************************************************)
(* The sorted vector implements Multimap: in particular an insert never    *)
(* replaces a value of a unique container, and equal keys keep their       *)
(* order, or turn it round when a range of them is inserted.               *)
(***************************************************************************)
Promise == INSTANCE Multimap WITH values <- ValuesOf(vect), others <- ValuesOf(other)

KeepsMultimap == Promise!Spec
=============================================================================
