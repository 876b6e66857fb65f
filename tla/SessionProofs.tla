---------------------------- MODULE SessionProofs ---------------------------
(***************************************************************************)
(* Theorems about Session, for every sequence of frames and every size of  *)
(* the buffer of Format: what the parsers find in a frame, and what        *)
(* becomes of the texts.                                                   *)
(***************************************************************************)
EXTENDS Session, Induction, SequenceTheorems

\* The symbols of a frame and what strtok writes into it: that NUL is a string
\* as well is unknown to the provers.
Symbol == STRING \cup {NUL}

Text == Seq(Symbol)

-----------------------------------------------------------------------------
(***************************************************************************)
(* The pieces of a string.                                                 *)
(***************************************************************************)
LEMMA AheadFact ==
  ASSUME NEW s \in Text, NEW delim
  PROVE  Ahead(s, delim) \in Text /\ Len(Ahead(s, delim)) <= Len(s)
  <1> DEFINE T == {n \in 0 .. Len(s) : \A i \in 1 .. n : s[i] # delim}
  <1>1. 0 \in T /\ T \subseteq 0 .. Len(s) /\ Len(s) \in Nat
    BY DEF Text
  <1>2. Max(T) \in T
    <2> HIDE DEF T
    <2> QED  BY <1>1, Greatest DEF Max
  <1>3. Ahead(s, delim) = SubSeq(s, 1, Max(T))
    BY DEF Ahead, Span
  <1> HIDE DEF T
  <1>4. Max(T) \in 0 .. Len(s)
    BY <1>1, <1>2, Zenon
  <1> QED  BY <1>1, <1>3, <1>4 DEF Text

\* explode: its first piece is a string.
LEMMA ExplodeFact ==
  ASSUME NEW s \in Text, NEW delim, explode(s, delim) # <<>>
  PROVE  Head(explode(s, delim)) \in Text
  <1> DEFINE N == Len(s)
             M == N + 2
             token(p) == Ahead(SubSeq(s, p, N), delim)
             item == [p \in 1 .. M |-> token(p)]
             next == [p \in 1 .. M |-> p + Len(token(p)) + 1]
             ends == {p \in 1 .. M : p > N}
             from[p \in 1 .. M] ==
               IF p > N THEN <<>> ELSE <<token(p)>> \o from[p + Len(token(p)) + 1]
  <1>1. N \in Nat /\ M = N + 2
    BY DEF Text
  <1>2. explode(s, delim) = from[1]
    BY DEF explode
  <1>3. ASSUME NEW p \in 1 .. M, p <= N
        PROVE  token(p) \in Text /\ p + Len(token(p)) + 1 \in p + 1 .. M
    <2> DEFINE rest == SubSeq(s, p, N)
    <2>1. rest \in Text /\ Len(rest) = N - p + 1
      BY <1>1, <1>3 DEF Text
    <2> HIDE DEF rest
    <2>2. token(p) = Ahead(rest, delim)
      BY DEF rest
    <2>3. token(p) \in Text /\ Len(token(p)) <= Len(rest)
      BY <2>1, <2>2, AheadFact
    <2>4. Len(token(p)) \in Nat
      BY <2>3 DEF Text
    <2> HIDE DEF token
    <2> QED  BY <1>1, <1>3, <2>1, <2>3, <2>4
  <1> HIDE DEF token, M
  <1>4. Forward(1, M, Text, item, next, ends)
    BY <1>1, <1>3 DEF Forward
  <1>5. 1 \in Int /\ M \in Int /\ 1 <= M
    BY <1>1
  <1>6. PICK f \in [1 .. M -> Seq(Text)] : Walks(f, 1, M, item, next, ends)
    <2> HIDE DEF item, next, ends, N
    <2> QED  BY <1>4, <1>5, Cursor
  <1>7. f = [p \in 1 .. M |->
               IF p > N THEN <<>> ELSE <<token(p)>> \o f[p + Len(token(p)) + 1]]
    BY <1>6 DEF Walks
  <1>8. from = [p \in 1 .. M |->
                  IF p > N THEN <<>> ELSE <<token(p)>> \o from[p + Len(token(p)) + 1]]
    <2> HIDE DEF N
    <2> QED  BY <1>7
  <1> HIDE DEF from
  <1>9. Walks(from, 1, M, item, next, ends)
    BY <1>8 DEF Walks
  <1>10. \A p \in 1 .. M : from[p] \in Seq(Text)
    <2> HIDE DEF item, next, ends, N
    <2> QED  BY <1>4, <1>5, <1>9, CursorType
  <1>11. 1 \in 1 .. M /\ from[1] # <<>>
    BY <1>1, <1>2
  <1>12. from[1] \in Seq(Text)
    BY <1>10, <1>11
  <1> QED  BY <1>2, <1>11, <1>12, HeadTailProperties

-----------------------------------------------------------------------------
(***************************************************************************)
(* The parameters: every item of a stream is a string with a character.    *)
(***************************************************************************)
\* The least of some positions, if there is one.
LEMMA LeastFact ==
  ASSUME NEW p \in Nat, NEW n \in Nat, NEW hits, hits \subseteq p .. n - 1
  PROVE  (IF hits = {} THEN npos ELSE Min(hits)) \in hits \/ hits = {}
  <1>1. hits \subseteq Nat
    OBVIOUS
  <1>2. CASE hits # {}
    <2>1. \E x \in hits : \A y \in hits : x =< y
      BY <1>1, <1>2, LeastNumber
    <2>2. Min(hits) \in hits
      BY <2>1 DEF Min
    <2> QED  BY <1>2, <2>2
  <1> QED  BY <1>2

LEMMA FindFact ==
  ASSUME NEW s \in Text, NEW c, NEW p \in Nat
  PROVE  /\ \/ find(s, c, p) = npos
            \/ /\ find(s, c, p) \in p .. Len(s) - 1
               /\ s[find(s, c, p) + 1] = c
         /\ \/ find_first_not_of(s, c, p) = npos
            \/ /\ find_first_not_of(s, c, p) \in p .. Len(s) - 1
               /\ s[find_first_not_of(s, c, p) + 1] # c
  <1> DEFINE A == {q \in p .. Len(s) - 1 : s[q + 1] = c}
             B == {q \in p .. Len(s) - 1 : s[q + 1] # c}
  <1>1. Len(s) \in Nat /\ A \subseteq p .. Len(s) - 1 /\ B \subseteq p .. Len(s) - 1
    BY DEF Text
  <1>2. find(s, c, p) = IF A = {} THEN npos ELSE Min(A)
    BY DEF find, FirstFrom
  <1>3. find_first_not_of(s, c, p) = IF B = {} THEN npos ELSE Min(B)
    BY DEF find_first_not_of, FirstFrom
  <1>4. find(s, c, p) \in A \/ A = {}
    <2> HIDE DEF A
    <2> QED  BY <1>1, <1>2, LeastFact
  <1>5. find_first_not_of(s, c, p) \in B \/ B = {}
    <2> HIDE DEF B
    <2> QED  BY <1>1, <1>3, LeastFact
  <1>6. A = {} => find(s, c, p) = npos
    BY <1>2
  <1>7. B = {} => find_first_not_of(s, c, p) = npos
    BY <1>3
  <1> QED  BY <1>4, <1>5, <1>6, <1>7

\* A stream over s that stands at p.
Stands(st, s, c, p) ==
  /\ st.tokens = s /\ st.sep = c /\ st.pos = p /\ ~st.allow_empty
  /\ st = [x \in {"tokens", "sep", "pos", "allow_empty"} |-> st[x]]

LEMMA ExtractFact ==
  ASSUME NEW s \in Text, NEW c, NEW p \in 0 .. Len(s) + 1, NEW st, Stands(st, s, c, p),
         NEW r, r = items_extract(st), r.ok
  PROVE  /\ r.token \in Text /\ r.token # <<>>
         /\ r.stream.pos \in p + 1 .. Len(s) + 1
  <1> DEFINE N == Len(s)
             start == find_first_not_of(s, c, p)
             found == find(s, c, start)
             end == IF found = npos THEN N ELSE found
  <1>1. /\ st.tokens = s /\ st.sep = c /\ st.pos = p /\ ~st.allow_empty
        /\ "pos" \in DOMAIN st
    BY DEF Stands
  <1>2. N \in Nat /\ p \in Nat /\ p <= N + 1
    BY DEF Text
  <1>3. ItemStart(st) = start /\ ItemEnd(st, start) = end
    BY <1>1 DEF ItemStart, ItemEnd
  <1> DEFINE none == [ok |-> FALSE, token |-> <<>>, stream |-> st]
             past == [ok |-> FALSE, token |-> <<>>, stream |-> Advance(st, N)]
             item == [ok |-> TRUE, token |-> assign(s, start, end - start),
                      stream |-> Advance(st, end)]
  <1> HIDE DEF start, end
  <1>4. r = IF stream_finish(st) THEN none ELSE IF start = npos THEN past ELSE item
    BY <1>1, <1>3 DEF items_extract
  <1>5. ~none.ok /\ ~past.ok
    OBVIOUS
  <1>6. start # npos /\ r = item
    <2> HIDE DEF none, past, item
    <2> QED  BY <1>4, <1>5, Zenon
  <1>7. r.token = assign(s, start, end - start) /\ r.stream = Advance(st, end)
    BY <1>6
  <1>8. start \in p .. N - 1 /\ s[start + 1] # c
    BY <1>2, <1>6, FindFact DEF start
  <1>9. end \in start + 1 .. N
    <2>1. start \in Nat
      BY <1>2, <1>8
    <2>2. found # npos => found \in start .. N - 1 /\ s[found + 1] = c
      BY <2>1, FindFact
    <2>3. found # npos => found # start /\ found \in start .. N - 1
      BY <1>8, <2>2
    <2>4. end = IF found = npos THEN N ELSE found
      BY DEF end
    <2> HIDE DEF found, N
    <2>5. CASE found = npos
      BY <1>2, <1>8, <2>1, <2>4, <2>5
    <2>6. CASE found # npos
      BY <1>2, <1>8, <2>1, <2>3, <2>4, <2>6
    <2> QED  BY <2>5, <2>6
  <1>10. r.stream.pos = end + 1
    BY <1>1, <1>7 DEF Advance
  <1>11. r.token = SubSeq(s, start + 1, end)
    <2>1. start + (end - start) = end /\ (IF end < N THEN end ELSE N) = end
      BY <1>2, <1>8, <1>9
    <2> QED  BY <1>7, <2>1 DEF assign
  <1>12. SubSeq(s, start + 1, end) \in Text /\ Len(SubSeq(s, start + 1, end)) = end - start
    BY <1>2, <1>8, <1>9 DEF Text
  <1>13. end - start > 0 /\ end + 1 \in p + 1 .. N + 1
    BY <1>2, <1>8, <1>9
  <1>14. Len(r.token) > 0
    BY <1>11, <1>12, <1>13
  <1>15. r.token # <<>>
    BY <1>14
  <1> HIDE DEF N
  <1>16. r.token \in Text /\ r.stream.pos \in p + 1 .. N + 1
    BY <1>10, <1>11, <1>12, <1>13
  <1> QED  BY <1>15, <1>16 DEF N

LEMMA ItemsFact ==
  ASSUME NEW s \in Text, NEW c, NEW st, Stands(st, s, c, 0)
  PROVE  Items(st) \in Seq(Text \ {<<>>})
  <1> DEFINE M == Len(s) + 1
             T == Text \ {<<>>}
             R(p) == items_extract([st EXCEPT !.pos = p])
             item == [p \in 0 .. M |-> R(p).token]
             next == [p \in 0 .. M |-> R(p).stream.pos]
             ends == {p \in 0 .. M : ~R(p).ok}
             from[p \in 0 .. M] ==
               IF R(p).ok THEN <<R(p).token>> \o from[R(p).stream.pos] ELSE <<>>
  <1>1. M \in Int /\ 0 \in Int /\ 0 <= M /\ 0 \in 0 .. M
    BY DEF Text
  <1>2. st.tokens = s /\ st.pos = 0
    BY DEF Stands
  <1>3. Items(st) = from[0]
    BY <1>2, Zenon DEF Items
  <1>4. ASSUME NEW p \in 0 .. M, R(p).ok
        PROVE  R(p).token \in T /\ R(p).stream.pos \in p + 1 .. M
    <2> DEFINE at == [st EXCEPT !.pos = p]
    <2>1. Stands(at, s, c, p)
      BY DEF Stands
    <2> HIDE DEF at
    <2>2. p \in 0 .. Len(s) + 1 /\ items_extract(at).ok
      BY <1>4 DEF at
    <2>3. /\ items_extract(at).token \in Text /\ items_extract(at).token # <<>>
          /\ items_extract(at).stream.pos \in p + 1 .. Len(s) + 1
      BY <2>1, <2>2, ExtractFact
    <2> QED  BY <2>3 DEF at
  <1> HIDE DEF R, M, T
  <1>5. Forward(0, M, T, item, next, ends)
    BY <1>4 DEF Forward
  <1>6. PICK f \in [0 .. M -> Seq(T)] : Walks(f, 0, M, item, next, ends)
    <2> HIDE DEF item, next, ends
    <2> QED  BY <1>1, <1>5, Cursor
  <1>7. f = [p \in 0 .. M |->
               IF R(p).ok THEN <<R(p).token>> \o f[R(p).stream.pos] ELSE <<>>]
    BY <1>6 DEF Walks
  <1>8. from = [p \in 0 .. M |->
                  IF R(p).ok THEN <<R(p).token>> \o from[R(p).stream.pos] ELSE <<>>]
    BY <1>7
  <1> HIDE DEF from
  <1>9. Walks(from, 0, M, item, next, ends)
    BY <1>8 DEF Walks
  <1>10. \A p \in 0 .. M : from[p] \in Seq(T)
    <2> HIDE DEF item, next, ends
    <2> QED  BY <1>1, <1>5, <1>9, CursorType
  <1> QED  BY <1>1, <1>3, <1>10 DEF T

LEMMA ParamsFact ==
  ASSUME NEW s \in Text
  PROVE  Params(s) \in Seq(Text)
  <1> DEFINE st == space_node_stream(s, FALSE)
             items == Items(st)
  <1>1. Stands(st, s, " ", 0)
    BY DEF Stands, space_node_stream, node_stream
  <1> HIDE DEF st
  <1>2. items \in Seq(Text \ {<<>>})
    BY <1>1, ItemsFact
  <1>3. Params(s) = [items EXCEPT ![1] = Tail(items[1])]
    BY DEF Params, st
  <1> HIDE DEF items
  <1> DEFINE n == Len(items)
             v == Tail(items[1])
  <1>4. n \in Nat /\ items \in [1 .. n -> Text] /\ \A i \in 1 .. n : items[i] # <<>>
    BY <1>2
  <1>5. 1 \in 1 .. n => v \in Text
    BY <1>4, HeadTailProperties DEF Text
  <1> HIDE DEF n, v
  <1>6. [items EXCEPT ![1] = v] \in [1 .. n -> Text]
    BY <1>4, <1>5
  <1> QED  BY <1>3, <1>4, <1>6 DEF v

-----------------------------------------------------------------------------
(***************************************************************************)
(* The chain of strtok calls stays inside a frame of n symbols.            *)
(***************************************************************************)
Lib(n) == [mem : [1 .. n -> Symbol], save : 0 .. n + 1, result : 0 .. n]

States(n) == [lib : Lib(n), p : [Pointers -> 0 .. n + 1]]

\* The first place of some between a and b.
LEMMA FirstFact ==
  ASSUME NEW a \in Nat, NEW b \in Nat, NEW H, H \subseteq a .. b, H # {}
  PROVE  \E q \in a .. b : q \in H /\ \A r \in a .. q - 1 : r \notin H
  <1>0. H \subseteq Nat
    OBVIOUS
  <1>1. PICK q \in H : \A y \in H : q <= y
    BY <1>0, LeastNumber
  <1>2. q \in a .. b /\ q \in Int
    BY <1>1
  <1>3. ASSUME NEW r \in a .. q - 1, r \in H PROVE FALSE
    BY <1>1, <1>2, <1>3
  <1> QED  BY <1>2, <1>3

LEMMA StrtokFact ==
  ASSUME NEW n \in Nat, NEW lib \in Lib(n), NEW s \in 0 .. n + 1, NEW delims, NUL \notin delims
  PROVE  strtok(lib, s, delims) \in Lib(n)
  <1> DEFINE mem == lib.mem
             start == IF s = null THEN lib.save ELSE s
             T1 == {q \in start .. n + 1 : At(mem, q) \notin delims}
             tok == CHOOSE q \in start .. n + 1 :
                      At(mem, q) \notin delims /\ \A r \in start .. q - 1 : ~(At(mem, r) \notin delims)
             ended == delims \cup {NUL}
             T2 == {q \in tok .. n + 1 : At(mem, q) \in ended}
             end == CHOOSE q \in tok .. n + 1 :
                      At(mem, q) \in ended /\ \A r \in tok .. q - 1 : ~(At(mem, r) \in ended)
  <1>1. mem \in [1 .. n -> Symbol] /\ Len(mem) = n /\ lib.save \in 0 .. n + 1
    BY DEF Lib
  <1>2. start \in 0 .. n + 1
    BY <1>1
  <1>3. \A q : At(mem, q) # NUL => ~(q > n)
    BY <1>1 DEF At
  <1>4. At(mem, n + 1) = NUL
    BY <1>1 DEF At
  <1> HIDE DEF start, mem
  <1>5. tok \in start .. n + 1
    <2>1. T1 \subseteq start .. n + 1 /\ n + 1 \in T1 /\ start \in Nat /\ n + 1 \in Nat
      BY <1>2, <1>4
    <2>2. \E q \in start .. n + 1 : q \in T1 /\ \A r \in start .. q - 1 : r \notin T1
      <3> HIDE DEF T1
      <3> QED  BY <2>1, FirstFact
    <2>3. \E q \in start .. n + 1 :
            At(mem, q) \notin delims /\ \A r \in start .. q - 1 : ~(At(mem, r) \notin delims)
      BY <1>2, <2>2
    <2> QED  BY <2>3
  <1>6. tok \in 0 .. n + 1
    BY <1>2, <1>5
  <1> HIDE DEF tok
  <1>7. end \in tok .. n + 1
    <2>1. T2 \subseteq tok .. n + 1 /\ n + 1 \in T2 /\ tok \in Nat /\ n + 1 \in Nat
      BY <1>6, <1>4
    <2>2. \E q \in tok .. n + 1 : q \in T2 /\ \A r \in tok .. q - 1 : r \notin T2
      <3> HIDE DEF T2
      <3> QED  BY <2>1, FirstFact
    <2>3. \E q \in tok .. n + 1 :
            At(mem, q) \in ended /\ \A r \in tok .. q - 1 : ~(At(mem, r) \in ended)
      BY <1>6, <2>2
    <2> QED  BY <2>3
  <1>8. end \in 0 .. n + 1
    BY <1>6, <1>7
  <1> HIDE DEF end
  <1>9. strtok(lib, s, delims) =
          IF At(mem, tok) = NUL THEN [lib EXCEPT !.save = tok, !.result = null]
          ELSE IF At(mem, end) = NUL THEN [lib EXCEPT !.save = end, !.result = tok]
          ELSE [mem |-> [mem EXCEPT ![end] = NUL], save |-> end + 1, result |-> tok]
    <2>1. tok = From(mem, start, LAMBDA c : c \notin delims)
      BY <1>1 DEF tok, From
    <2>2. end = From(mem, tok, LAMBDA c : c \in delims \cup {NUL})
      BY <1>1 DEF end, From
    <2> QED  BY <2>1, <2>2 DEF strtok, mem, start
  <1>10. CASE At(mem, tok) = NUL
    <2>1. strtok(lib, s, delims) = [lib EXCEPT !.save = tok, !.result = null]
      BY <1>9, <1>10
    <2>2. null \in 0 .. n
      BY DEF null
    <2> QED  BY <1>6, <2>1, <2>2 DEF Lib
  <1>11. CASE At(mem, tok) # NUL /\ At(mem, end) = NUL
    <2>1. strtok(lib, s, delims) = [lib EXCEPT !.save = end, !.result = tok]
      BY <1>9, <1>11
    <2>2. tok \in 0 .. n
      BY <1>3, <1>6, <1>11
    <2> QED  BY <1>8, <2>1, <2>2 DEF Lib
  <1>12. CASE At(mem, tok) # NUL /\ At(mem, end) # NUL
    <2>1. strtok(lib, s, delims) = [mem |-> [mem EXCEPT ![end] = NUL], save |-> end + 1, result |-> tok]
      BY <1>9, <1>12
    <2>2. tok \in 0 .. n /\ end + 1 \in 0 .. n + 1
      BY <1>3, <1>6, <1>8, <1>12
    <2>3. [mem EXCEPT ![end] = NUL] \in [1 .. n -> Symbol]
      <3>1. NUL \in Symbol
        BY DEF Symbol
      <3> QED  BY <1>1, <3>1
    <2> QED  BY <2>1, <2>2, <2>3 DEF Lib
  <1> QED  BY <1>10, <1>11, <1>12

LEMMA ChainFact ==
  /\ Len(Chain) = 8
  /\ \A k \in 1 .. 8 : NUL \notin Chain[k].delims /\ Chain[k].s \in Pointers
  <1> DEFINE to(k) == Chain[k].to
             Good(k) == NUL \notin Chain[k].delims
                        /\ (Chain[k].s \in {"request", "NULL"} \/ \E i \in 1 .. 8 : Chain[k].s = to(i))
  <1>1. Len(Chain) = 8 /\ DOMAIN Chain = 1 .. 8
    BY DEF Chain
  <1>2. Good(1) /\ Good(2) /\ Good(3)
    BY DEF Chain, NUL, CR
  <1>3. Good(4) /\ Good(5) /\ Good(6)
    <2>1. to(1) = Chain[4].s /\ to(2) = Chain[5].s
      BY DEF Chain
    <2>2. NUL \notin Chain[4].delims /\ NUL \notin Chain[5].delims /\ Good(6)
      BY DEF Chain, NUL, CR
    <2> HIDE DEF to
    <2> QED  BY <2>1, <2>2
  <1>4. Good(7) /\ Good(8)
    <2>1. to(2) = Chain[8].s
      BY DEF Chain
    <2>2. NUL \notin Chain[8].delims /\ Good(7)
      BY DEF Chain, NUL, CR
    <2> HIDE DEF to
    <2> QED  BY <2>1, <2>2
  <1>5. \A k \in 1 .. 8 : Good(k)
    <2> HIDE DEF Good
    <2> QED  BY <1>2, <1>3, <1>4
  <1> QED  BY <1>1, <1>5 DEF Pointers

LEMMA CallFact ==
  ASSUME NEW n \in Nat, NEW state \in States(n), NEW k \in 1 .. 8
  PROVE  Call(state, Chain[k]) \in States(n)
  <1> DEFINE call == Chain[k]
             lib == strtok(state.lib, state.p[call.s], call.delims)
             ptr == IF call.to = "prefix" THEN lib.result + 1 ELSE lib.result
  <1>1. NUL \notin call.delims /\ call.s \in Pointers
    BY ChainFact
  <1> HIDE DEF call
  <1>2. state.lib \in Lib(n) /\ state.p \in [Pointers -> 0 .. n + 1]
    BY DEF States
  <1>3. state.p[call.s] \in 0 .. n + 1
    BY <1>1, <1>2
  <1>4. lib \in Lib(n)
    BY <1>1, <1>2, <1>3, StrtokFact
  <1>5. Call(state, call) = [lib |-> lib, p |-> [state.p EXCEPT ![call.to] = ptr]]
    BY DEF Call
  <1> HIDE DEF lib
  <1>6. ptr \in 0 .. n + 1
    BY <1>4 DEF Lib
  <1> HIDE DEF ptr
  <1>7. [state.p EXCEPT ![call.to] = ptr] \in [Pointers -> 0 .. n + 1]
    BY <1>2, <1>6
  <1>8. Call(state, call) \in States(n)
    BY <1>4, <1>5, <1>7 DEF States
  <1> QED  BY <1>8 DEF call

LEMMA FieldsFact ==
  ASSUME NEW request \in Text
  PROVE  Fields(request) \in States(Len(request))
  <1> DEFINE n == Len(request)
             S == States(n)
             init == [lib |-> [mem |-> request, save |-> null, result |-> null],
                      p   |-> [x \in Pointers |-> IF x = "request" THEN 1 ELSE null]]
             step == [ks \in (1 .. 8) \X S |-> Call(ks[2], Chain[ks[1]])]
             after[k \in 0 .. Len(Chain)] ==
               IF k = 0 THEN init ELSE Call(after[k - 1], Chain[k])
             D == {k \in 0 .. 8 : after[k] \in S}
  <1>1. n \in Nat /\ request \in [1 .. n -> Symbol]
    BY DEF Text
  <1>2. Len(Chain) = 8
    BY ChainFact
  <1>3. init \in S
    <2>1. null \in 0 .. n /\ null \in 0 .. n + 1 /\ 1 \in 0 .. n + 1
      BY <1>1 DEF null
    <2>2. init.lib \in Lib(n)
      BY <1>1, <2>1 DEF Lib
    <2>3. init.p \in [Pointers -> 0 .. n + 1]
      BY <2>1
    <2> QED  BY <2>2, <2>3 DEF States
  <1> HIDE DEF init, S
  <1>4. \A s \in S, k \in 1 .. 8 : Call(s, Chain[k]) \in S
    BY <1>1, CallFact DEF S
  <1>5. step \in [(1 .. 8) \X S -> S]
    BY <1>4
  <1>6. PICK f \in [0 .. 8 -> S] : Computes(f, 8, init, step)
    <2> HIDE DEF step
    <2>1. 8 \in Nat
      OBVIOUS
    <2> QED  BY <1>3, <1>5, <2>1, Recursion
  <1>7. f = [k \in 0 .. 8 |-> IF k = 0 THEN init ELSE Call(f[k - 1], Chain[k])]
    <2>1. ASSUME NEW k \in 0 .. 8
          PROVE  f[k] = IF k = 0 THEN init ELSE Call(f[k - 1], Chain[k])
      <3>1. CASE k = 0
        BY <1>6, <3>1 DEF Computes
      <3>2. CASE k # 0
        <4>1. k \in 1 .. 8 /\ f[k - 1] \in S
          BY <3>2
        <4>2. f[k] = step[<<k, f[k - 1]>>]
          BY <1>6, <4>1 DEF Computes
        <4> QED  BY <3>2, <4>1, <4>2
      <3> QED  BY <3>1, <3>2
    <2> QED  BY <2>1
  <1>8. after = [k \in 0 .. 8 |-> IF k = 0 THEN init ELSE Call(after[k - 1], Chain[k])]
    BY <1>2, <1>7
  <1> HIDE DEF after
  <1>9. 0 \in D
    BY <1>3, <1>8
  <1>10. ASSUME NEW k \in 1 .. 8, k - 1 \in D PROVE k \in D
    <2>1. after[k - 1] \in S
      BY <1>10
    <2>2. after[k] = Call(after[k - 1], Chain[k])
      BY <1>8
    <2>3. after[k] \in S
      BY <1>4, <2>1, <2>2
    <2> QED  BY <2>3
  <1>11. 0 .. 8 \subseteq D
    <2> HIDE DEF D
    <2>1. 8 \in Nat
      OBVIOUS
    <2> QED  BY <1>9, <1>10, <2>1, BoundedInduction
  <1>12. after[8] \in S
    BY <1>11
  <1>13. Fields(request) = after[8]
    BY <1>2 DEF Fields, after, init
  <1> QED  BY <1>12, <1>13 DEF S

LEMMA StringFact ==
  ASSUME NEW n \in Nat, NEW mem \in [1 .. n -> Symbol], NEW p \in 0 .. n + 1
  PROVE  String(mem, p) \in Text
  <1> DEFINE H == {q \in p .. n + 1 : At(mem, q) = NUL}
             end == CHOOSE q \in p .. n + 1 :
                      At(mem, q) = NUL /\ \A r \in p .. q - 1 : ~(At(mem, r) = NUL)
  <1>1. Len(mem) = n /\ mem \in Seq(Symbol)
    OBVIOUS
  <1>2. At(mem, n + 1) = NUL
    BY <1>1 DEF At
  <1>3. end \in p .. n + 1
    <2>1. H \subseteq p .. n + 1 /\ H # {} /\ p \in Nat /\ n + 1 \in Nat
      BY <1>2
    <2>2. \E q \in p .. n + 1 : q \in H /\ \A r \in p .. q - 1 : r \notin H
      <3> HIDE DEF H
      <3> QED  BY <2>1, FirstFact
    <2>3. \E q \in p .. n + 1 : At(mem, q) = NUL /\ \A r \in p .. q - 1 : ~(At(mem, r) = NUL)
      BY <2>2
    <2> QED  BY <2>3
  <1>4. CASE p = null
    <2>1. String(mem, p) = <<>>
      BY <1>4 DEF String
    <2> QED  BY <2>1 DEF Text
  <1>5. CASE p # null
    <2>1. String(mem, p) = SubSeq(mem, p, end - 1)
      BY <1>1, <1>5 DEF String, From
    <2> HIDE DEF end
    <2>2. p \in 1 .. n + 1 /\ end - 1 \in 0 .. n
      BY <1>3, <1>5 DEF null
    <2>3. SubSeq(mem, p, end - 1) \in Seq(Symbol)
      BY <1>1, <2>2
    <2> QED  BY <2>1, <2>3 DEF Text
  <1> QED  BY <1>4, <1>5

LEMMA ParserFact ==
  ASSUME NEW request \in Text
  PROVE  /\ CommandParser(request).message \in Text
         /\ CommandParser(request).params \in Seq(Text)
  <1> DEFINE f == Fields(request)
             n == Len(request)
             cmd == String(f.lib.mem, f.p["cmd"])
             message == String(f.lib.mem, f.p["message"])
             Fielded(code) == [code |-> code, cmd |-> cmd, message |-> message,
                               params |-> Params(request)]
             Typed(r) == r.message \in Text /\ r.params \in Seq(Text)
  <1>1. n \in Nat /\ f \in States(n)
    BY FieldsFact DEF Text
  <1> HIDE DEF f, n
  <1>2. message \in Text
    <2>1. "message" \in Pointers
      <3>1. Chain[3].to = "message" /\ 3 \in DOMAIN Chain
        BY DEF Chain
      <3> QED  BY <3>1 DEF Pointers
    <2>2. f.lib.mem \in [1 .. n -> Symbol] /\ f.p["message"] \in 0 .. n + 1
      BY <1>1, <2>1 DEF States, Lib
    <2> QED  BY <1>1, <2>2, StringFact
  <1>3. Params(request) \in Seq(Text)
    BY ParamsFact
  <1> HIDE DEF message
  <1>4. ASSUME NEW code PROVE Typed(Nothing(code)) /\ Typed(Fielded(code))
    BY <1>2, <1>3 DEF Nothing, Text
  <1>5. \E code : CommandParser(request) = Nothing(code) \/ CommandParser(request) = Fielded(code)
    BY Zenon DEF CommandParser, f, message
  <1> HIDE DEF Typed, Fielded
  <1>6. Typed(CommandParser(request))
    BY <1>4, <1>5
  <1> QED  BY <1>6 DEF Typed

-----------------------------------------------------------------------------
(***************************************************************************)
(* What a handler prints is never empty.                                   *)
(***************************************************************************)
Length == Nat \ {0}

LEMMA TextsFact ==
  ASSUME NEW f, f.message \in Text, f.params \in Seq(Text), InBounds(f)
  PROVE  Texts(f) \in Seq(Length)
  <1> DEFINE user == Head(explode(f.params[1], "!"))
             has(i) == i \in 1 .. Len(f.params) /\ f.params[i] \in Text
  <1>1. f.code = "BRLD_QUIT" => has(1) /\ user \in Text
    <2> HAVE f.code = "BRLD_QUIT"
    <2>1. f.code \in DOMAIN Indices /\ 0 \in Indices[f.code]
      BY DEF Indices
    <2>2. 0 < Len(f.params) /\ explode(f.params[1], "!") # <<>>
      BY <2>1 DEF InBounds
    <2>3. has(1)
      BY <2>2
    <2> QED  BY <2>2, <2>3, ExplodeFact
  <1>2. f.code = "ERR_CMD_NOFND" => has(4)
    <2> HAVE f.code = "ERR_CMD_NOFND"
    <2>1. f.code \in DOMAIN Indices /\ 3 \in Indices[f.code]
      BY DEF Indices
    <2>2. 3 < Len(f.params)
      BY <2>1 DEF InBounds
    <2> QED  BY <2>2
  <1>3. \A s \in Text : Len(s) \in Nat
    BY DEF Text
  <1>4. \A s \in Text : QuitLength(s) \in Length
    BY <1>3 DEF QuitLength, Length
  <1>5. \A s \in Text : Len(s) + 17 \in Length /\ Len(s) + 14 \in Length
    BY <1>3 DEF Length
  <1>6. Len(host) + 18 \in Length /\ 62 \in Length /\ 156 \in Length
    BY DEF host, Length
  <1>7. <<>> \in Seq(Length) /\ \A x, y \in Length : <<x>> \in Seq(Length) /\ <<x, y>> \in Seq(Length)
    OBVIOUS
  <1> HIDE DEF user
  <1>8. CASE f.code = "BRLD_CONNECTED"
    <2>1. Texts(f) = <<62, 156>>
      BY <1>8 DEF Texts
    <2> QED  BY <1>6, <1>7, <2>1
  <1>9. CASE f.code = "BRLD_QUIT"
    <2>1. Texts(f) = <<QuitLength(user), QuitLength(user)>>
      BY <1>9 DEF Texts, user
    <2> QED  BY <1>1, <1>4, <1>7, <1>9, <2>1
  <1>10. CASE f.code = "ERR_CMD_NOFND"
    <2>1. Texts(f) = <<Len(f.params[4]) + 17>>
      BY <1>10 DEF Texts
    <2> QED  BY <1>2, <1>5, <1>7, <1>10, <2>1
  <1>11. CASE f.code = "BRLD_ERROR"
    <2>1. Texts(f) = <<Len(f.message) + 14>>
      BY <1>11 DEF Texts
    <2> QED  BY <1>5, <1>7, <2>1
  <1>12. CASE f.code = "ERR_WRONG_PASS"
    <2>1. Texts(f) = <<Len(host) + 18>>
      BY <1>12 DEF Texts
    <2> QED  BY <1>6, <1>7, <2>1
  <1>13. CASE f.code \notin {"BRLD_CONNECTED", "BRLD_QUIT", "ERR_CMD_NOFND", "BRLD_ERROR",
                              "ERR_WRONG_PASS"}
    <2>1. Texts(f) = <<>>
      BY <1>13 DEF Texts
    <2> QED  BY <1>7, <2>1
  <1> QED  BY <1>8, <1>9, <1>10, <1>11, <1>12, <1>13

-----------------------------------------------------------------------------
(***************************************************************************)
(* The invariant.  That the texts are in the order in which they were      *)
(* asked for says also that the one the buffer grows for was asked for.    *)
(***************************************************************************)
TypeInv ==
  /\ frames \in Seq(AnyFrame)
  /\ pending \in Seq(Length) /\ printed \in Seq(Length) /\ asked \in Seq(Length)
  /\ formatBuffer \in Length

SessionInv == TypeInv /\ PrintedWhole /\ GrowthBounded

SessionStep == SessionNext \/ \E frame \in AnyFrame : Comes(frame)

\* To move the first element of t to the end of s changes nothing in s \o t.
LEMMA MoveHead ==
  ASSUME NEW S, NEW s \in Seq(S), NEW t \in Seq(S), t # <<>>
  PROVE  /\ Append(s, Head(t)) \in Seq(S) /\ Tail(t) \in Seq(S)
         /\ Append(s, Head(t)) \o Tail(t) = s \o t
         /\ Head(t) \in S /\ \E i \in DOMAIN (s \o t) : (s \o t)[i] = Head(t)
  <1>1. Head(t) \in S /\ Tail(t) \in Seq(S) /\ Len(Tail(t)) = Len(t) - 1
    BY HeadTailProperties
  <1>2. Append(s, Head(t)) \in Seq(S)
    BY <1>1, AppendProperties
  <1>3. Append(s, Head(t)) \o Tail(t) = s \o t
    BY <1>1
  <1>4. Len(s) + 1 \in DOMAIN (s \o t) /\ (s \o t)[Len(s) + 1] = Head(t)
    BY <1>1
  <1> QED  BY <1>1, <1>2, <1>3, <1>4

\* What the buffer is measured by stays asked for when more is.
LEMMA MoreAsked ==
  ASSUME TypeInv, GrowthBounded, NEW more \in Seq(Length), asked' = asked \o more,
         formatBuffer' = formatBuffer, status' = "aborted" => status = "aborted"
  PROVE  asked' \in Seq(Length) /\ GrowthBounded'
  <1>1. asked \in Seq(Length) /\ asked' \in Seq(Length)
    BY DEF TypeInv
  <1>2. \A i \in DOMAIN asked' : asked'[i] > 0
    BY <1>1 DEF Length
  <1>3. \A i \in DOMAIN asked : i \in DOMAIN asked' /\ asked'[i] = asked[i]
    BY <1>1
  <1> QED  BY <1>1, <1>2, <1>3 DEF GrowthBounded

LEMMA ParseStep == ASSUME SessionInv, Parse PROVE SessionInv'
  <1>1. TypeInv /\ PrintedWhole /\ GrowthBounded
    BY DEF SessionInv
  <1>2. /\ status = "running" /\ pending = <<>> /\ frames # <<>> /\ frames' = Tail(frames)
        /\ formatBuffer' = formatBuffer /\ printed' = printed
    BY DEF Parse
  <1>3. Head(frames) \in Text /\ frames' \in Seq(AnyFrame)
    <2>1. Head(frames) \in AnyFrame /\ frames' \in Seq(AnyFrame)
      BY <1>1, <1>2, HeadTailProperties DEF TypeInv
    <2>2. Head(frames) \in Seq(STRING)
      BY <2>1 DEF AnyFrame
    <2> QED  BY <2>1, <2>2 DEF Text, Symbol
  <1> DEFINE f == CommandParser(Head(frames))
  <1>4. f.message \in Text /\ f.params \in Seq(Text)
    BY <1>3, ParserFact
  <1>5. IF InBounds(f)
        THEN /\ status' = IF f.code \in Exits THEN "leaving" ELSE status
             /\ pending' = Texts(f) /\ asked' = asked \o Texts(f)
        ELSE status' = "undefined" /\ pending' = pending /\ asked' = asked
    BY Zenon DEF Parse
  <1> HIDE DEF f
  <1>6. asked = printed
    BY <1>1, <1>2 DEF TypeInv, PrintedWhole
  <1>7. status' # "aborted"
    BY <1>2, <1>5
  <1>8. CASE InBounds(f)
    <2>1. Texts(f) \in Seq(Length)
      BY <1>4, <1>8, TextsFact
    <2>2. pending' = Texts(f) /\ asked' = asked \o Texts(f)
      BY <1>5, <1>8
    <2>3. asked' \in Seq(Length) /\ GrowthBounded'
      BY <1>1, <1>2, <1>7, <2>1, <2>2, MoreAsked
    <2>4. PrintedWhole'
      BY <1>2, <1>6, <2>2 DEF PrintedWhole
    <2> QED  BY <1>1, <1>2, <1>3, <2>1, <2>2, <2>3, <2>4 DEF SessionInv, TypeInv
  <1>9. CASE ~InBounds(f)
    <2>1. pending' = pending /\ asked' = asked
      BY <1>5, <1>9
    <2>2. GrowthBounded'
      BY <1>1, <1>2, <1>7, <2>1 DEF GrowthBounded
    <2> QED  BY <1>1, <1>2, <1>3, <2>1, <2>2 DEF SessionInv, TypeInv, PrintedWhole
  <1> QED  BY <1>8, <1>9

LEMMA FormatStep == ASSUME SessionInv, Format PROVE SessionInv'
  <1>1. TypeInv /\ PrintedWhole /\ GrowthBounded
    BY DEF SessionInv
  <1>2. pending # <<>> /\ status # "aborted" /\ asked' = asked /\ frames' = frames
    BY DEF Format
  <1> DEFINE n == Head(pending)
  <1>3. /\ Append(printed, n) \in Seq(Length) /\ Tail(pending) \in Seq(Length)
        /\ Append(printed, n) \o Tail(pending) = asked
        /\ n \in Length /\ \E i \in DOMAIN asked : asked[i] = n
    BY <1>1, <1>2, MoveHead DEF TypeInv, PrintedWhole
  <1>4. IF FormatDone(n)
        THEN /\ printed' = Append(printed, Kept(n)) /\ pending' = Tail(pending)
             /\ formatBuffer' = formatBuffer /\ status' = status
        ELSE /\ printed' = printed /\ pending' = pending
             /\ IF 2 * formatBuffer <= MaxBuffer
                THEN formatBuffer' = 2 * formatBuffer /\ status' = status
                ELSE status' = "aborted" /\ formatBuffer' = formatBuffer
    BY DEF Format
  <1> HIDE DEF n
  <1>5. formatBuffer \in Nat /\ formatBuffer > 0 /\ n \in Nat /\ n > 0
    BY <1>1, <1>3 DEF TypeInv, Length
  <1>6. MaxBuffer \in Nat
    BY SessionAssumption
  <1>7. CASE FormatDone(n)
    <2>1. Kept(n) = n
      BY <1>7 DEF FormatDone, Kept
    <2>2. printed' = Append(printed, n) /\ pending' = Tail(pending)
          /\ formatBuffer' = formatBuffer /\ status' = status
      BY <1>4, <1>7, <2>1
    <2>3. TypeInv' /\ PrintedWhole'
      BY <1>1, <1>2, <1>3, <2>2 DEF TypeInv, PrintedWhole
    <2>4. GrowthBounded'
      BY <1>1, <1>2, <2>2 DEF GrowthBounded
    <2> QED  BY <2>3, <2>4 DEF SessionInv
  <1>8. CASE ~FormatDone(n)
    <2>1. printed' = printed /\ pending' = pending
      BY <1>4, <1>8
    <2>2. formatBuffer <= n
      BY <1>5, <1>8 DEF FormatDone
    <2>3. PICK i \in DOMAIN asked : asked[i] = n
      BY <1>3
    <2>4. CASE 2 * formatBuffer <= MaxBuffer
      <3>1. formatBuffer' = 2 * formatBuffer /\ status' = status
        BY <1>4, <1>8, <2>4
      <3>2. formatBuffer' \in Length /\ formatBuffer' <= 2 * asked'[i]
        BY <1>2, <1>5, <2>2, <2>3, <3>1 DEF Length
      <3>3. TypeInv' /\ PrintedWhole'
        BY <1>1, <1>2, <2>1, <3>2 DEF TypeInv, PrintedWhole
      <3>4. GrowthBounded'
        BY <1>1, <1>2, <2>3, <3>1, <3>2 DEF GrowthBounded
      <3> QED  BY <3>3, <3>4 DEF SessionInv
    <2>5. CASE ~(2 * formatBuffer <= MaxBuffer)
      <3>1. formatBuffer' = formatBuffer
        BY <1>4, <1>8, <2>5
      <3>2. 2 * asked'[i] > MaxBuffer
        BY <1>2, <1>5, <1>6, <2>2, <2>3, <2>5
      <3>3. TypeInv' /\ PrintedWhole'
        BY <1>1, <1>2, <2>1, <3>1 DEF TypeInv, PrintedWhole
      <3>4. GrowthBounded'
        BY <1>1, <1>2, <2>3, <3>1, <3>2 DEF GrowthBounded
      <3> QED  BY <3>3, <3>4 DEF SessionInv
    <2> QED  BY <2>4, <2>5
  <1> QED  BY <1>7, <1>8

LEMMA StepFact == ASSUME SessionInv, [SessionStep]_sessionVars PROVE SessionInv'
  <1>1. CASE Parse
    BY <1>1, ParseStep
  <1>2. CASE Format
    BY <1>2, FormatStep
  <1>3. CASE Leave
    <2>1. UNCHANGED <<frames, formatBuffer, pending, printed, asked>> /\ status' # "aborted"
      BY <1>3 DEF Leave
    <2> QED  BY <2>1 DEF SessionInv, TypeInv, PrintedWhole, GrowthBounded
  <1>4. ASSUME NEW frame \in AnyFrame, Comes(frame) PROVE SessionInv'
    <2>1. UNCHANGED <<formatBuffer, pending, printed, asked, status>> /\ frames' \in Seq(AnyFrame)
      BY <1>4 DEF Comes
    <2> QED  BY <2>1 DEF SessionInv, TypeInv, PrintedWhole, GrowthBounded
  <1>5. CASE UNCHANGED sessionVars
    BY <1>5 DEF sessionVars, SessionInv, TypeInv, PrintedWhole, GrowthBounded
  <1> QED  BY <1>1, <1>2, <1>3, <1>4, <1>5 DEF SessionStep, SessionNext

LEMMA InvariantHolds == SessionSpec => []SessionInv
  <1>1. SessionInit /\ frames = <<>> => SessionInv
    <2> SUFFICES ASSUME SessionInit, frames = <<>> PROVE SessionInv
      OBVIOUS
    <2>1. /\ formatBuffer = FORMAT_SIZE /\ status = "running"
          /\ pending = <<>> /\ printed = <<>> /\ asked = <<>>
      BY DEF SessionInit
    <2>2. formatBuffer \in Length
      BY <2>1, SessionAssumption DEF Length
    <2>3. TypeInv /\ PrintedWhole
      BY <2>1, <2>2 DEF TypeInv, PrintedWhole
    <2> QED  BY <2>1, <2>3 DEF SessionInv, GrowthBounded
  <1>2. SessionInv /\ [SessionStep]_sessionVars => SessionInv'
    BY StepFact
  <1> QED  BY <1>1, <1>2, PTL DEF SessionSpec, SessionStep

-----------------------------------------------------------------------------
\* Whatever frames come, every text is printed in order and to its last byte.
THEOREM TextsArePrinted == SessionSpec => []PrintedWhole
  <1>1. SessionInv => PrintedWhole
    BY DEF SessionInv
  <1> QED  BY <1>1, InvariantHolds, PTL

(***************************************************************************)
(* Whatever frames come, the buffer of Format never becomes larger than    *)
(* twice the longest text asked for, and is given up on only for a text    *)
(* that takes half of the memory: none is empty, so that none makes the    *)
(* buffer double without an end.                                           *)
(***************************************************************************)
THEOREM GrowthIsBounded == SessionSpec => []GrowthBounded
  <1>1. SessionInv => GrowthBounded
    BY DEF SessionInv
  <1> QED  BY <1>1, InvariantHolds, PTL
=============================================================================
