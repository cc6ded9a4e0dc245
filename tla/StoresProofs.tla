----------------------------- MODULE StoresProofs -----------------------------
(***************************************************************************)
(* Proofs about the stores of the render thread: each by itself, and from  *)
(* that in HostStores, whose steps are steps of one store each.            *)
(***************************************************************************)
EXTENDS HostStores, FoldLemmas

-----------------------------------------------------------------------------
(* Buffers and the bounds of their indices.                                  *)

BuffersSpec == BuffersInit /\ [][BuffersNext]_bufferVars

LEMMA BufferLimits == /\ BufferNames \in Nat \ {0} /\ MaxBuffers \in Nat \ {0}
                      /\ BufferBytes \in Nat \ {0} /\ BufferBudget \in Nat \ {0}
BY BuffersAssumption

LEMMA MaxSmall ==
    ASSUME NEW S \in SUBSET (0..3), S # {}
    PROVE  Max(S) \in S /\ \A y \in S : y <= Max(S)
<1>1. \E x \in S : \A y \in S : x >= y
  <2>1. CASE 3 \in S BY <2>1
  <2>2. CASE 3 \notin S /\ 2 \in S BY <2>2
  <2>3. CASE 3 \notin S /\ 2 \notin S /\ 1 \in S BY <2>3
  <2>4. CASE 3 \notin S /\ 2 \notin S /\ 1 \notin S
    <3>1. \A y \in S : y \in 0..3 /\ y # 1 /\ y # 2 /\ y # 3 BY <2>4
    <3>2. \A y \in S : y = 0 BY <3>1
    <3>3. 0 \in S BY <3>2
    <3> QED BY <3>2, <3>3
  <2> QED BY <2>1, <2>2, <2>3, <2>4
<1> DEFINE P(x) == x \in S /\ \A y \in S : x >= y
<1>2. \E x : P(x) BY <1>1
<1>3. P(CHOOSE x : P(x)) BY <1>2
<1>4. Max(S) = CHOOSE x : P(x) BY DEF Max
<1> QED BY <1>3, <1>4

LEMMA StoreShape ==
    ASSUME NEW s \in Stores
    PROVE  /\ s \in Seq({0, 1}) /\ Len(s) \in 0..BufferBytes
           /\ DOMAIN s = 1..Len(s) /\ \A k \in 1..Len(s) : s[k] \in {0, 1}
<1>1. PICK m \in 0..BufferBytes : s \in [1..m -> {0, 1}] BY DEF Stores, SeqOf
<1>2. m \in Nat BY BufferLimits
<1> QED BY <1>1, <1>2

LEMMA StoreMade ==
    ASSUME NEW s, NEW m \in 0..BufferBytes, s \in [1..m -> {0, 1}]
    PROVE  s \in Stores /\ Len(s) = m
BY BufferLimits DEF Stores, SeqOf

LEMMA ValueSmall ==
    ASSUME NEW s \in Stores, NEW w \in {1, 2}, NEW at \in Nat, at + w <= Len(s)
    PROVE  IndexValue(s, at, w) \in 0..3
<1>1. CASE w = 1
  <2>1. at + 1 \in 1..Len(s) BY <1>1, StoreShape
  <2> QED BY <1>1, <2>1, StoreShape DEF IndexValue
<1>2. CASE w = 2
  <2>1. at + 1 \in 1..Len(s) /\ at + 2 \in 1..Len(s) BY <1>2, StoreShape
  <2>2. s[at + 1] \in {0, 1} /\ s[at + 2] \in {0, 1} BY <2>1, StoreShape
  <2> QED BY <1>2, <2>2 DEF IndexValue
<1> QED BY <1>1, <1>2

Covers(given, bounds) == \A w \in {1, 2} : \A at \in Aligned(given, w) :
    IndexValue(given, at, w) <= bounds[w]

LEMMA RaisedCovers ==
    ASSUME NEW s \in Stores, NEW bounds \in [{1, 2} -> 0..3],
           NEW start \in Nat, NEW end \in Nat,
           \A w \in {1, 2} : \A at \in Aligned(s, w) \ TouchedBy(s, w, start, end) :
                IndexValue(s, at, w) <= bounds[w]
    PROVE  /\ Raised(bounds, s, start, end) \in [{1, 2} -> 0..3]
           /\ Covers(s, Raised(bounds, s, start, end))
<1> DEFINE V(w) == {IndexValue(s, at, w) : at \in TouchedBy(s, w, start, end)}
           R == Raised(bounds, s, start, end)
<1>1. ASSUME NEW w \in {1, 2}, NEW at \in Aligned(s, w)
      PROVE  at \in Nat /\ at + w <= Len(s)
  BY <1>1, StoreShape DEF Aligned
<1>2. ASSUME NEW w \in {1, 2} PROVE V(w) \subseteq 0..3
  BY <1>1, ValueSmall DEF TouchedBy
<1>3. ASSUME NEW w \in {1, 2}
      PROVE /\ R[w] = Max({bounds[w]} \union V(w)) /\ R[w] \in 0..3 /\ bounds[w] <= R[w]
            /\ \A y \in V(w) : y <= R[w]
  <2>1. R[w] = Max({bounds[w]} \union V(w)) BY DEF Raised
  <2> HIDE DEF R, V
  <2>2. {bounds[w]} \union V(w) \in SUBSET (0..3) BY <1>2
  <2>3. Max({bounds[w]} \union V(w)) \in {bounds[w]} \union V(w)
        /\ \A y \in {bounds[w]} \union V(w) : y <= Max({bounds[w]} \union V(w))
    BY <2>2, MaxSmall
  <2> QED BY <2>1, <2>2, <2>3
<1>4. R \in [{1, 2} -> 0..3]
  <2>1. R = [w \in {1, 2} |-> R[w]] BY DEF Raised
  <2> HIDE DEF R
  <2> QED BY <2>1, <1>3
<1>5. Covers(s, R)
  <2> SUFFICES ASSUME NEW w \in {1, 2}, NEW at \in Aligned(s, w)
               PROVE  IndexValue(s, at, w) <= R[w]
    BY DEF Covers
  <2>1. CASE at \in TouchedBy(s, w, start, end)
    <3>1. IndexValue(s, at, w) \in V(w) BY <2>1
    <3> HIDE DEF V, R
    <3> QED BY <3>1, <1>3
  <2>2. CASE at \notin TouchedBy(s, w, start, end)
    <3>1. IndexValue(s, at, w) <= bounds[w] BY <2>2
    <3>2. IndexValue(s, at, w) \in 0..3 BY <1>1, ValueSmall
    <3>3. R[w] \in 0..3 /\ bounds[w] <= R[w] /\ bounds[w] \in 0..3 BY <1>3
    <3> HIDE DEF V, R
    <3> QED BY <3>1, <3>2, <3>3
  <2> QED BY <2>1, <2>2
<1> QED BY <1>4, <1>5

Object(b) == /\ b \in [data : Stores, native : Stores, bounds : [{1, 2} -> 0..3]]
             /\ b.native = b.data /\ Covers(b.data, b.bounds)

ObjectsInv == \A n \in DOMAIN buffers : Object(buffers[n])

LEMMA FilledObject ==
    ASSUME NEW s \in Stores
    PROVE  Object(Filled(s))
<1> DEFINE b == Raised(NoBounds, s, 0, Len(s))
<1>1. NoBounds \in [{1, 2} -> 0..3] BY DEF NoBounds
<1>2. Len(s) \in Nat BY StoreShape, BufferLimits
<1>3. ASSUME NEW w \in {1, 2} PROVE Aligned(s, w) \ TouchedBy(s, w, 0, Len(s)) = {}
  BY <1>2 DEF Aligned, TouchedBy
<1>4. b \in [{1, 2} -> 0..3] /\ Covers(s, b)
  <2> HIDE DEF b
  <2>1. \A w \in {1, 2} : \A at \in Aligned(s, w) \ TouchedBy(s, w, 0, Len(s)) :
            IndexValue(s, at, w) <= NoBounds[w]
    BY <1>3
  <2> QED BY <1>1, <1>2, <2>1, RaisedCovers DEF b
<1>5. Filled(s) = [data |-> s, native |-> s, bounds |-> b] BY DEF Filled
<1> HIDE DEF b
<1> QED BY <1>4, <1>5 DEF Object

LEMMA EmptiedObject == Object(Emptied)
<1>0. <<>> \in Seq({0, 1}) /\ Len(<<>>) = 0 OBVIOUS
<1>1. <<>> \in [1..0 -> {0, 1}]
  <2>1. \A s \in Seq({0, 1}) : s \in [1..Len(s) -> {0, 1}] OBVIOUS
  <2> QED BY <1>0, <2>1
<1>2. 0 \in 0..BufferBytes BY BufferLimits
<1>3. \A e : e \in [1..0 -> {0, 1}] => e \in Stores BY <1>2, StoreMade
<1>4. <<>> \in Stores BY <1>1, <1>3
<1> QED BY <1>4, FilledObject DEF Emptied

LEMMA WrittenObject ==
    ASSUME NEW b, Object(b), NEW w \in Stores, NEW offset \in Nat,
           NEW new, NEW bounds,
           offset + Len(w) <= Len(b.data),
           new = [k \in DOMAIN b.data |->
                    IF k \in (offset + 1)..(offset + Len(w)) THEN w[k - offset] ELSE b.data[k]],
           bounds = Raised(b.bounds, new, offset, offset + Len(w))
    PROVE  Object([data |-> new, native |-> new, bounds |-> bounds])
<1> DEFINE old == b.data
           end == offset + Len(w)
<1>1. old \in Stores /\ b.bounds \in [{1, 2} -> 0..3] /\ Covers(old, b.bounds) BY DEF Object
<1>2. /\ Len(old) \in 0..BufferBytes /\ Len(w) \in 0..BufferBytes /\ Len(w) \in Nat
      /\ Len(old) \in Nat /\ DOMAIN old = 1..Len(old) /\ DOMAIN w = 1..Len(w)
      /\ \A k \in 1..Len(w) : w[k] \in {0, 1}
      /\ \A k \in 1..Len(old) : old[k] \in {0, 1}
  <2>1. Len(old) \in 0..BufferBytes /\ DOMAIN old = 1..Len(old)
        /\ \A k \in 1..Len(old) : old[k] \in {0, 1} BY <1>1, StoreShape
  <2>2. Len(w) \in 0..BufferBytes /\ DOMAIN w = 1..Len(w)
        /\ \A k \in 1..Len(w) : w[k] \in {0, 1} BY StoreShape
  <2> HIDE DEF old
  <2> QED BY <2>1, <2>2, BufferLimits
<1>3. ASSUME NEW k \in 1..Len(old)
      PROVE  new[k] \in {0, 1} /\ (~(offset < k /\ k <= end) => new[k] = old[k])
  <2>1. new[k] = IF k \in (offset + 1)..end THEN w[k - offset] ELSE old[k] BY <1>2
  <2>2. k \in (offset + 1)..end => k - offset \in 1..Len(w) BY <1>2
  <2> HIDE DEF old
  <2> QED BY <2>1, <2>2, <1>2
<1>4. new \in [1..Len(old) -> {0, 1}]
  <2>1. new = [k \in 1..Len(old) |-> new[k]] BY <1>2
  <2> HIDE DEF old
  <2> QED BY <2>1, <1>3
<1>5. new \in Stores /\ Len(new) = Len(old) BY <1>2, <1>4, StoreMade
<1>6. ASSUME NEW v \in {1, 2}, NEW at \in Aligned(new, v) \ TouchedBy(new, v, offset, end)
      PROVE  IndexValue(new, at, v) <= b.bounds[v]
  <2>1. at \in Nat /\ at + v <= Len(old) /\ at \in Aligned(old, v)
    BY <1>5, <1>2 DEF Aligned
  <2>2. end <= at \/ at + v <= offset BY <1>2, <2>1 DEF TouchedBy
  <2>3. \A k \in 1..v : new[at + k] = old[at + k]
    <3> TAKE k \in 1..v
    <3>1. at + k \in 1..Len(old) BY <2>1, <1>2
    <3>2. ~(offset < at + k /\ at + k <= end) BY <2>1, <2>2, <1>2
    <3> QED BY <3>1, <3>2, <1>3
  <2>4. IndexValue(new, at, v) = IndexValue(old, at, v)
    <3>1. CASE v = 1 BY <3>1, <2>3 DEF IndexValue
    <3>2. CASE v = 2 BY <3>2, <2>3 DEF IndexValue
    <3> QED BY <3>1, <3>2
  <2> QED BY <2>1, <2>4, <1>1 DEF Covers
<1>7. bounds \in [{1, 2} -> 0..3] /\ Covers(new, bounds)
  <2>1. end \in Nat BY <1>2
  <2>2. bounds = Raised(b.bounds, new, offset, end) OBVIOUS
  <2>3. \A v \in {1, 2} : \A at \in Aligned(new, v) \ TouchedBy(new, v, offset, end) :
            IndexValue(new, at, v) <= b.bounds[v]
    BY <1>6
  <2>4. new \in Stores /\ b.bounds \in [{1, 2} -> 0..3] BY <1>1, <1>5
  <2> HIDE DEF old, end
  <2> QED BY <2>1, <2>2, <2>3, <2>4, RaisedCovers
<1> QED BY <1>5, <1>7 DEF Object

LEMMA GivenStores ==
    ASSUME NEW refused \in Refusals, NEW given \in Given(refused)
    PROVE  given \in Stores
<1>1. CASE refused = "none" BY <1>1 DEF Given
<1>2. CASE refused # "none"
  <2>1. PICK n \in 0..BufferBytes : given = [k \in 1..n |-> 0] BY <1>2 DEF Given
  <2>2. given \in [1..n -> {0, 1}] BY <2>1
  <2> QED BY <2>2, StoreMade
<1> QED BY <1>1, <1>2

Replaced(n, b) == [m \in DOMAIN buffers \union {n} |-> IF m = n THEN b ELSE buffers[m]]

LEMMA BufferDataKeeps ==
    ASSUME ObjectsInv, BufferData
    PROVE  ObjectsInv'
<1>1. PICK n \in 1..BufferNames, refused \in Refusals : \E given \in Given(refused) :
        BufferData!(n, refused)!(given)
  BY DEF BufferData
<1>2. PICK given \in Given(refused) : BufferData!(n, refused)!(given) BY <1>1
<1> DEFINE old == IF n \in DOMAIN buffers THEN buffers[n] ELSE Emptied
<1>3. \/ UNCHANGED buffers
      \/ buffers' = Replaced(n, old)
      \/ buffers' = Replaced(n, Emptied)
      \/ buffers' = Replaced(n, Filled(given))
  BY <1>2 DEF Replaced, bufferVars
<1>4. Object(old) BY EmptiedObject DEF ObjectsInv
<1>5. Object(Filled(given)) BY GivenStores, FilledObject
<1>6. ASSUME NEW b, Object(b), buffers' = Replaced(n, b)
      PROVE  ObjectsInv'
  BY <1>6 DEF Replaced, ObjectsInv
<1>7. CASE UNCHANGED buffers BY <1>7 DEF ObjectsInv
<1> QED BY <1>3, <1>4, <1>5, <1>6, <1>7, EmptiedObject

LEMMA BufferSubDataKeeps ==
    ASSUME ObjectsInv, BufferSubData
    PROVE  ObjectsInv'
<1>1. PICK n \in DOMAIN buffers, given \in Stores, offset \in 0..BufferBytes :
        BufferSubData!(n, given, offset)
  BY DEF BufferSubData
<1> DEFINE b == buffers[n]
           end == offset + Len(given)
           new == [k \in DOMAIN b.data |->
                     IF k \in (offset + 1)..end THEN given[k - offset] ELSE b.data[k]]
           made == [data |-> new, native |-> new,
                    bounds |-> Raised(b.bounds, new, offset, end)]
<1>2. Object(b) /\ b.native = b.data BY DEF ObjectsInv, Object
<1>3. end <= Len(b.data) BY <1>1
<1>4. buffers' = [buffers EXCEPT ![n] = made] BY <1>1, <1>2
<1>5. offset \in Nat BY BufferLimits
<1>6. Object(made)
  <2> HIDE DEF b
  <2> QED BY <1>2, <1>3, <1>5, WrittenObject
<1> HIDE DEF made
<1> QED BY <1>4, <1>6 DEF ObjectsInv

LEMMA InBounds ==
    ASSUME NEW offset \in 0..1, NEW v \in 0..3, NEW high \in 0..3, NEW len \in Nat,
           v <= high, offset + high + 1 <= len
    PROVE  offset + v < len
OBVIOUS

LEMMA AdmittedBounded ==
    ASSUME ObjectsInv, NEW d \in {x \in Draws : DrawAdmitted(x)}
    PROVE  LET elements == IF d.element = 0 THEN <<>> ELSE buffers[d.element].native
           IN /\ d.element # 0 => ElementEnd(d) <= Len(elements)
              /\ \A v \in IndicesOf(d, elements) :
                    /\ d.offset + v < Len(buffers[d.attribute].native)
                    /\ d.vertices # 0 => v \in d.base..(d.base + d.vertices - 1)
<1> DEFINE elements == IF d.element = 0 THEN <<>> ELSE buffers[d.element].native
           a == buffers[d.attribute]
           e == buffers[d.element]
           V == IndicesOf(d, elements)
<1>1. /\ d.width \in {1, 2} /\ d.at \in Nat /\ d.count \in 1..2
      /\ d.offset \in 0..1 /\ d.base \in 0..1 /\ d.vertices \in 0..2
      /\ d.attribute \in DOMAIN buffers
      /\ d.element # 0 => d.element \in DOMAIN buffers
  BY BufferLimits DEF Draws
<1>2. Object(a) /\ (d.element # 0 => Object(e)) BY <1>1 DEF ObjectsInv
<1>3. a.native = a.data /\ Len(a.data) \in Nat
  BY <1>2, StoreShape, BufferLimits DEF Object
<1>4. d.element # 0 => /\ e.native = e.data /\ e.data \in Stores
                       /\ ElementEnd(d) <= Len(e.data) /\ Len(e.data) \in Nat
                       /\ e.bounds \in [{1, 2} -> 0..3] /\ Covers(e.data, e.bounds)
  BY <1>2, StoreShape, BufferLimits DEF Object, DrawAdmitted
<1>5. elements = IF d.element = 0 THEN <<>> ELSE e.data BY <1>4
<1>6. d.at % d.width = 0 BY DEF DrawAdmitted
<1>7. ASSUME d.element # 0, NEW k \in 0..(d.count - 1)
      PROVE  /\ d.at + k * d.width \in Aligned(e.data, d.width)
             /\ d.at + k * d.width \in Nat /\ d.at + k * d.width + d.width <= Len(e.data)
  <2>1. d.at + d.count * d.width <= Len(e.data) /\ Len(e.data) \in Nat
    BY <1>4, <1>7 DEF ElementEnd
  <2>2. k \in {0, 1} /\ k + 1 <= d.count BY <1>1
  <2>3. CASE d.width = 1 BY <2>1, <2>2, <2>3, <1>1, <1>6 DEF Aligned
  <2>4. CASE d.width = 2
    <3>1. d.at \in Nat /\ d.at % 2 = 0 /\ (d.count = 1 \/ d.count = 2) BY <2>4, <1>1, <1>6
    <3>2. k = 0 \/ (k = 1 /\ d.count = 2) BY <3>1, <2>2
    <3>3. d.at + k * 2 \in Nat /\ (d.at + k * 2) % 2 = 0 BY <3>1, <3>2
    <3>4. d.at + k * 2 + 2 <= Len(e.data) BY <2>1, <2>4, <3>1, <3>2
    <3> HIDE DEF e
    <3> QED BY <2>1, <2>4, <3>3, <3>4 DEF Aligned
  <2> QED BY <2>3, <2>4, <1>1
<1>8. V \in SUBSET (0..3) /\ V # {}
  <2>1. CASE d.element = 0
    <3>1. V = d.base..(d.base + d.count - 1) BY <2>1 DEF IndicesOf
    <3>2. d.base \in 0..3 /\ d.base + d.count - 1 \in 0..3 /\ d.base <= d.base + d.count - 1
      BY <1>1
    <3>3. d.base \in V /\ V \subseteq 0..3 BY <3>1, <3>2
    <3> HIDE DEF V
    <3> QED BY <3>3
  <2>2. CASE d.element # 0
    <3>1. V = {IndexValue(e.data, d.at + k * d.width, d.width) : k \in 0..(d.count - 1)}
      BY <2>2, <1>5 DEF IndicesOf
    <3>2. \A k \in 0..(d.count - 1) : IndexValue(e.data, d.at + k * d.width, d.width) \in 0..3
      BY <2>2, <1>7, <1>4, <1>1, ValueSmall
    <3>3. 0 \in 0..(d.count - 1) BY <1>1
    <3> HIDE DEF V, e
    <3> QED BY <3>1, <3>2, <3>3
  <2> QED BY <2>1, <2>2
<1>9. CASE d.element # 0 /\ d.vertices = 0 /\ Fits(d, e.bounds[d.width])
  <2>1. \A v \in V : v \in 0..3 /\ v <= e.bounds[d.width]
    <3>1. V = {IndexValue(e.data, d.at + k * d.width, d.width) : k \in 0..(d.count - 1)}
      BY <1>9, <1>5 DEF IndicesOf
    <3>2. \A k \in 0..(d.count - 1) :
             IndexValue(e.data, d.at + k * d.width, d.width) <= e.bounds[d.width]
      BY <1>9, <1>7, <1>4, <1>1 DEF Covers
    <3> HIDE DEF V, e
    <3> QED BY <3>1, <3>2, <1>8
  <2>2. d.offset + e.bounds[d.width] + 1 <= Len(a.data) BY <1>9 DEF Fits
  <2>3. e.bounds[d.width] \in 0..3 BY <1>9, <1>4, <1>1
  <2>4. \A v \in V : d.offset + v < Len(a.native)
    <3>1. d.offset \in 0..1 /\ Len(a.data) \in Nat /\ a.native = a.data BY <1>1, <1>3
    <3> HIDE DEF V, a, e
    <3> QED BY <3>1, <2>1, <2>2, <2>3, InBounds
  <2> QED BY <2>4, <1>9, <1>4, <1>5
<1>10. CASE /\ d.vertices # 0 => V \subseteq d.base..(d.base + d.vertices - 1)
            /\ Fits(d, Max(V))
  <2>1. Max(V) \in V /\ \A v \in V : v <= Max(V)
    <3> HIDE DEF V
    <3> QED BY <1>8, MaxSmall
  <2>2. d.offset + Max(V) + 1 <= Len(a.data) BY <1>10 DEF Fits
  <2>3. \A v \in V : d.offset + v < Len(a.native)
    <3>1. d.offset \in 0..1 /\ Len(a.data) \in Nat /\ a.native = a.data BY <1>1, <1>3
    <3>2. Max(V) \in 0..3 /\ \A v \in V : v \in 0..3 BY <1>8, <2>1
    <3> HIDE DEF V, a
    <3> QED BY <3>1, <3>2, <2>1, <2>2, InBounds
  <2> QED BY <2>3, <1>10, <1>4, <1>5
<1>11. \/ d.element # 0 /\ d.vertices = 0 /\ Fits(d, e.bounds[d.width])
       \/ /\ d.vertices # 0 => V \subseteq d.base..(d.base + d.vertices - 1)
          /\ Fits(d, Max(V))
  BY <1>5 DEF DrawAdmitted
<1> QED BY <1>9, <1>10, <1>11

(* The buffers by themselves.                                                *)
THEOREM BuffersBounded == BuffersSpec => []BoundsSound
<1>1. BuffersInit => ObjectsInv
  BY DEF BuffersInit, ObjectsInv
<1>2. ObjectsInv /\ [BuffersNext]_bufferVars => ObjectsInv'
  <2> SUFFICES ASSUME ObjectsInv, [BuffersNext]_bufferVars PROVE ObjectsInv' OBVIOUS
  <2>1. CASE BufferData BY <2>1, BufferDataKeeps
  <2>2. CASE BufferSubData BY <2>2, BufferSubDataKeeps
  <2>3. CASE DeleteBuffer BY <2>3 DEF DeleteBuffer, ObjectsInv
  <2>4. CASE ReleaseBuffers BY <2>4 DEF ReleaseBuffers, ObjectsInv
  <2>5. CASE UNCHANGED bufferVars BY <2>5 DEF bufferVars, ObjectsInv
  <2> QED BY <2>1, <2>2, <2>3, <2>4, <2>5 DEF BuffersNext
<1>3. ObjectsInv => BoundsCover
  BY DEF ObjectsInv, Object, Covers, BoundsCover
<1>4. ObjectsInv => DrawsBounded
  BY AdmittedBounded DEF DrawsBounded
<1> QED BY <1>1, <1>2, <1>3, <1>4, PTL DEF BuffersSpec, BoundsSound

-----------------------------------------------------------------------------
(* The registry.                                                             *)

RegistrySpec == RegistryInit /\ [][RegistryNext]_registryVars

Context_ == [client : GlClients \cup {0}, id : 0..2, drawable : 0..2, native : Nat]
Drawable_ == [client : GlClients \cup {0}, id : 0..2, size : Nat, epoch : Nat, native : Nat]

RegistryTypes ==
    /\ contexts \in [GlSlot -> Context_] /\ drawables \in [GlSlot -> Drawable_]
    /\ next_epoch \in Nat
    /\ world.exported \subseteq GlSlot \X Nat \X Nat
    /\ lookup.key = {} \/ \E key : lookup.key = {key}

(* No two records of a table have one native object or one name.             *)
Distinct(records) == \A i, j \in GlSlot :
    records[i].native # 0 /\ records[j].native # 0 /\ i # j =>
        /\ records[i].native # records[j].native
        /\ ~(records[i].client = records[j].client /\ records[i].id = records[j].id)
Natives(records) == {records[i].native : i \in GlSlot} \ {0}

TablesInv ==
    /\ Distinct(contexts) /\ Distinct(drawables)
    /\ world.contexts = Natives(contexts) /\ world.drawables = Natives(drawables)
    /\ \A i \in GlSlot : drawables[i].native <= next_epoch

BytesInv == /\ Bytes <= ByteLimit
            /\ \A i \in GlSlot : drawables[i].native = 0 => drawables[i].size = 0

(* A drawable lives in the epoch of the latest creation, and what was        *)
(* exported in it under the slot of the drawable is the drawable.            *)
EpochInv ==
    /\ \A i \in GlSlot : drawables[i].native # 0 => drawables[i].epoch = next_epoch
    /\ \A a \in world.exported :
          /\ a[2] <= next_epoch
          /\ a[2] = next_epoch /\ drawables[a[1]].native # 0 => a[3] = drawables[a[1]].native

RegistryInv == RegistryTypes /\ TablesInv /\ BytesInv /\ EpochInv /\ EpochsFresh /\ CacheCurrent

LEMMA RegistryLimits == /\ GlSlots \in Nat \ {0} /\ ByteLimit \in Nat \ {0}
                        /\ Sizes \subseteq Nat \ {0}
BY RegistryAssumption

LEMMA SlotsFinite == /\ IsFiniteSet(GlSlot) /\ Cardinality(GlSlot) = GlSlots
                     /\ GlSlot \subseteq Nat
<1>1. 0 \in Int /\ GlSlots - 1 \in Int /\ ~(0 > GlSlots - 1) BY RegistryLimits
<1>2. IsFiniteSet(0..(GlSlots - 1)) /\ Cardinality(0..(GlSlots - 1)) = GlSlots
  BY <1>1, RegistryLimits, FS_Interval
<1> QED BY <1>2, RegistryLimits DEF GlSlot

LEMMA FirstIn == ASSUME NEW S \in SUBSET GlSlot, S # {} PROVE FirstOf(S) \in S
<1>1. \E i \in S : \A j \in S : i <= j BY SlotsFinite, LeastNat
<1> QED BY <1>1 DEF FirstOf

LEMMA NamedOne ==
    ASSUME NEW records, Distinct(records), NEW c, NEW n
    PROVE  /\ Named(records, c, n) \in SUBSET GlSlot
           /\ \A i, j \in Named(records, c, n) : i = j
           /\ Named(records, c, n) # {} =>
                /\ FirstOf(Named(records, c, n)) \in Named(records, c, n)
                /\ Named(records, c, n) = {FirstOf(Named(records, c, n))}
<1>1. Named(records, c, n) \in SUBSET GlSlot BY DEF Named
<1>2. \A i, j \in Named(records, c, n) : i = j BY DEF Named, Distinct
<1>3. Named(records, c, n) # {} => FirstOf(Named(records, c, n)) \in Named(records, c, n)
  BY <1>1, FirstIn
<1> QED BY <1>1, <1>2, <1>3

(* There is always a native name that no context has.                        *)
LEMMA ContextFresh ==
    ASSUME RegistryTypes, TablesInv
    PROVE  ContextNative \in Nat \ {0} /\ ContextNative \notin world.contexts
<1> DEFINE f == [i \in GlSlot |-> contexts[i].native]
           T == {contexts[i].native : i \in GlSlot}
<1>1. f \in Surjection(GlSlot, T) BY DEF Surjection
<1>2. IsFiniteSet(T) /\ Cardinality(T) <= GlSlots
  <2> HIDE DEF f, T
  <2> QED BY <1>1, SlotsFinite, FS_Surjection
<1>3. 1 \in Int /\ GlSlots + 1 \in Int /\ ~(1 > GlSlots + 1) BY RegistryLimits
<1>4. IsFiniteSet(1..(GlSlots + 1)) /\ Cardinality(1..(GlSlots + 1)) = GlSlots + 1
  BY <1>3, RegistryLimits, FS_Interval
<1>5. ~(1..(GlSlots + 1) \subseteq T)
  <2> HIDE DEF f, T
  <2> SUFFICES ASSUME 1..(GlSlots + 1) \in SUBSET T PROVE FALSE OBVIOUS
  <2>1. Cardinality(1..(GlSlots + 1)) <= Cardinality(T) BY <1>2, FS_Subset
  <2>2. Cardinality(T) \in Nat BY <1>2, FS_CardinalityType
  <2> QED BY <1>2, <1>4, <2>1, <2>2, RegistryLimits
<1>6. \E n \in 1..(GlSlots + 1) : n \notin world.contexts BY <1>5 DEF TablesInv, Natives
<1> QED BY <1>6, RegistryLimits DEF ContextNative

-----------------------------------------------------------------------------
(* What a record more or less does to a table.                               *)

LEMMA Placed ==
    ASSUME NEW records, Distinct(records), NEW slot \in GlSlot, records[slot].native = 0,
           NEW made, made[slot].native \notin Natives(records), made[slot].native # 0,
           Named(records, made[slot].client, made[slot].id) = {},
           \A i \in GlSlot \ {slot} : /\ made[i].native = records[i].native
                                      /\ made[i].client = records[i].client
                                      /\ made[i].id = records[i].id
    PROVE  /\ Distinct(made)
           /\ Natives(made) = Natives(records) \cup {made[slot].native}
<1>1. \A i \in GlSlot : records[i].native # 0 => records[i].native # made[slot].native
  BY DEF Natives
<1>2. \A i \in GlSlot : records[i].native # 0 =>
          ~(records[i].client = made[slot].client /\ records[i].id = made[slot].id)
  BY DEF Named
<1>3. Distinct(made) BY <1>1, <1>2 DEF Distinct
<1>4. Natives(made) = Natives(records) \cup {made[slot].native} BY DEF Natives
<1> QED BY <1>3, <1>4

NativesOf(records, G) == {records[i].native : i \in G}
Without(records, G, none) == [i \in GlSlot |-> IF i \in G THEN none ELSE records[i]]

LEMMA Erased ==
    ASSUME NEW records, Distinct(records), NEW G \in SUBSET GlSlot, NEW made,
           \A i \in G : made[i].native = 0 /\ records[i].native # 0,
           \A i \in GlSlot \ G : /\ made[i].native = records[i].native
                                 /\ made[i].client = records[i].client
                                 /\ made[i].id = records[i].id
    PROVE  /\ Distinct(made)
           /\ Natives(made) = Natives(records) \ NativesOf(records, G)
<1>1. Distinct(made) BY DEF Distinct
<1>2. Natives(made) \subseteq Natives(records) \ NativesOf(records, G)
  BY DEF Natives, NativesOf, Distinct
<1>3. Natives(records) \ NativesOf(records, G) \subseteq Natives(made)
  BY DEF Natives, NativesOf
<1> QED BY <1>1, <1>2, <1>3

SizesOf(d) == MapThenSumSet(LAMBDA i : d[i].size, GlSlot)

LEMMA BytesOf == Bytes = SizesOf(drawables) /\ Bytes' = SizesOf(drawables')
BY DEF Bytes, SizesOf, MapThenSumSet, MapThenFoldSet

LEMMA SizesAre ==
    ASSUME NEW d, \A i \in GlSlot : d[i].size \in Nat
    PROVE  SizesOf(d) = Sum([i \in GlSlot |-> d[i].size], GlSlot)
<1> DEFINE w == [i \in GlSlot |-> d[i].size]
           Runs(f) == f = [s \in SUBSET GlSlot |-> IF s = {} THEN 0
                             ELSE d[Pick(s)].size + f[s \ {Pick(s)}]]
<1>1. \A f : Runs(f) <=> Sums(f, w, GlSlot)
  <2> SUFFICES ASSUME NEW f PROVE Runs(f) <=> Sums(f, w, GlSlot) OBVIOUS
  <2>1. \A s \in SUBSET GlSlot : s # {} => w[Pick(s)] = d[Pick(s)].size BY PickIn
  <2>2. [s \in SUBSET GlSlot |-> IF s = {} THEN 0 ELSE d[Pick(s)].size + f[s \ {Pick(s)}]]
        = [s \in SUBSET GlSlot |-> IF s = {} THEN 0 ELSE w[Pick(s)] + f[s \ {Pick(s)}]]
    <3> HIDE DEF w
    <3> QED BY <2>1
  <2> HIDE DEF w
  <2> QED BY <2>2 DEF Sums
<1>2. PICK g : Sums(g, w, GlSlot) /\ Sum(w, GlSlot) = g[GlSlot]
  <2> HIDE DEF w
  <2> QED BY SlotsFinite, SumBy
<1>3. SizesOf(d) = (CHOOSE f : Runs(f))[GlSlot]
  BY DEF SizesOf, MapThenSumSet, MapThenFoldSet, Pick
<1>4. Sums(CHOOSE f : Runs(f), w, GlSlot)
  <2> HIDE DEF Runs, w
  <2> QED BY <1>1, <1>2
<1>5. \A i \in GlSlot : w[i] \in Nat OBVIOUS
<1> DEFINE h == CHOOSE f : Runs(f)
<1>6. h[GlSlot] = g[GlSlot]
  <2>1. Sums(h, w, GlSlot) /\ IsFiniteSet(GlSlot) BY <1>4, SlotsFinite
  <2> HIDE DEF h, w
  <2> QED BY <2>1, <1>2, <1>5, SumsOnce
<1> QED BY <1>2, <1>3, <1>6

LEMMA BytesKept ==
    ASSUME NEW d, NEW e,
           \A i \in GlSlot : d[i].size \in Nat /\ e[i].size \in Nat /\ e[i].size <= d[i].size
    PROVE  SizesOf(e) <= SizesOf(d) /\ SizesOf(d) \in Nat /\ SizesOf(e) \in Nat
<1> DEFINE w == [i \in GlSlot |-> d[i].size]
           v == [i \in GlSlot |-> e[i].size]
<1>1. \A i \in GlSlot : w[i] \in Nat /\ v[i] \in Nat /\ v[i] <= w[i] OBVIOUS
<1>2. SizesOf(d) = Sum(w, GlSlot) /\ SizesOf(e) = Sum(v, GlSlot) BY SizesAre
<1> HIDE DEF w, v
<1>3. Sum(v, GlSlot) <= Sum(w, GlSlot) BY <1>1, SlotsFinite, SumMonotone
<1>4. Sum(v, GlSlot) \in Nat /\ Sum(w, GlSlot) \in Nat BY <1>1, SlotsFinite, SumNat
<1> QED BY <1>2, <1>3, <1>4

LEMMA BytesGrown ==
    ASSUME NEW d, NEW e, NEW slot \in GlSlot,
           \A i \in GlSlot : d[i].size \in Nat /\ e[i].size \in Nat,
           \A i \in GlSlot \ {slot} : e[i].size = d[i].size
    PROVE  /\ SizesOf(e) = SizesOf(d) - d[slot].size + e[slot].size
           /\ SizesOf(d) \in Nat /\ SizesOf(e) \in Nat
<1> DEFINE w == [i \in GlSlot |-> d[i].size]
           v == [i \in GlSlot |-> e[i].size]
<1>1. /\ \A i \in GlSlot : w[i] \in Nat /\ v[i] \in Nat
      /\ \A i \in GlSlot \ {slot} : v[i] = w[i]
  OBVIOUS
<1>2. SizesOf(d) = Sum(w, GlSlot) /\ SizesOf(e) = Sum(v, GlSlot) BY SizesAre
<1>3. w[slot] = d[slot].size /\ v[slot] = e[slot].size OBVIOUS
<1> HIDE DEF w, v
<1>4. /\ Sum(v, GlSlot) = Sum(w, GlSlot) - w[slot] + v[slot]
      /\ Sum(w, GlSlot) \in Nat /\ Sum(v, GlSlot) \in Nat
  <2>1. IsFiniteSet(GlSlot) BY SlotsFinite
  <2>2. \A i \in GlSlot : w[i] \in Nat /\ v[i] \in Nat BY <1>1
  <2>3. \A i \in GlSlot \ {slot} : v[i] = w[i] BY <1>1
  <2> QED BY ONLY slot \in GlSlot, <2>1, <2>2, <2>3, SumChange
<1> QED BY <1>2, <1>3, <1>4

LEMMA BytesZero ==
    ASSUME NEW d, \A i \in GlSlot : d[i].size = 0
    PROVE  SizesOf(d) = 0
<1> DEFINE w == [i \in GlSlot |-> d[i].size]
           G == {s \in SUBSET GlSlot : Sum(w, s) = 0}
<1>1. \A i \in GlSlot : w[i] = 0 /\ w[i] \in Nat OBVIOUS
<1>2. SizesOf(d) = Sum(w, GlSlot) BY SizesAre
<1>3. ASSUME NEW s \in SUBSET GlSlot, \A x \in s : s \ {x} \in G PROVE s \in G
  <2>1. CASE s = {} BY <2>1, SumNone
  <2>2. CASE s # {}
    <3>1. PICK x : x \in s BY <2>2
    <3>2. IsFiniteSet(s) BY SlotsFinite, FS_Subset
    <3>3. \A y \in s : w[y] \in Nat BY <1>1
    <3>4. Sum(w, s) = w[x] + Sum(w, s \ {x})
      <4> HIDE DEF w
      <4> QED BY <3>1, <3>2, <3>3, SumRemove
    <3>5. Sum(w, s \ {x}) = 0 BY <3>1, <1>3
    <3>6. w[x] = 0 BY <3>1, <1>1
    <3> HIDE DEF w
    <3> QED BY <3>4, <3>5, <3>6
  <2> QED BY <2>1, <2>2
<1>4. SUBSET GlSlot \subseteq G
  <2> HIDE DEF G
  <2> QED BY <1>3, SlotsFinite, SetInduction
<1> QED BY <1>2, <1>4

-----------------------------------------------------------------------------
(* Every step keeps the registry.                                            *)

LEMMA Forgotten ==
    ASSUME lookup' = NoLookup
    PROVE  CacheCurrent' /\ lookup'.key = {}
BY DEF NoLookup, CacheCurrent

LEMMA CreateContextKeeps ==
    ASSUME RegistryInv, CreateContext
    PROVE  RegistryInv'
<1>1. PICK client \in GlClients, id \in GlIds, share \in 0..2 : CreateContext!(client, id, share)
  BY DEF CreateContext
<1> DEFINE slot == FirstOf(Empty(contexts))
           made == [client |-> client, id |-> id, drawable |-> 0, native |-> ContextNative]
<1>2. slot \in GlSlot /\ contexts[slot].native = 0
  <2>1. Empty(contexts) \in SUBSET GlSlot /\ Empty(contexts) # {} BY <1>1 DEF Empty
  <2>2. slot \in Empty(contexts) BY <2>1, FirstIn
  <2> QED BY <2>2 DEF Empty
<1>3. ContextNative \in Nat \ {0} /\ ContextNative \notin world.contexts
  BY ContextFresh DEF RegistryInv
<1>4. /\ contexts' = [contexts EXCEPT ![slot] = made] /\ contexts \in [GlSlot -> Context_]
      /\ world'.contexts = world.contexts \cup {ContextNative}
      /\ world'.drawables = world.drawables /\ world'.exported = world.exported
      /\ UNCHANGED <<drawables, next_epoch>> /\ lookup' = NoLookup
      /\ Named(contexts, client, id) = {}
  BY <1>1 DEF RegistryInv, RegistryTypes, Invalidates
<1>5. made \in Context_ BY <1>3 DEF Context_, GlIds
<1>6. /\ contexts' \in [GlSlot -> Context_] /\ contexts'[slot] = made
      /\ \A i \in GlSlot \ {slot} : contexts'[i] = contexts[i]
  <2> HIDE DEF slot, made
  <2> QED BY <1>2, <1>4, <1>5
<1>7. Distinct(contexts') /\ Natives(contexts') = Natives(contexts) \cup {ContextNative}
  <2>1. /\ contexts'[slot].native = ContextNative
        /\ contexts'[slot].client = client /\ contexts'[slot].id = id
    BY <1>6
  <2>2. Distinct(contexts) /\ world.contexts = Natives(contexts) BY DEF RegistryInv, TablesInv
  <2>3. \A i \in GlSlot \ {slot} : /\ contexts'[i].native = contexts[i].native
                                   /\ contexts'[i].client = contexts[i].client
                                   /\ contexts'[i].id = contexts[i].id
    BY <1>6
  <2>4. /\ contexts'[slot].native \notin Natives(contexts) /\ contexts'[slot].native # 0
        /\ Named(contexts, contexts'[slot].client, contexts'[slot].id) = {}
    BY <1>3, <1>4, <2>1, <2>2
  <2> HIDE DEF slot, made
  <2> QED BY <1>2, <2>1, <2>2, <2>3, <2>4, Placed
<1>8. TablesInv' BY <1>4, <1>7 DEF RegistryInv, TablesInv
<1>9. RegistryTypes' BY <1>4, <1>6, Forgotten DEF RegistryInv, RegistryTypes
<1>10. BytesInv'
  <2>1. Bytes' = Bytes BY <1>4, BytesOf
  <2> QED BY <2>1, <1>4 DEF RegistryInv, BytesInv
<1>11. EpochInv' /\ EpochsFresh' BY <1>4 DEF RegistryInv, EpochInv, EpochsFresh
<1> QED BY <1>4, <1>8, <1>9, <1>10, <1>11, Forgotten DEF RegistryInv

LEMMA DrawableMoved ==
    ASSUME NEW d \in Drawable_, NEW e \in Nat
    PROVE  [client |-> d.client, id |-> d.id, size |-> d.size, epoch |-> e, native |-> d.native]
                \in Drawable_
BY DEF Drawable_

LEMMA CreateDrawableKeeps ==
    ASSUME RegistryInv, CreateDrawable
    PROVE  RegistryInv'
<1>1. PICK client \in GlClients, id \in GlIds, size \in Sizes : CreateDrawable!(client, id, size)
  BY DEF CreateDrawable
<1> DEFINE slot == FirstOf(Empty(drawables))
           new == [client |-> client, id |-> id, size |-> size, epoch |-> 0,
                   native |-> DrawableNative]
           made == [drawables EXCEPT ![slot] = new]
<1>2. slot \in GlSlot /\ drawables[slot].native = 0
  <2>1. Empty(drawables) \in SUBSET GlSlot /\ Empty(drawables) # {} BY <1>1 DEF Empty
  <2>2. slot \in Empty(drawables) BY <2>1, FirstIn
  <2> QED BY <2>2 DEF Empty
<1>3. /\ next_epoch \in Nat /\ DrawableNative = next_epoch + 1
      /\ DrawableNative \in Nat \ {0} /\ size \in Nat
  BY RegistryLimits DEF RegistryInv, RegistryTypes, DrawableNative
<1>4. /\ drawables' = EpochsMoved(made) /\ drawables \in [GlSlot -> Drawable_]
      /\ next_epoch' = next_epoch + 1
      /\ world'.drawables = world.drawables \cup {DrawableNative}
      /\ world'.contexts = world.contexts /\ world'.exported = world.exported
      /\ UNCHANGED contexts /\ lookup' = NoLookup
      /\ Named(drawables, client, id) = {} /\ FitsBytes(size)
  BY <1>1 DEF RegistryInv, RegistryTypes, Invalidates
<1>5. new \in Drawable_ BY <1>3 DEF Drawable_, GlIds
<1>6. /\ made \in [GlSlot -> Drawable_] /\ made[slot] = new
      /\ \A i \in GlSlot \ {slot} : made[i] = drawables[i]
  <2> HIDE DEF slot, new
  <2> QED BY <1>2, <1>4, <1>5
<1>7. /\ drawables' \in [GlSlot -> Drawable_]
      /\ \A i \in GlSlot : /\ drawables'[i].client = made[i].client
                           /\ drawables'[i].id = made[i].id
                           /\ drawables'[i].size = made[i].size
                           /\ drawables'[i].native = made[i].native
                           /\ drawables'[i].epoch = next_epoch + 1
  <2>1. ASSUME NEW i \in GlSlot
        PROVE  /\ [made[i] EXCEPT !.epoch = next_epoch + 1]
                    = [client |-> made[i].client, id |-> made[i].id, size |-> made[i].size,
                       epoch |-> next_epoch + 1, native |-> made[i].native]
               /\ made[i] \in Drawable_
    <3> HIDE DEF made
    <3> QED BY <1>6 DEF Drawable_
  <2>2. \A i \in GlSlot : drawables'[i] = [client |-> made[i].client, id |-> made[i].id,
                 size |-> made[i].size, epoch |-> next_epoch + 1, native |-> made[i].native]
    <3> HIDE DEF made
    <3> QED BY <1>4, <2>1 DEF EpochsMoved
  <2>3. drawables' = [i \in GlSlot |-> drawables'[i]]
    <3> HIDE DEF made
    <3> QED BY <1>4 DEF EpochsMoved
  <2>4. \A i \in GlSlot : drawables'[i] \in Drawable_
    <3> HIDE DEF made
    <3>1. next_epoch + 1 \in Nat BY <1>3
    <3>2. \A i \in GlSlot : made[i] \in Drawable_ BY <2>1
    <3> QED BY <3>1, <3>2, <2>2, DrawableMoved
  <2>5. drawables' \in [GlSlot -> Drawable_] BY <2>3, <2>4
  <2> HIDE DEF made
  <2> QED BY <2>2, <2>5
<1>8. Distinct(drawables') /\ Natives(drawables') = Natives(drawables) \cup {DrawableNative}
  <2>1. /\ drawables'[slot].native = DrawableNative
        /\ drawables'[slot].client = client /\ drawables'[slot].id = id
    BY <1>2, <1>6, <1>7
  <2>2. /\ Distinct(drawables) /\ \A i \in GlSlot : drawables[i].native <= next_epoch
    BY DEF RegistryInv, TablesInv
  <2>3. \A i \in GlSlot : drawables[i].native \in Nat BY <1>4 DEF Drawable_
  <2>4. DrawableNative \notin Natives(drawables) BY <1>3, <2>2, <2>3 DEF Natives
  <2>5. \A i \in GlSlot \ {slot} : /\ drawables'[i].native = drawables[i].native
                                   /\ drawables'[i].client = drawables[i].client
                                   /\ drawables'[i].id = drawables[i].id
    BY <1>6, <1>7
  <2> HIDE DEF slot, made, new
  <2> QED BY <1>2, <1>3, <1>4, <2>1, <2>2, <2>4, <2>5, Placed
<1>9. TablesInv'
  <2>1. ASSUME NEW i \in GlSlot PROVE drawables'[i].native <= next_epoch + 1
    <3>1. drawables'[i].native = made[i].native BY <1>7
    <3>2. made[i].native = DrawableNative \/ made[i].native = drawables[i].native BY <1>6
    <3>3. drawables[i].native <= next_epoch /\ drawables[i].native \in Nat
      BY <1>4 DEF RegistryInv, TablesInv, Drawable_
    <3> HIDE DEF made
    <3> QED BY <3>1, <3>2, <3>3, <1>3
  <2> QED BY <1>4, <1>8, <2>1 DEF RegistryInv, TablesInv
<1>10. RegistryTypes'
  BY <1>3, <1>4, <1>7, Forgotten DEF RegistryInv, RegistryTypes
<1>11. BytesInv'
  <2>1. \A i \in GlSlot : drawables[i].size \in Nat /\ drawables'[i].size \in Nat
    BY <1>4, <1>7 DEF Drawable_
  <2>2. \A i \in GlSlot \ {slot} : drawables'[i].size = drawables[i].size BY <1>6, <1>7
  <2>3. drawables[slot].size = 0 /\ drawables'[slot].size = size
    BY <1>2, <1>6, <1>7 DEF RegistryInv, BytesInv
  <2>4. SizesOf(drawables') = SizesOf(drawables) + size /\ SizesOf(drawables) \in Nat
    <3> HIDE DEF slot, made, new
    <3>1. /\ SizesOf(drawables') = SizesOf(drawables) - drawables[slot].size + drawables'[slot].size
          /\ SizesOf(drawables) \in Nat
      BY <1>2, <2>1, <2>2, BytesGrown
    <3> QED BY <3>1, <2>3, <1>3
  <2>5. Bytes' <= ByteLimit BY <2>4, <1>4, BytesOf DEF FitsBytes
  <2>6. ASSUME NEW i \in GlSlot, drawables'[i].native = 0 PROVE drawables'[i].size = 0
    <3>1. i # slot /\ drawables[i].native = 0 BY <2>6, <1>2, <1>3, <1>6, <1>7
    <3> QED BY <3>1, <2>2 DEF RegistryInv, BytesInv
  <2> QED BY <2>5, <2>6 DEF BytesInv
<1>12. EpochInv' /\ EpochsFresh'
  <2>1. \A a \in world.exported : a[2] <= next_epoch /\ a[2] \in Nat
    BY DEF RegistryInv, EpochInv, RegistryTypes
  <2>2. \A a \in world.exported : a[2] <= next_epoch + 1 /\ a[2] # next_epoch + 1
    BY <2>1, <1>3
  <2>3. /\ next_epoch' = next_epoch + 1 /\ world'.exported = world.exported
        /\ \A i \in GlSlot : drawables'[i].epoch = next_epoch + 1
    BY <1>4, <1>7
  <2>4. EpochInv' BY ONLY <2>2, <2>3 DEF EpochInv
  <2>5. EpochsFresh' BY ONLY <2>3, RegistryInv DEF RegistryInv, EpochsFresh
  <2> QED BY <2>4, <2>5
<1> QED BY <1>4, <1>9, <1>10, <1>11, <1>12, Forgotten DEF RegistryInv

(* What is destroyed is a set of records of each table.                      *)
LEMMA DestroyKeeps ==
    ASSUME RegistryInv, NEW G \in SUBSET GlSlot, NEW H \in SUBSET GlSlot,
           \A i \in G : contexts[i].native # 0, \A i \in H : drawables[i].native # 0,
           contexts' = Without(contexts, G, NoContext),
           drawables' = Without(drawables, H, NoDrawable),
           world'.contexts = world.contexts \ NativesOf(contexts, G),
           world'.drawables = world.drawables \ NativesOf(drawables, H),
           world'.exported = world.exported, next_epoch' = next_epoch, lookup' = NoLookup
    PROVE  RegistryInv'
<1>1. NoContext \in Context_ /\ NoDrawable \in Drawable_
  BY DEF NoContext, NoDrawable, Context_, Drawable_
<1>2. contexts \in [GlSlot -> Context_] /\ drawables \in [GlSlot -> Drawable_] /\ next_epoch \in Nat
  BY DEF RegistryInv, RegistryTypes
<1>3. contexts' \in [GlSlot -> Context_] /\ drawables' \in [GlSlot -> Drawable_]
  BY <1>1, <1>2 DEF Without
<1>4. RegistryTypes' BY <1>3, Forgotten DEF RegistryInv, RegistryTypes
<1>5. /\ \A i \in G : contexts'[i] = NoContext
      /\ \A i \in GlSlot \ G : contexts'[i] = contexts[i]
      /\ \A i \in H : drawables'[i] = NoDrawable
      /\ \A i \in GlSlot \ H : drawables'[i] = drawables[i]
  BY DEF Without
<1>6. NoContext.native = 0 /\ NoDrawable.native = 0 /\ NoDrawable.size = 0
  BY DEF NoContext, NoDrawable
<1>7. Distinct(contexts) /\ Distinct(drawables) BY DEF RegistryInv, TablesInv
<1>8. Distinct(contexts') /\ Natives(contexts') = Natives(contexts) \ NativesOf(contexts, G)
  <2>1. /\ \A i \in G : contexts'[i].native = 0 /\ contexts[i].native # 0
        /\ \A i \in GlSlot \ G : /\ contexts'[i].native = contexts[i].native
                                 /\ contexts'[i].client = contexts[i].client
                                 /\ contexts'[i].id = contexts[i].id
    BY <1>5, <1>6
  <2> QED BY ONLY G \in SUBSET GlSlot, <2>1, <1>7, Erased
<1>9. /\ Distinct(drawables')
      /\ Natives(drawables') = Natives(drawables) \ NativesOf(drawables, H)
  <2>1. /\ \A i \in H : drawables'[i].native = 0 /\ drawables[i].native # 0
        /\ \A i \in GlSlot \ H : /\ drawables'[i].native = drawables[i].native
                                 /\ drawables'[i].client = drawables[i].client
                                 /\ drawables'[i].id = drawables[i].id
    BY <1>5, <1>6
  <2> QED BY ONLY H \in SUBSET GlSlot, <2>1, <1>7, Erased
<1>10. TablesInv'
  <2>1. \A i \in GlSlot : drawables[i].native <= next_epoch BY DEF RegistryInv, TablesInv
  <2>2. \A i \in GlSlot : drawables'[i].native <= next_epoch BY <2>1, <1>2, <1>5, <1>6
  <2> QED BY <1>8, <1>9, <2>2 DEF RegistryInv, TablesInv
<1>11. BytesInv'
  <2>1. \A i \in GlSlot : drawables[i].size \in Nat BY <1>2 DEF Drawable_
  <2>2. \A i \in GlSlot : /\ drawables[i].size \in Nat /\ drawables'[i].size \in Nat
                          /\ drawables'[i].size <= drawables[i].size
    BY <2>1, <1>5, <1>6
  <2>3. SizesOf(drawables') <= SizesOf(drawables) /\ SizesOf(drawables) \in Nat
        /\ SizesOf(drawables') \in Nat
    BY ONLY <2>2, BytesKept
  <2>4. SizesOf(drawables) <= ByteLimit BY BytesOf DEF RegistryInv, BytesInv
  <2>5. Bytes' <= ByteLimit BY <2>3, <2>4, BytesOf, RegistryLimits
  <2>6. \A i \in GlSlot : drawables'[i].native = 0 => drawables'[i].size = 0
    BY <1>5, <1>6 DEF RegistryInv, BytesInv
  <2> QED BY <2>5, <2>6 DEF BytesInv
<1>12. EpochInv'
  <2>1. \A a \in world.exported : a[1] \in GlSlot BY DEF RegistryInv, RegistryTypes
  <2> QED BY <2>1, <1>5, <1>6 DEF RegistryInv, EpochInv
<1>13. EpochsFresh' BY DEF RegistryInv, EpochsFresh
<1> QED BY <1>4, <1>10, <1>11, <1>12, <1>13, Forgotten DEF RegistryInv

LEMMA DestroyContextKeeps ==
    ASSUME RegistryInv, DestroyContext
    PROVE  RegistryInv'
<1>1. PICK client \in GlClients, id \in GlIds : DestroyContext!(client, id)
  BY DEF DestroyContext
<1> DEFINE slot == FirstOf(Named(contexts, client, id))
           G == {slot}
           H == {j \in GlSlot : FALSE}
<1>2. slot \in Named(contexts, client, id)
  BY <1>1, NamedOne DEF RegistryInv, TablesInv
<1>3. slot \in GlSlot /\ contexts[slot].native # 0 BY <1>2 DEF Named
<1>4. contexts \in [GlSlot -> Context_] /\ drawables \in [GlSlot -> Drawable_]
  BY DEF RegistryInv, RegistryTypes
<1>5. /\ contexts' = [contexts EXCEPT ![slot] = NoContext]
      /\ world'.contexts = world.contexts \ {contexts[slot].native}
      /\ world'.drawables = world.drawables /\ world'.exported = world.exported
      /\ UNCHANGED <<drawables, next_epoch>> /\ lookup' = NoLookup
  BY <1>1 DEF Invalidates
<1> HIDE DEF slot
<1>6. contexts' = Without(contexts, G, NoContext) BY <1>4, <1>5 DEF Without
<1>7. drawables' = Without(drawables, H, NoDrawable) BY <1>4, <1>5 DEF Without
<1>8. NativesOf(contexts, G) = {contexts[slot].native}
      /\ NativesOf(drawables, H) = {}
  BY DEF NativesOf
<1>9. /\ world'.contexts = world.contexts \ NativesOf(contexts, G)
      /\ world'.drawables = world.drawables \ NativesOf(drawables, H)
  BY <1>5, <1>8
<1>10. /\ G \in SUBSET GlSlot /\ H \in SUBSET GlSlot
       /\ \A i \in G : contexts[i].native # 0
       /\ \A j \in H : drawables[j].native # 0
  BY <1>3
<1> HIDE DEF G, H
<1> QED BY <1>5, <1>6, <1>7, <1>9, <1>10, DestroyKeeps

LEMMA DestroyDrawableKeeps ==
    ASSUME RegistryInv, DestroyDrawable
    PROVE  RegistryInv'
<1>1. PICK client \in GlClients, id \in GlIds : DestroyDrawable!(client, id)
  BY DEF DestroyDrawable
<1> DEFINE slot == FirstOf(Named(drawables, client, id))
           G == {j \in GlSlot : FALSE}
           H == {slot}
<1>2. slot \in Named(drawables, client, id)
  BY <1>1, NamedOne DEF RegistryInv, TablesInv
<1>3. slot \in GlSlot /\ drawables[slot].native # 0 BY <1>2 DEF Named
<1>4. contexts \in [GlSlot -> Context_] /\ drawables \in [GlSlot -> Drawable_]
  BY DEF RegistryInv, RegistryTypes
<1>5. /\ drawables' = [drawables EXCEPT ![slot] = NoDrawable]
      /\ world'.drawables = world.drawables \ {drawables[slot].native}
      /\ world'.contexts = world.contexts /\ world'.exported = world.exported
      /\ UNCHANGED <<contexts, next_epoch>> /\ lookup' = NoLookup
  BY <1>1 DEF Invalidates
<1> HIDE DEF slot
<1>6. contexts' = Without(contexts, G, NoContext) BY <1>4, <1>5 DEF Without
<1>7. drawables' = Without(drawables, H, NoDrawable) BY <1>4, <1>5 DEF Without
<1>8. NativesOf(contexts, G) = {}
      /\ NativesOf(drawables, H) = {drawables[slot].native}
  BY DEF NativesOf
<1>9. /\ world'.contexts = world.contexts \ NativesOf(contexts, G)
      /\ world'.drawables = world.drawables \ NativesOf(drawables, H)
  BY <1>5, <1>8
<1>10. /\ G \in SUBSET GlSlot /\ H \in SUBSET GlSlot
       /\ \A i \in G : contexts[i].native # 0
       /\ \A j \in H : drawables[j].native # 0
  BY <1>3
<1> HIDE DEF G, H
<1> QED BY <1>5, <1>6, <1>7, <1>9, <1>10, DestroyKeeps

LEMMA CloseKeeps ==
    ASSUME RegistryInv, Close
    PROVE  RegistryInv'
<1>1. PICK client \in GlClients \union {0} : Close!(client) BY DEF Close
<1> DEFINE hers(records) == {i \in GlSlot : /\ records[i].native # 0
                                            /\ client \in {0, records[i].client}}
<1>2. /\ contexts' = Without(contexts, hers(contexts), NoContext)
      /\ drawables' = Without(drawables, hers(drawables), NoDrawable)
      /\ world'.contexts = world.contexts \ NativesOf(contexts, hers(contexts))
      /\ world'.drawables = world.drawables \ NativesOf(drawables, hers(drawables))
      /\ world'.exported = world.exported
      /\ next_epoch' = next_epoch /\ lookup' = NoLookup
  BY <1>1 DEF Invalidates, Without, NativesOf
<1>3. /\ hers(contexts) \in SUBSET GlSlot /\ hers(drawables) \in SUBSET GlSlot
      /\ \A i \in hers(contexts) : contexts[i].native # 0
      /\ \A i \in hers(drawables) : drawables[i].native # 0
  OBVIOUS
<1> HIDE DEF hers
<1> QED BY <1>2, <1>3, DestroyKeeps

(* Steps that leave the tables alone.                                        *)
LEMMA TablesFrame ==
    ASSUME RegistryInv, UNCHANGED <<contexts, drawables, next_epoch, world>>
    PROVE  TablesInv' /\ BytesInv' /\ EpochInv' /\ EpochsFresh'
<1>1. Bytes' = Bytes BY BytesOf
<1> QED BY <1>1 DEF RegistryInv, TablesInv, BytesInv, EpochInv, EpochsFresh

LEMMA IdleKeeps ==
    ASSUME RegistryInv, UNCHANGED <<contexts, drawables, next_epoch, world>>,
           lookup' \in {lookup, NoLookup}
    PROVE  RegistryInv'
<1>1. RegistryTypes' BY Forgotten DEF RegistryInv, RegistryTypes
<1>2. CacheCurrent'
  <2>1. CASE lookup' = NoLookup BY <2>1, Forgotten
  <2>2. CASE lookup' = lookup
    BY <2>2 DEF RegistryInv, CacheCurrent, Named, Associated, Asks
  <2> QED BY <2>1, <2>2
<1> QED BY <1>1, <1>2, TablesFrame DEF RegistryInv

LEMMA MakeCurrentKeeps ==
    ASSUME RegistryInv, MakeCurrent
    PROVE  RegistryInv'
<1>1. PICK client \in GlClients, id \in GlIds, drawable \in GlIds :
        MakeCurrent!(client, id, drawable)
  BY DEF MakeCurrent
<1> DEFINE slot == FirstOf(Named(contexts, client, id))
<1>2. slot \in GlSlot
  <2>1. slot \in Named(contexts, client, id) BY <1>1, NamedOne DEF RegistryInv, TablesInv
  <2> QED BY <2>1 DEF Named
<1>3. /\ contexts \in [GlSlot -> Context_]
      /\ contexts' = [contexts EXCEPT ![slot].drawable = drawable]
      /\ UNCHANGED <<drawables, next_epoch, world>> /\ lookup' = NoLookup
  BY <1>1 DEF RegistryInv, RegistryTypes, Invalidates
<1>4. drawable \in 0..2 BY DEF GlIds
<1> HIDE DEF slot
<1>5. /\ contexts' \in [GlSlot -> Context_]
      /\ \A i \in GlSlot : /\ contexts'[i].native = contexts[i].native
                           /\ contexts'[i].client = contexts[i].client
                           /\ contexts'[i].id = contexts[i].id
  BY <1>2, <1>3, <1>4 DEF Context_
<1>6. RegistryTypes' BY <1>3, <1>5, Forgotten DEF RegistryInv, RegistryTypes
<1>7. Distinct(contexts') /\ Natives(contexts') = Natives(contexts)
  BY <1>5 DEF RegistryInv, TablesInv, Distinct, Natives
<1>8. TablesInv' BY <1>3, <1>7 DEF RegistryInv, TablesInv
<1>9. BytesInv'
  <2>1. Bytes' = Bytes BY <1>3, BytesOf
  <2> QED BY <2>1, <1>3 DEF RegistryInv, BytesInv
<1>10. EpochInv' /\ EpochsFresh' BY <1>3 DEF RegistryInv, EpochInv, EpochsFresh
<1> QED BY <1>3, <1>6, <1>8, <1>9, <1>10, Forgotten DEF RegistryInv

LEMMA GlCommandKeeps ==
    ASSUME RegistryInv, GlCommand
    PROVE  RegistryInv'
<1>1. PICK client \in GlClients, id \in GlIds, asked \in 0..2 : GlCommand!(client, id, asked)
  BY DEF GlCommand
<1> DEFINE key == <<client, id, asked>>
           cached == key \in lookup.key
           ci == IF cached THEN lookup.ci ELSE FirstOf(Named(contexts, client, id))
           di == IF cached THEN lookup.di ELSE FirstOf(Associated(client, ci))
           found == cached \/ (Named(contexts, client, id) # {} /\ Associated(client, ci) # {})
           runs == found /\ Asks(asked, di)
<1>2. /\ lookup' = IF runs THEN [key |-> {key}, ci |-> ci, di |-> di]
                   ELSE IF cached THEN lookup ELSE NoLookup
      /\ UNCHANGED <<contexts, drawables, next_epoch, world>>
  BY <1>1
<1>3. CASE ~runs
  <2>1. lookup' \in {lookup, NoLookup} BY <1>2, <1>3
  <2> QED BY <1>2, <2>1, IdleKeeps
<1>4. CASE runs
  <2>1. lookup' = [key |-> {key}, ci |-> ci, di |-> di] BY <1>2, <1>4
  <2>2. Distinct(contexts) /\ Distinct(drawables) /\ CacheCurrent
    BY DEF RegistryInv, TablesInv
  <2>3. /\ Named(contexts, client, id) = {ci}
        /\ Associated(client, ci) = {di}
        /\ Asks(asked, di)
    <3>1. CASE cached
      <4>1. key[1] = client /\ key[2] = id /\ key[3] = asked OBVIOUS
      <4>2. /\ Named(contexts, key[1], key[2]) = {lookup.ci}
            /\ Associated(key[1], lookup.ci) = {lookup.di}
            /\ Asks(key[3], lookup.di)
        BY <2>2, <3>1 DEF CacheCurrent
      <4> QED BY <3>1, <4>1, <4>2
    <3>2. CASE ~cached
      <4>1. Named(contexts, client, id) # {} /\ Associated(client, ci) # {} /\ Asks(asked, di)
        BY <1>4, <3>2
      <4>2. Named(contexts, client, id) = {ci} BY <2>2, <3>2, <4>1, NamedOne
      <4>3. Associated(client, ci) = {FirstOf(Associated(client, ci))}
        BY <2>2, <4>1, NamedOne DEF Associated
      <4>4. Associated(client, ci) = {di} BY <3>2, <4>3
      <4> QED BY <4>1, <4>2, <4>4
    <3> QED BY <3>1, <3>2
  <2>4. CacheCurrent'
    <3>1. /\ lookup'.key = {key} /\ lookup'.ci = ci /\ lookup'.di = di
          /\ key[1] = client /\ key[2] = id /\ key[3] = asked
      BY <2>1
    <3>2. /\ Named(contexts', client, id) = {ci}
          /\ Named(drawables', client, contexts'[ci].drawable) = {di}
          /\ asked \in {0, drawables'[di].id}
      BY <1>2, <2>3 DEF Associated, Asks
    <3> HIDE DEF key, ci, di
    <3> QED BY <3>1, <3>2 DEF CacheCurrent, Associated, Asks
  <2>5. lookup'.key = {key} BY <2>1
  <2>6. RegistryTypes' BY <1>2, <2>5 DEF RegistryInv, RegistryTypes
  <2> QED BY <1>2, <2>4, <2>6, TablesFrame DEF RegistryInv
<1> QED BY <1>3, <1>4

LEMMA PresentKeeps ==
    ASSUME RegistryInv, PresentRecord
    PROVE  RegistryInv'
<1>1. PICK client \in GlClients, id \in GlIds, asked \in 0..2 : PresentRecord!(client, id, asked)
  BY DEF PresentRecord
<1> DEFINE ci == FirstOf(Named(contexts, client, id))
           di == FirstOf(Associated(client, ci))
           new == <<di, drawables[di].epoch, drawables[di].native>>
<1>2. di \in Associated(client, ci) BY <1>1, NamedOne DEF RegistryInv, TablesInv, Associated
<1>3. di \in GlSlot /\ drawables[di].native # 0 BY <1>2 DEF Associated, Named
<1>4. /\ world'.exported = world.exported \cup {new}
      /\ world'.contexts = world.contexts /\ world'.drawables = world.drawables
      /\ UNCHANGED <<contexts, drawables, next_epoch>> /\ lookup' = NoLookup
  BY <1>1 DEF Invalidates
<1>5. drawables[di].epoch = next_epoch /\ next_epoch \in Nat /\ drawables[di].native \in Nat
  BY <1>3 DEF RegistryInv, EpochInv, RegistryTypes, Drawable_
<1>6. new[1] = di /\ new[2] = next_epoch /\ new[3] = drawables[di].native
      /\ new \in GlSlot \X Nat \X Nat
  BY <1>3, <1>5
<1> HIDE DEF new, di
<1>7. RegistryTypes' BY <1>4, <1>6, Forgotten DEF RegistryInv, RegistryTypes
<1>8. TablesInv' BY <1>4 DEF RegistryInv, TablesInv
<1>9. BytesInv'
  <2>1. Bytes' = Bytes BY <1>4, BytesOf
  <2> QED BY <2>1, <1>4 DEF RegistryInv, BytesInv
<1>10. EpochInv' BY <1>3, <1>4, <1>5, <1>6 DEF RegistryInv, EpochInv
<1>11. EpochsFresh'
  <2>1. \A a \in world.exported : a[1] = new[1] /\ a[2] = new[2] => a[3] = new[3]
    BY <1>3, <1>6 DEF RegistryInv, EpochInv
  <2> QED BY <1>4, <2>1 DEF RegistryInv, EpochsFresh
<1> QED BY <1>4, <1>7, <1>8, <1>9, <1>10, <1>11, Forgotten DEF RegistryInv

LEMMA RegistryStarts == RegistryInit => RegistryInv
<1> SUFFICES ASSUME RegistryInit PROVE RegistryInv OBVIOUS
<1>1. /\ NoContext \in Context_ /\ NoDrawable \in Drawable_
      /\ NoContext.native = 0 /\ NoDrawable.native = 0 /\ NoDrawable.size = 0
      /\ NoLookup.key = {}
  BY DEF NoContext, NoDrawable, Context_, Drawable_, NoLookup
<1>2. /\ contexts = [i \in GlSlot |-> NoContext] /\ drawables = [i \in GlSlot |-> NoDrawable]
      /\ next_epoch = 0 /\ lookup = NoLookup
      /\ world.contexts = {} /\ world.drawables = {} /\ world.exported = {}
  BY DEF RegistryInit
<1>3. RegistryTypes BY <1>1, <1>2 DEF RegistryTypes
<1>4. \A i \in GlSlot : contexts[i].native = 0 /\ drawables[i].native = 0 /\ drawables[i].size = 0
  BY <1>1, <1>2
<1>5. TablesInv BY <1>2, <1>4 DEF TablesInv, Distinct, Natives
<1>6. BytesInv
  <2>1. Bytes = 0 BY <1>4, BytesOf, BytesZero
  <2> QED BY <1>4, <2>1, RegistryLimits DEF BytesInv
<1>7. EpochInv /\ EpochsFresh BY <1>2, <1>4 DEF EpochInv, EpochsFresh
<1>8. CacheCurrent BY <1>1, <1>2 DEF CacheCurrent
<1> QED BY <1>3, <1>5, <1>6, <1>7, <1>8 DEF RegistryInv

LEMMA RegistryKept ==
    RegistryInv /\ [RegistryNext]_registryVars => RegistryInv'
<1> SUFFICES ASSUME RegistryInv, [RegistryNext]_registryVars PROVE RegistryInv' OBVIOUS
<1>1. CASE Refused
  <2>1. UNCHANGED <<contexts, drawables, next_epoch, world>> /\ lookup' \in {lookup, NoLookup}
    BY <1>1 DEF Refused, Invalidates
  <2> QED BY <2>1, IdleKeeps
<1>2. CASE NextBatch
  <2>1. UNCHANGED <<contexts, drawables, next_epoch, world>> /\ lookup' \in {lookup, NoLookup}
    BY <1>2 DEF NextBatch
  <2> QED BY <2>1, IdleKeeps
<1>3. CASE UNCHANGED registryVars
  <2>1. UNCHANGED <<contexts, drawables, next_epoch, world>> /\ lookup' \in {lookup, NoLookup}
    BY <1>3 DEF registryVars
  <2> QED BY <2>1, IdleKeeps
<1>4. CASE CreateContext BY <1>4, CreateContextKeeps
<1>5. CASE CreateDrawable BY <1>5, CreateDrawableKeeps
<1>6. CASE DestroyContext BY <1>6, DestroyContextKeeps
<1>7. CASE DestroyDrawable BY <1>7, DestroyDrawableKeeps
<1>8. CASE Close BY <1>8, CloseKeeps
<1>9. CASE MakeCurrent BY <1>9, MakeCurrentKeeps
<1>10. CASE GlCommand BY <1>10, GlCommandKeeps
<1>11. CASE PresentRecord BY <1>11, PresentKeeps
<1> QED
  BY <1>1, <1>2, <1>3, <1>4, <1>5, <1>6, <1>7, <1>8, <1>9, <1>10, <1>11 DEF RegistryNext

(* The registry by itself.                                                   *)
THEOREM RegistryHolds == RegistrySpec => []RegistrySound
<1>1. ASSUME NEW records, Distinct(records), NEW c, NEW n
      PROVE  Cardinality(Named(records, c, n)) <= 1
  <2>1. CASE Named(records, c, n) = {} BY <2>1, FS_EmptySet
  <2>2. CASE Named(records, c, n) # {}
    <3>1. \E x : Named(records, c, n) = {x} BY <1>1, <2>2, NamedOne
    <3> QED BY <3>1, FS_Singleton
  <2> QED BY <2>1, <2>2
<1>2. RegistryInv => RegistrySound
  BY <1>1 DEF RegistryInv, TablesInv, BytesInv, RegistrySound, RegistryOwns, Natives
<1> QED BY <1>2, RegistryStarts, RegistryKept, PTL DEF RegistrySpec

-----------------------------------------------------------------------------
(* The name tables.                                                          *)

TableSpec == TableInit /\ [][TableNext]_tableVars

LEMMA TableLimits ==
    /\ TableNames \in Nat \ {0} /\ TableLimit \in Nat \ {0}
    /\ TableSlots = 2 * TableLimit /\ TableSlots \in Nat \ {0} /\ TableSlots > 1
    /\ TableLimit < TableSlots /\ TableSlots - 1 \in Nat
    /\ Homes \subseteq TableSlot /\ TableSlot = 0..(TableSlots - 1)
BY TableAssumption DEF TableSlot

Named_ == 1..TableNames
Tables == [TableSlot -> 0..TableNames]
HomeType == home \in [Named_ -> TableSlot]

(* Slots around the table.                                                   *)
LEMMA ModSmall ==
    ASSUME NEW n \in Nat \ {0}, NEW x \in Nat, x < n
    PROVE  x % n = x
OBVIOUS

LEMMA ModOnce ==
    ASSUME NEW n \in Nat \ {0}, NEW x \in Nat, n <= x, x < n + n
    PROVE  x % n = x - n
OBVIOUS

LEMMA ModBack ==
    ASSUME NEW n \in Nat \ {0}, NEW x \in Int, x < 0, -n <= x
    PROVE  x % n = x + n
OBVIOUS

(* The slot k steps on from a slot, and the way from one slot to another.    *)
On(s, k) == (s + k) % TableSlots

LEMMA OnIs ==
    ASSUME NEW s \in TableSlot, NEW k \in TableSlot
    PROVE  /\ On(s, k) = IF s + k < TableSlots THEN s + k ELSE s + k - TableSlots
           /\ On(s, k) \in TableSlot
<1>1. s \in 0..(TableSlots - 1) /\ k \in 0..(TableSlots - 1) /\ TableSlots \in Nat \ {0}
  BY TableLimits
<1>2. s + k \in Int /\ 0 <= s + k /\ s + k < TableSlots + TableSlots BY <1>1
<1>3. On(s, k) = IF s + k < TableSlots THEN s + k ELSE s + k - TableSlots
  <2> DEFINE x == s + k
  <2>0. x \in Nat /\ TableSlots \in Nat \ {0} /\ x < TableSlots + TableSlots BY <1>1
  <2>1. CASE s + k < TableSlots
    <3>1. x < TableSlots BY <2>1
    <3> HIDE DEF x
    <3>2. x % TableSlots = x BY <2>0, <3>1, ModSmall
    <3> QED BY <2>1, <3>2 DEF On, x
  <2>2. CASE ~(s + k < TableSlots)
    <3>1. TableSlots <= x BY <2>0, <2>2
    <3> HIDE DEF x
    <3>2. x % TableSlots = x - TableSlots BY <2>0, <3>1, ModOnce
    <3>3. On(s, k) = x % TableSlots BY DEF On, x
    <3>4. x = s + k BY DEF x
    <3>5. On(s, k) = s + k - TableSlots BY <1>1, <3>2, <3>3, <3>4
    <3> QED BY <2>2, <3>5
  <2> QED BY <2>1, <2>2
<1> QED BY <1>1, <1>3, TableLimits

LEMMA DistanceIs ==
    ASSUME NEW s \in TableSlot, NEW u \in TableSlot
    PROVE  /\ Distance(s, u) = IF s <= u THEN u - s ELSE u - s + TableSlots
           /\ Distance(s, u) \in TableSlot
<1>1. s \in 0..(TableSlots - 1) /\ u \in 0..(TableSlots - 1) /\ TableSlots \in Nat \ {0}
  BY TableLimits
<1>2. u - s \in Int /\ -TableSlots <= u - s /\ u - s < TableSlots BY <1>1
<1>3. Distance(s, u) = IF s <= u THEN u - s ELSE u - s + TableSlots
  <2> DEFINE x == u - s
  <2>0. x \in Int /\ TableSlots \in Nat \ {0} /\ -TableSlots <= x /\ x < TableSlots BY <1>1
  <2>1. CASE s <= u
    <3>1. x \in Nat BY <1>1, <2>1
    <3> HIDE DEF x
    <3>2. x % TableSlots = x BY <2>0, <3>1, ModSmall
    <3> QED BY <2>1, <3>2 DEF Distance, x
  <2>2. CASE ~(s <= u)
    <3>1. x < 0 BY <1>1, <2>2
    <3> HIDE DEF x
    <3>2. x % TableSlots = x + TableSlots BY <2>0, <3>1, ModBack
    <3> QED BY <2>2, <3>2 DEF Distance, x
  <2> QED BY <2>1, <2>2
<1> QED BY <1>1, <1>3, TableLimits

LEMMA Around ==
    ASSUME NEW s \in TableSlot, NEW u \in TableSlot, NEW k \in TableSlot
    PROVE  /\ On(s, Distance(s, u)) = u
           /\ Distance(s, On(s, k)) = k
           /\ On(s, 0) = s /\ Distance(s, s) = 0
           /\ Distance(s, u) = 0 => s = u
<1>1. s \in 0..(TableSlots - 1) /\ u \in 0..(TableSlots - 1) /\ k \in 0..(TableSlots - 1)
      /\ TableSlots \in Nat \ {0} /\ 0 \in TableSlot
  BY TableLimits
<1>2. On(s, Distance(s, u)) = u BY <1>1, OnIs, DistanceIs
<1>3. Distance(s, On(s, k)) = k BY <1>1, OnIs, DistanceIs
<1>4. On(s, 0) = s /\ Distance(s, s) = 0 BY <1>1, OnIs, DistanceIs
<1>5. Distance(s, u) = 0 => s = u BY <1>1, DistanceIs
<1> QED BY <1>2, <1>3, <1>4, <1>5

-----------------------------------------------------------------------------
(* The shift, as a sequence of configurations.                               *)

Config == [table : Tables, hole : TableSlot, ended : BOOLEAN]

LEMMA ShiftType ==
    ASSUME HomeType, NEW index \in TableSlot, NEW c \in Config, NEW step \in 1..(TableSlots - 1)
    PROVE  Shift(index, c, step) \in Config
<1> DEFINE at == (index + step) % TableSlots
           n == c.table[at]
<1>1. at \in TableSlot
  <2>1. step \in TableSlot BY TableLimits
  <2> QED BY <2>1, OnIs DEF On
<1>2. c.table \in Tables /\ n \in 0..TableNames BY <1>1 DEF Config, Tables
<1>3. 0 \in 0..TableNames BY TableLimits
<1>4. [c.table EXCEPT ![c.hole] = n, ![at] = 0] \in Tables
  <2> HIDE DEF n, at
  <2> QED BY <1>1, <1>2, <1>3 DEF Tables
<1>5. [c EXCEPT !.ended = TRUE] \in Config BY DEF Config
<1>6. [table |-> [c.table EXCEPT ![c.hole] = n, ![at] = 0], hole |-> at, ended |-> FALSE]
        \in Config
  <2> HIDE DEF n, at
  <2> QED BY <1>1, <1>4 DEF Config
<1> QED BY <1>5, <1>6 DEF Shift

HoleMade(t, index) == [table |-> [t EXCEPT ![index] = 0], hole |-> index, ended |-> FALSE]

LEMMA RemovedIs ==
    ASSUME HomeType, NEW t \in Tables, NEW index \in TableSlot
    PROVE  \E C \in [0..(TableSlots - 1) -> Config] :
              /\ C[0] = HoleMade(t, index)
              /\ \A k \in 1..(TableSlots - 1) : C[k] = Shift(index, C[k - 1], k)
              /\ Removed(t, index) = C[TableSlots - 1].table
<1> DEFINE m == TableSlots - 1
           base == HoleMade(t, index)
           seq == [k \in 1..(TableSlots - 1) |-> k]
           F == [x \in Config \X (1..m) |-> Shift(index, x[1], x[2])]
           Runs(f) == f = [s \in SUBSET (DOMAIN seq) |-> IF s = {} THEN base
                              ELSE Shift(index, f[s \ {Max(s)}], seq[Max(s)])]
           g == CHOOSE f : Runs(f)
<1>1. m \in Nat BY TableLimits
<1>2. base \in Config
  <2>1. 0 \in 0..TableNames BY TableLimits
  <2> QED BY <2>1 DEF HoleMade, Config, Tables
<1>3. F \in [Config \X (1..m) -> Config] BY ShiftType
<1>4. PICK f \in [SUBSET (1..m) -> Config] : Folded(f, F, base, m)
  <2> HIDE DEF m, base, F
  <2> QED BY <1>1, <1>2, <1>3, FoldExists
<1>5. Runs(f)
  <2>1. DOMAIN seq = 1..m OBVIOUS
  <2>2. ASSUME NEW s \in SUBSET (1..m), s # {}
        PROVE  F[<<f[s \ {Max(s)}], Max(s)>>] = Shift(index, f[s \ {Max(s)}], seq[Max(s)])
    <3>1. Max(s) \in s /\ s \ {Max(s)} \in SUBSET (1..m) BY <1>1, <2>2, MaxOf
    <3>2. Max(s) \in 1..m BY <3>1
    <3>3. seq[Max(s)] = Max(s) BY <3>2
    <3>4. f[s \ {Max(s)}] \in Config BY <3>1, <1>4
    <3>5. <<f[s \ {Max(s)}], Max(s)>> \in Config \X (1..m) BY <3>2, <3>4
    <3> HIDE DEF seq, m
    <3> QED BY <3>3, <3>5
  <2>3. f = [s \in SUBSET (1..m) |-> IF s = {} THEN base ELSE F[<<f[s \ {Max(s)}], Max(s)>>]]
    BY <1>4 DEF Folded
  <2>4. [s \in SUBSET (1..m) |-> IF s = {} THEN base ELSE F[<<f[s \ {Max(s)}], Max(s)>>]]
        = [s \in SUBSET (1..m) |-> IF s = {} THEN base
                ELSE Shift(index, f[s \ {Max(s)}], seq[Max(s)])]
    <3> HIDE DEF seq, m, F, base
    <3> QED BY <2>2
  <2> HIDE DEF m, seq, F, base
  <2> QED BY <2>1, <2>3, <2>4
<1>6. Runs(g) BY <1>5
<1>7. Removed(t, index) = g[DOMAIN seq].table
  BY DEF Removed, FoldLeft, MapThenFoldSet, HoleMade
<1> DEFINE C == [k \in 0..m |-> g[1..k]]
<1>8. ASSUME NEW k \in 0..m
      PROVE  /\ C[k] = g[1..k] /\ 1..k \in SUBSET (1..m)
             /\ k = 0 => C[k] = base
             /\ k # 0 => C[k] = Shift(index, C[k - 1], k)
  <2>1. DOMAIN seq = 1..m /\ 1..k \in SUBSET (1..m) /\ k \in Nat BY <1>1
  <2>2. C[k] = g[1..k] OBVIOUS
  <2>3. g[1..k] = IF 1..k = {} THEN base
                  ELSE Shift(index, g[(1..k) \ {Max(1..k)}], seq[Max(1..k)])
    <3> HIDE DEF m, seq, base, C, g
    <3> QED BY <1>6, <2>1
  <2>4. CASE k = 0
    <3>1. 1..k = {} BY <2>4
    <3> HIDE DEF m, seq, base, C, g
    <3> QED BY <2>1, <2>2, <2>3, <2>4, <3>1
  <2>5. CASE k # 0
    <3>1. 1..k # {} /\ k \in Nat \ {0} /\ k - 1 \in 0..m /\ k \in 1..m BY <2>1, <2>5, <1>1
    <3>2. Max(1..k) = k /\ (1..k) \ {k} = 1..(k - 1) BY <3>1, MaxUpTo
    <3>3. seq[k] = k /\ C[k - 1] = g[1..(k - 1)] BY <3>1
    <3> HIDE DEF m, seq, base, C, g
    <3> QED BY <2>1, <2>2, <2>3, <2>5, <3>1, <3>2, <3>3
  <2> QED BY <2>4, <2>5
<1> DEFINE G == {k \in 0..m : C[k] \in Config}
<1>9. 0..m \subseteq G
  <2>1. 0 \in G
    <3>1. 0 \in 0..m BY <1>1
    <3>2. C[0] = base BY <3>1, <1>8
    <3> HIDE DEF C, base
    <3> QED BY <3>1, <3>2, <1>2
  <2>2. ASSUME NEW k \in 1..m, k - 1 \in G PROVE k \in G
    <3>1. k \in 0..m /\ k # 0 BY <1>1
    <3>2. C[k] = Shift(index, C[k - 1], k) BY <3>1, <1>8
    <3>3. C[k - 1] \in Config BY <2>2
    <3>4. Shift(index, C[k - 1], k) \in Config BY <3>3, ShiftType
    <3> HIDE DEF C
    <3> QED BY <3>1, <3>2, <3>4
  <2> HIDE DEF G, m
  <2> QED BY <1>1, <2>1, <2>2, Upward
<1>10. C \in [0..m -> Config]
  <2>1. C = [k \in 0..m |-> C[k]] OBVIOUS
  <2> HIDE DEF C
  <2> QED BY <1>9, <2>1
<1>11. C[0] = base /\ C[m] = g[1..m] /\ DOMAIN seq = 1..m
  <2>1. 0 \in 0..m /\ m \in 0..m BY <1>1
  <2> HIDE DEF C, m
  <2> QED BY <2>1, <1>8 DEF m
<1>12. \A k \in 1..m : C[k] = Shift(index, C[k - 1], k)
  <2> TAKE k \in 1..m
  <2>1. k \in 0..m /\ k # 0 BY <1>1
  <2> QED BY <2>1, <1>8
<1> HIDE DEF C, g, seq
<1> QED BY <1>7, <1>10, <1>11, <1>12

-----------------------------------------------------------------------------
(* What a removal does.                                                      *)

LEMMA Between ==
    ASSUME NEW h \in TableSlot, NEW x \in TableSlot, NEW y \in TableSlot, NEW z \in TableSlot,
           Distance(h, x) < Distance(h, z), Distance(x, y) < Distance(x, z)
    PROVE  Distance(h, y) < Distance(h, z)
<1>1. /\ h \in 0..(TableSlots - 1) /\ x \in 0..(TableSlots - 1) /\ y \in 0..(TableSlots - 1)
      /\ z \in 0..(TableSlots - 1) /\ TableSlots \in Nat \ {0}
  BY TableLimits
<1>2. Distance(h, x) = IF h <= x THEN x - h ELSE x - h + TableSlots BY DistanceIs
<1>3. Distance(h, y) = IF h <= y THEN y - h ELSE y - h + TableSlots BY DistanceIs
<1>4. Distance(h, z) = IF h <= z THEN z - h ELSE z - h + TableSlots BY DistanceIs
<1>5. Distance(x, y) = IF x <= y THEN y - x ELSE y - x + TableSlots BY DistanceIs
<1>6. Distance(x, z) = IF x <= z THEN z - x ELSE z - x + TableSlots BY DistanceIs
<1> QED BY ONLY <1>1, <1>2, <1>3, <1>4, <1>5, <1>6,
           Distance(h, x) < Distance(h, z), Distance(x, y) < Distance(x, z)

LEMMA Relative ==
    ASSUME NEW o \in TableSlot, NEW x \in TableSlot, NEW y \in TableSlot
    PROVE  /\ Distance(o, x) \in 0..(TableSlots - 1)
           /\ Distance(x, y) = IF Distance(o, x) <= Distance(o, y)
                               THEN Distance(o, y) - Distance(o, x)
                               ELSE Distance(o, y) - Distance(o, x) + TableSlots
           /\ Distance(o, x) = Distance(o, y) => x = y
<1>1. /\ o \in 0..(TableSlots - 1) /\ x \in 0..(TableSlots - 1) /\ y \in 0..(TableSlots - 1)
      /\ TableSlots \in Nat \ {0}
  BY TableLimits
<1>2. Distance(o, x) = IF o <= x THEN x - o ELSE x - o + TableSlots BY DistanceIs
<1>3. Distance(o, y) = IF o <= y THEN y - o ELSE y - o + TableSlots BY DistanceIs
<1>4. Distance(x, y) = IF x <= y THEN y - x ELSE y - x + TableSlots BY DistanceIs
<1> QED BY ONLY <1>1, <1>2, <1>3, <1>4

Once(t) == \A s, u \in TableSlot : t[s] # 0 /\ t[s] = t[u] => s = u
NamesOf(t) == {t[s] : s \in TableSlot} \ {0}
(* Nothing but the slots of a set is empty before a name on its chain.       *)
Chained(t, free) == \A s, u \in TableSlot :
    t[s] # 0 /\ Distance(home[t[s]], u) < Distance(home[t[s]], s) /\ u \notin free => t[u] # 0

Open(t, index, c, k) ==
    /\ c.table[c.hole] = 0 /\ Distance(index, c.hole) <= k
    /\ Chained(c.table, {c.hole})
    /\ \A u \in TableSlot : Distance(index, u) > k => c.table[u] = t[u]
    /\ \A u \in TableSlot : Distance(index, c.hole) < Distance(index, u) /\ Distance(index, u) <= k =>
            c.table[u] # 0 /\ ~Fills(c.hole, u, c.table[u])
    /\ \A u \in TableSlot : 1 <= Distance(index, u) /\ Distance(index, u) <= k => t[u] # 0

Shifting(t, index, c, k) ==
    /\ Once(c.table)
    /\ NamesOf(c.table) = NamesOf(t) \ {t[index]}
    /\ \E u \in TableSlot : c.table[u] = 0
    /\ \A p \in 0..(index - 1) : c.table[p] = 0 \/ \E o \in 0..(index - 1) : c.table[p] = t[o]
    /\ IF c.ended THEN Chained(c.table, {}) ELSE Open(t, index, c, k)

LEMMA ShiftingStarts ==
    ASSUME HomeType, NEW t \in Tables, NEW index \in TableSlot,
           Once(t), Chained(t, {}), t[index] # 0
    PROVE  Shifting(t, index, HoleMade(t, index), 0)
<1> DEFINE c == HoleMade(t, index)
           e == [t EXCEPT ![index] = 0]
<1>1. c.table = e /\ c.hole = index /\ c.ended = FALSE BY DEF HoleMade
<1>2. e[index] = 0 /\ \A u \in TableSlot \ {index} : e[u] = t[u] BY DEF Tables
<1>3. Distance(index, index) = 0 BY Around
<1>4. \A u \in TableSlot : Distance(index, u) \in 0..(TableSlots - 1) BY Relative
<1>5. \A u \in TableSlot : Distance(index, u) > 0 => u # index BY <1>3
<1>6. index \in Nat /\ 0..(index - 1) \subseteq TableSlot \ {index} BY TableLimits
<1> HIDE DEF e
<1>7. Once(e) BY <1>2 DEF Once
<1>8. NamesOf(e) = NamesOf(t) \ {t[index]} BY <1>2 DEF NamesOf, Once
<1>9. \A p \in 0..(index - 1) : e[p] = 0 \/ \E o \in 0..(index - 1) : e[p] = t[o]
  BY <1>2, <1>6
<1>10. Chained(e, {index}) BY <1>2 DEF Chained
<1>11. Open(t, index, c, 0) BY <1>1, <1>2, <1>3, <1>4, <1>5, <1>10, TableLimits DEF Open
<1> QED BY <1>1, <1>2, <1>7, <1>8, <1>9, <1>11 DEF Shifting

LEMMA ShiftingStep ==
    ASSUME HomeType, NEW t \in Tables, NEW index \in TableSlot, NEW c \in Config,
           NEW k \in 1..(TableSlots - 1), Shifting(t, index, c, k - 1)
    PROVE  Shifting(t, index, Shift(index, c, k), k)
<1> DEFINE at == On(index, k)
           n == c.table[at]
           D(u) == Distance(index, u)
           e == [c.table EXCEPT ![c.hole] = n, ![at] = 0]
<1>0. k \in TableSlot /\ k \in Nat \ {0} /\ index \in Nat /\ TableSlots \in Nat \ {0}
  <2>1. TableSlots \in Nat \ {0} /\ TableSlot = 0..(TableSlots - 1) BY TableLimits
  <2> QED BY ONLY <2>1, k \in 1..(TableSlots - 1), index \in TableSlot
<1>1. at \in TableSlot /\ D(at) = k
  <2>1. On(index, k) \in TableSlot BY <1>0, OnIs
  <2>2. Distance(index, On(index, k)) = k BY <1>0, Around
  <2> QED BY <2>1, <2>2
<1>2. /\ c.table \in Tables /\ c.hole \in TableSlot /\ c.ended \in BOOLEAN
      /\ \A u \in TableSlot : c.table[u] \in 0..TableNames
  BY DEF Config, Tables
<1>d. \A u \in TableSlot : D(u) \in Nat /\ D(u) < TableSlots
  <2> TAKE u \in TableSlot
  <2>1. Distance(index, u) \in TableSlot BY DistanceIs
  <2> QED BY <2>1, TableLimits
<1>u. \A u, v \in TableSlot : D(u) = D(v) => u = v BY Relative
<1>3. \A u \in TableSlot : c.table[u] # 0 => home[c.table[u]] \in TableSlot
  <2> TAKE u \in TableSlot
  <2>1. HAVE c.table[u] # 0
  <2>2. c.table[u] \in 1..TableNames BY <1>2, <2>1, TableLimits
  <2> QED BY <2>2 DEF HomeType, Named_
<1>4. CASE c.ended
  <2>1. Shift(index, c, k) = c
    <3>1. Shift(index, c, k) = [c EXCEPT !.ended = TRUE] BY <1>4 DEF Shift
    <3> QED BY <1>4, <3>1 DEF Config
  <2> QED BY <1>4, <2>1 DEF Shifting
<1>5. CASE ~c.ended /\ n = 0
  <2>1. Shift(index, c, k) = [c EXCEPT !.ended = TRUE] BY <1>5 DEF Shift, On
  <2>2. /\ Shift(index, c, k).table = c.table /\ Shift(index, c, k).hole = c.hole
        /\ Shift(index, c, k).ended = TRUE
    BY <2>1 DEF Config
  <2>3. Open(t, index, c, k - 1) BY <1>5 DEF Shifting
  <2>4. Chained(c.table, {})
    <3> SUFFICES ASSUME NEW s \in TableSlot, NEW u \in TableSlot, c.table[s] # 0,
                        Distance(home[c.table[s]], u) < Distance(home[c.table[s]], s),
                        c.table[u] = 0
                 PROVE  FALSE
      BY DEF Chained
    <3> DEFINE h == home[c.table[s]]
    <3>1. u = c.hole BY <2>3 DEF Open, Chained
    <3>2. h \in TableSlot BY <1>3
    <3>3. s # at /\ s # c.hole BY <1>5, <3>1
    <3>4. D(s) # k /\ D(s) # D(c.hole)
      <4> HIDE DEF at, D
      <4> QED BY <3>3, <1>1, <1>2, <1>u
    <3>5. D(c.hole) <= k - 1 BY <2>3 DEF Open
    <3>6. ~(D(c.hole) < D(s) /\ D(s) <= k - 1)
      <4> SUFFICES ASSUME D(c.hole) < D(s), D(s) <= k - 1 PROVE FALSE OBVIOUS
      <4>1. ~Fills(c.hole, s, c.table[s]) BY <2>3 DEF Open
      <4> QED BY <4>1, <3>1 DEF Fills
    <3>7. /\ Distance(c.hole, s) = IF D(c.hole) <= D(s) THEN D(s) - D(c.hole)
                                   ELSE (D(s) - D(c.hole)) + TableSlots
          /\ Distance(c.hole, at) = IF D(c.hole) <= D(at) THEN D(at) - D(c.hole)
                                    ELSE (D(at) - D(c.hole)) + TableSlots
      <4>1. c.hole \in TableSlot /\ at \in TableSlot BY <1>1, <1>2
      <4> HIDE DEF at
      <4> QED BY <4>1, Relative
    <3>8. D(s) \in Nat /\ D(c.hole) \in Nat /\ D(s) < TableSlots /\ D(c.hole) < TableSlots
      BY <1>d, <1>2
    <3>9. Distance(c.hole, at) < Distance(c.hole, s)
      <4> HIDE DEF at, D
      <4> QED BY ONLY <3>4, <3>5, <3>6, <3>7, <3>8, <1>1, <1>0
    <3>10. Distance(h, at) < Distance(h, s)
      <4>1. h \in TableSlot /\ c.hole \in TableSlot /\ at \in TableSlot /\ s \in TableSlot
        BY <1>1, <1>2, <3>2
      <4>2. Distance(h, c.hole) < Distance(h, s) BY <3>1
      <4> HIDE DEF at, h
      <4> QED BY <4>1, <4>2, <3>9, Between
    <3>11. at # c.hole
      <4> HIDE DEF at, D
      <4> QED BY <1>1, <3>5, <3>8, <1>0
    <3>12. c.table[at] # 0
      <4> HIDE DEF at
      <4> QED BY <1>1, <2>3, <3>10, <3>11 DEF Open, Chained
    <3> QED BY <3>12, <1>5
  <2> QED BY <2>2, <2>4, <1>5 DEF Shifting
<1>6. CASE ~c.ended /\ n # 0 /\ Fills(c.hole, at, n)
  <2>1. Shift(index, c, k) = [table |-> e, hole |-> at, ended |-> FALSE]
    BY <1>6 DEF Shift, On
  <2>2. /\ Shift(index, c, k).table = e /\ Shift(index, c, k).hole = at
        /\ Shift(index, c, k).ended = FALSE
    <3> HIDE DEF e, at
    <3> QED BY <2>1
  <2>3. Open(t, index, c, k - 1) BY <1>6 DEF Shifting
  <2>4. D(c.hole) <= k - 1 /\ D(c.hole) \in Nat /\ D(c.hole) < k /\ c.table[c.hole] = 0
    <3>1. D(c.hole) <= k - 1 /\ c.table[c.hole] = 0 BY <2>3 DEF Open
    <3>2. D(c.hole) \in Nat BY <1>d, <1>2
    <3> HIDE DEF D
    <3> QED BY <3>1, <3>2, <1>0
  <2>5. at # c.hole BY <2>4, <1>6
  <2>6. /\ e[c.hole] = n /\ e[at] = 0
        /\ \A u \in TableSlot : u # c.hole /\ u # at => e[u] = c.table[u]
    <3> HIDE DEF at, n
    <3> QED BY <1>1, <1>2, <2>5 DEF e, Tables
  <2>7. c.table[at] = n /\ n # 0 /\ home[n] \in TableSlot BY <1>1, <1>3, <1>6
  <2>8. Distance(home[n], c.hole) < Distance(home[n], at) BY <1>6 DEF Fills
  <2>9. t[at] = n
    <3>1. D(at) > k - 1 BY <1>1, <1>0
    <3> QED BY <1>1, <2>3, <3>1 DEF Open
  <2> HIDE DEF e, at, n
  <2>10. Once(e)
    <3>1. Once(c.table) BY DEF Shifting
    <3> QED BY <3>1, <2>5, <2>6, <2>7, <1>1, <1>2 DEF Once
  <2>11. NamesOf(e) = NamesOf(t) \ {t[index]}
    <3>1. NamesOf(c.table) = NamesOf(t) \ {t[index]} BY DEF Shifting
    <3>2. NamesOf(e) = NamesOf(c.table)
      <4>1. \A s \in TableSlot : e[s] # 0 => e[s] \in NamesOf(c.table)
        BY <1>1, <1>2, <2>6, <2>7 DEF NamesOf
      <4>2. \A s \in TableSlot : c.table[s] # 0 => c.table[s] \in NamesOf(e)
        <5> TAKE s \in TableSlot
        <5>1. CASE s = at BY <5>1, <1>2, <2>6, <2>7 DEF NamesOf
        <5>2. CASE s = c.hole BY <5>2, <2>4
        <5>3. CASE s # at /\ s # c.hole BY <5>3, <2>6 DEF NamesOf
        <5> QED BY <5>1, <5>2, <5>3
      <4> QED BY <4>1, <4>2 DEF NamesOf
    <3> QED BY <3>1, <3>2
  <2>12. \A p \in 0..(index - 1) : e[p] = 0 \/ \E o \in 0..(index - 1) : e[p] = t[o]
    <3> TAKE p \in 0..(index - 1)
    <3>1. p \in TableSlot /\ p < index BY <1>0, TableLimits
    <3>2. c.table[p] = 0 \/ \E o \in 0..(index - 1) : c.table[p] = t[o] BY DEF Shifting
    <3>3. CASE p = c.hole
      <4>1. D(p) = (p - index) + TableSlots BY <3>1, DistanceIs, <1>0, TableLimits
      <4>2. D(p) < k BY <3>3, <2>4
      <4>3. D(at) = IF index <= at THEN at - index ELSE (at - index) + TableSlots
        BY <1>1, DistanceIs
      <4>4. at \in Nat /\ at < TableSlots BY <1>1, TableLimits
      <4>5. at < index
        <5>1. p \in Nat OBVIOUS
        <5> HIDE DEF D
        <5> QED BY ONLY <4>1, <4>2, <4>3, <4>4, <5>1, <1>0, <1>1
      <4>6. at \in 0..(index - 1) BY <4>4, <4>5, <1>0
      <4>7. e[p] = t[at] BY <3>3, <2>6, <2>9
      <4> QED BY <4>6, <4>7
    <3>4. CASE p = at BY <3>4, <2>6
    <3>5. CASE p # c.hole /\ p # at
      <4>1. e[p] = c.table[p] BY <3>1, <3>5, <2>6
      <4> QED BY <4>1, <3>2
    <3> QED BY <3>3, <3>4, <3>5
  <2>13. Chained(e, {at})
    <3> SUFFICES ASSUME NEW s \in TableSlot, NEW u \in TableSlot, e[s] # 0,
                        Distance(home[e[s]], u) < Distance(home[e[s]], s), u # at, e[u] = 0
                 PROVE  FALSE
      BY DEF Chained
    <3>1. u # c.hole BY <2>6, <2>7
    <3>2. c.table[u] = 0 BY <2>6, <3>1
    <3>3. s # at BY <2>6
    <3>4. Chained(c.table, {c.hole}) BY <2>3 DEF Open
    <3>5. CASE s = c.hole
      <4>1. e[s] = n BY <3>5, <2>6
      <4>2. Distance(home[n], u) < Distance(home[n], c.hole) BY <4>1, <3>5
      <4>3. /\ Distance(home[n], u) \in Nat /\ Distance(home[n], c.hole) \in Nat
            /\ Distance(home[n], at) \in Nat
        <5>1. \A v \in TableSlot : Distance(home[n], v) \in TableSlot BY <2>7, DistanceIs
        <5>2. TableSlot \subseteq Nat BY TableLimits
        <5> QED BY <5>1, <5>2, <1>1, <1>2
      <4>4. Distance(home[n], u) < Distance(home[n], at) BY ONLY <4>2, <4>3, <2>8
      <4> QED BY <4>4, <3>1, <3>2, <3>4, <2>7, <1>1 DEF Chained
    <3>6. CASE s # c.hole
      <4>1. e[s] = c.table[s] BY <3>3, <3>6, <2>6
      <4> QED BY <4>1, <3>1, <3>2, <3>4 DEF Chained
    <3> QED BY <3>5, <3>6
  <2>14. \A u \in TableSlot : D(u) > k => e[u] = t[u]
    <3> TAKE u \in TableSlot
    <3>1. HAVE D(u) > k
    <3>2. D(u) > k - 1 /\ D(u) # k /\ D(u) # D(c.hole)
      <4>1. D(u) \in Nat BY <1>d
      <4> HIDE DEF D
      <4> QED BY <4>1, <3>1, <2>4, <1>0
    <3>3. c.table[u] = t[u] BY <2>3, <3>2 DEF Open
    <3>4. u # at /\ u # c.hole BY <3>2, <1>1
    <3> QED BY <3>3, <3>4, <2>6
  <2>15. \A u \in TableSlot : ~(D(at) < D(u) /\ D(u) <= k)
    <3> TAKE u \in TableSlot
    <3>1. D(u) \in Nat BY <1>d
    <3> HIDE DEF D
    <3> QED BY <3>1, <1>0, <1>1
  <2>16. \A u \in TableSlot : 1 <= D(u) /\ D(u) <= k => t[u] # 0
    <3> TAKE u \in TableSlot
    <3>1. HAVE 1 <= D(u) /\ D(u) <= k
    <3>2. CASE u = at BY <3>2, <2>7, <2>9
    <3>3. CASE u # at
      <4>1. D(u) # k BY <3>3, <1>1, <1>u
      <4>2. D(u) <= k - 1
        <5>1. D(u) \in Nat BY <1>d
        <5> HIDE DEF D
        <5> QED BY <5>1, <4>1, <3>1, <1>0
      <4> QED BY <2>3, <3>1, <4>2 DEF Open
    <3> QED BY <3>2, <3>3
  <2>17. D(at) <= k BY <1>1, <1>0
  <2> DEFINE r == Shift(index, c, k)
  <2> HIDE DEF r
  <2>18. r.table = e /\ r.hole = at /\ r.ended = FALSE BY <2>2 DEF r
  <2>19. Open(t, index, r, k)
    BY <2>18, <2>6, <2>13, <2>14, <2>15, <2>16, <2>17 DEF Open
  <2>20. Shifting(t, index, r, k)
    BY <2>18, <2>19, <2>10, <2>11, <2>12, <2>6, <1>1 DEF Shifting
  <2> QED BY <2>20 DEF r
<1>7. CASE ~c.ended /\ n # 0 /\ ~Fills(c.hole, at, n)
  <2>1. Shift(index, c, k) = c BY <1>7 DEF Shift, On
  <2>2. Open(t, index, c, k - 1) BY <1>7 DEF Shifting
  <2>3. t[at] # 0
    <3>1. D(at) > k - 1 BY <1>1, <1>0
    <3>2. c.table[at] = t[at] BY <1>1, <2>2, <3>1 DEF Open
    <3> QED BY <3>2, <1>7
  <2>4. \A u \in TableSlot : D(u) <= k => D(u) <= k - 1 \/ u = at
    <3> TAKE u \in TableSlot
    <3>1. D(u) = k => u = at BY <1>1, <1>u
    <3>2. D(u) \in Nat BY <1>d
    <3> HIDE DEF D, at
    <3> QED BY <3>1, <3>2, <1>0
  <2>5. \A u \in TableSlot : D(u) > k => D(u) > k - 1
    <3> TAKE u \in TableSlot
    <3>2. D(u) \in Nat BY <1>d
    <3> HIDE DEF D
    <3> QED BY <3>2, <1>0
  <2>6. D(c.hole) <= k
    <3>2. D(c.hole) \in Nat /\ D(c.hole) <= k - 1 BY <1>d, <1>2, <2>2 DEF Open
    <3> HIDE DEF D
    <3> QED BY <3>2, <1>0
  <2>7. Open(t, index, c, k)
    <3> HIDE DEF at
    <3> QED BY <2>2, <2>3, <2>4, <2>5, <2>6, <1>7 DEF Open
  <2> QED BY <2>1, <2>7, <1>7 DEF Shifting
<1> QED BY <1>4, <1>5, <1>6, <1>7, <1>2

-----------------------------------------------------------------------------
(* A table that is searched right: each name once, no gap before a name on   *)
(* its chain, and room.                                                      *)
Whole(t) ==
    /\ t \in Tables /\ Once(t) /\ Chained(t, {})
    /\ \E u \in TableSlot : t[u] = 0

LEMMA RemovedRight ==
    ASSUME HomeType, NEW t, Whole(t), NEW index \in TableSlot, t[index] # 0
    PROVE  /\ Whole(Removed(t, index))
           /\ NamesOf(Removed(t, index)) = NamesOf(t) \ {t[index]}
           /\ \A p \in 0..(index - 1) :
                Removed(t, index)[p] = 0 \/ \E o \in 0..(index - 1) : Removed(t, index)[p] = t[o]
<1> DEFINE m == TableSlots - 1
<1>1. t \in Tables /\ Once(t) /\ Chained(t, {}) /\ m \in Nat /\ m \in 0..m
  BY TableLimits DEF Whole
<1>2. PICK C \in [0..m -> Config] :
         /\ C[0] = HoleMade(t, index)
         /\ \A k \in 1..m : C[k] = Shift(index, C[k - 1], k)
         /\ Removed(t, index) = C[m].table
  BY <1>1, RemovedIs
<1> DEFINE G == {k \in 0..m : Shifting(t, index, C[k], k)}
<1>3. 0 \in G
  <2>1. Shifting(t, index, HoleMade(t, index), 0) BY <1>1, ShiftingStarts
  <2> QED BY <2>1, <1>1, <1>2
<1>4. ASSUME NEW k \in 1..m, k - 1 \in G PROVE k \in G
  <2>1. k - 1 \in 0..m /\ k \in 0..m BY <1>1
  <2>2. C[k - 1] \in Config /\ Shifting(t, index, C[k - 1], k - 1) BY <2>1, <1>2, <1>4
  <2>3. Shifting(t, index, Shift(index, C[k - 1], k), k) BY <1>1, <2>2, ShiftingStep
  <2>4. C[k] = Shift(index, C[k - 1], k) BY <1>2
  <2> QED BY <2>1, <2>3, <2>4
<1>5. Shifting(t, index, C[m], m)
  <2> HIDE DEF G
  <2>1. 0..m \subseteq G BY <1>1, <1>3, <1>4, Upward
  <2>2. m \in G BY <2>1, <1>1
  <2> QED BY <2>2 DEF G
<1> DEFINE c == C[m]
<1>6. c \in Config /\ Removed(t, index) = c.table BY <1>1, <1>2
<1>7. c.ended
  <2> SUFFICES ASSUME ~c.ended PROVE FALSE OBVIOUS
  <2>1. \A u \in TableSlot : 1 <= Distance(index, u) /\ Distance(index, u) <= m => t[u] # 0
    BY <1>5 DEF Shifting, Open
  <2>2. PICK u \in TableSlot : t[u] = 0 BY DEF Whole
  <2>3. Distance(index, u) \in 0..m BY Relative
  <2>4. u # index BY <2>2
  <2>5. Distance(index, u) # 0 BY <2>4, Around
  <2>6. 1 <= Distance(index, u) /\ Distance(index, u) <= m BY <2>3, <2>5, <1>1
  <2> QED BY <2>1, <2>2, <2>6
<1> HIDE DEF c
<1>8. Shifting(t, index, c, m) BY <1>5 DEF c
<1>9. c.table \in Tables BY <1>6 DEF Config
<1> QED BY <1>6, <1>7, <1>8, <1>9 DEF Shifting, Whole

-----------------------------------------------------------------------------
(* What a search finds.                                                      *)

LEMMA LocateIs ==
    ASSUME HomeType, NEW t, Whole(t), NEW n \in Named_
    PROVE  /\ Locate(t, n) \in TableSlot /\ t[Locate(t, n)] \in {n, 0}
           /\ \A u \in TableSlot :
                Distance(home[n], u) < Distance(home[n], Locate(t, n)) => t[u] \notin {n, 0}
<1> DEFINE h == home[n]
           stops == {k \in TableSlot : t[On(h, k)] \in {n, 0}}
           k == CHOOSE x \in stops : \A j \in stops : x <= j
<1>1. h \in TableSlot /\ TableSlot \subseteq Nat BY TableLimits DEF HomeType
<1>2. PICK e \in TableSlot : t[e] = 0 BY DEF Whole
<1>3. Distance(h, e) \in stops
  <2>1. Distance(h, e) \in TableSlot /\ On(h, Distance(h, e)) = e BY <1>1, Around, DistanceIs
  <2> HIDE DEF h
  <2> QED BY <2>1, <1>2
<1>4. stops \in SUBSET Nat /\ stops # {} BY <1>1, <1>3
<1>5. k \in stops /\ \A j \in stops : k <= j
  <2> HIDE DEF stops
  <2>1. \E x \in stops : \A j \in stops : x <= j BY <1>4, LeastNat
  <2> QED BY <2>1
<1>6. Locate(t, n) = On(h, k) BY DEF Locate, Probe, On
<1>7. k \in TableSlot /\ t[On(h, k)] \in {n, 0} BY <1>5
<1>8. \A j \in stops : k <= j BY <1>5
<1> HIDE DEF k
<1>9. On(h, k) \in TableSlot /\ Distance(h, On(h, k)) = k BY <1>1, <1>7, OnIs, Around
<1>10. ASSUME NEW u \in TableSlot, Distance(h, u) < k PROVE t[u] \notin {n, 0}
  <2>1. Distance(h, u) \in TableSlot /\ On(h, Distance(h, u)) = u BY <1>1, Around, DistanceIs
  <2>2. Distance(h, u) \notin stops
    <3>0. k \in Nat /\ Distance(h, u) \in Nat BY <1>1, <1>7, <2>1
    <3>1. ~(k <= Distance(h, u)) BY ONLY <3>0, <1>10
    <3> HIDE DEF stops, h
    <3> QED BY <1>8, <3>1
  <2> HIDE DEF h
  <2> QED BY <2>1, <2>2
<1> HIDE DEF h
<1>11. QED BY <1>6, <1>7, <1>9, <1>10 DEF h

LEMMA FoundIs ==
    ASSUME HomeType, NEW t, Whole(t), NEW n \in Named_
    PROVE  Found(t, n) <=> n \in NamesOf(t)
<1> DEFINE l == Locate(t, n)
           h == home[n]
<1>1. /\ l \in TableSlot /\ t[l] \in {n, 0}
      /\ \A u \in TableSlot : Distance(h, u) < Distance(h, l) => t[u] \notin {n, 0}
  BY LocateIs
<1>2. n # 0 /\ h \in TableSlot BY TableLimits DEF Named_, HomeType
<1>3. Found(t, n) <=> t[l] = n BY DEF Found
<1> HIDE DEF l, h
<1>4. ASSUME t[l] = n PROVE n \in NamesOf(t) BY <1>1, <1>2, <1>4 DEF NamesOf
<1>5. ASSUME n \in NamesOf(t) PROVE t[l] = n
  <2> SUFFICES ASSUME t[l] # n PROVE FALSE OBVIOUS
  <2>1. t[l] = 0 BY <1>1
  <2>2. PICK s \in TableSlot : t[s] = n BY <1>5 DEF NamesOf
  <2>3. ~(Distance(h, s) < Distance(h, l)) BY <1>1, <2>2
  <2>4. Distance(h, s) # Distance(h, l)
    <3>1. s # l BY <2>1, <2>2, <1>2
    <3> QED BY <3>1, <1>1, <1>2, Relative
  <2>5. Distance(h, s) \in Nat /\ Distance(h, l) \in Nat
    <3>1. Distance(h, s) \in TableSlot BY <1>2, DistanceIs
    <3>2. Distance(h, l) \in TableSlot BY <1>1, <1>2, DistanceIs
    <3> QED BY <3>1, <3>2, TableLimits
  <2>6. Distance(h, l) < Distance(h, s) BY <2>3, <2>4, <2>5
  <2>7. Chained(t, {}) BY DEF Whole
  <2>8. home[t[s]] = h BY <2>2 DEF h
  <2> QED BY <1>1, <1>2, <2>1, <2>2, <2>6, <2>7, <2>8 DEF Chained
<1> QED BY <1>3, <1>4, <1>5

(* A table has a name in as many slots as it has names.                      *)
LEMMA TableCount ==
    ASSUME NEW t \in Tables, Once(t)
    PROVE  /\ IsFiniteSet(NamesOf(t)) /\ NamesOf(t) \subseteq Named_
           /\ Cardinality({s \in TableSlot : t[s] # 0}) = Cardinality(NamesOf(t))
           /\ Cardinality(NamesOf(t)) < TableSlots => \E u \in TableSlot : t[u] = 0
<1> DEFINE S == {s \in TableSlot : t[s] # 0}
           f == [s \in S |-> t[s]]
<1>1. IsFiniteSet(Named_) /\ IsFiniteSet(TableSlot) /\ Cardinality(TableSlot) = TableSlots
  <2>1. 0 \in Int /\ TableSlots - 1 \in Int /\ 1 \in Int /\ TableNames \in Int
        /\ TableSlots > 0 /\ TableSlots \in Nat
    BY TableLimits
  <2>2. IsFiniteSet(1..TableNames) BY <2>1, FS_Interval
  <2>3. IsFiniteSet(0..(TableSlots - 1)) BY <2>1, FS_Interval
  <2>4. Cardinality(0..(TableSlots - 1)) =
            IF 0 > TableSlots - 1 THEN 0 ELSE (TableSlots - 1) - 0 + 1
    BY <2>1, FS_Interval
  <2>5. Cardinality(0..(TableSlots - 1)) = TableSlots BY <2>1, <2>4
  <2> QED BY <2>2, <2>3, <2>5 DEF Named_, TableSlot
<1>2. NamesOf(t) \subseteq Named_
  <2>1. \A s \in TableSlot : t[s] \in 0..TableNames BY DEF Tables
  <2> QED BY <2>1, TableLimits DEF NamesOf, Named_
<1>3. IsFiniteSet(NamesOf(t)) BY <1>1, <1>2, FS_Subset
<1>4. IsFiniteSet(S) BY <1>1, FS_Subset
<1>5. f \in Bijection(S, NamesOf(t))
  <2>1. f \in [S -> NamesOf(t)] BY DEF NamesOf
  <2>2. f \in Injection(S, NamesOf(t))
    <3>1. \A a, b \in S : f[a] = f[b] => a = b BY DEF Once
    <3> HIDE DEF f, S
    <3> QED BY <2>1, <3>1 DEF Injection, IsInjective
  <2>3. f \in Surjection(S, NamesOf(t))
    <3>1. \A n \in NamesOf(t) : \E s \in S : f[s] = n BY DEF NamesOf
    <3> HIDE DEF f, S
    <3> QED BY <2>1, <3>1 DEF Surjection
  <2> QED BY <2>2, <2>3 DEF Bijection
<1>6. Cardinality(S) = Cardinality(NamesOf(t))
  <2>1. ExistsBijection(S, NamesOf(t)) BY <1>5 DEF ExistsBijection
  <2> HIDE DEF S
  <2> QED BY <1>4, <2>1, FS_Bijection
<1>7. ASSUME \A u \in TableSlot : t[u] # 0 PROVE ~(Cardinality(NamesOf(t)) < TableSlots)
  <2>1. S = TableSlot BY <1>7
  <2>2. Cardinality(NamesOf(t)) = TableSlots BY <2>1, <1>1, <1>6
  <2> QED BY <2>2, TableLimits
<1> QED BY <1>2, <1>3, <1>6, <1>7

-----------------------------------------------------------------------------
(* The sweep of a range, as a sequence of configurations.                    *)

Sweep == {c \in [table : Tables, at : 0..TableSlots] : Whole(c.table)}

LEMMA LookType ==
    ASSUME HomeType, NEW range, 0 \notin range, NEW c \in Sweep
    PROVE  Look(range, c) \in Sweep
<1>1. c \in [table : Tables, at : 0..TableSlots] /\ Whole(c.table) BY DEF Sweep
<1>2. CASE c.at \notin TableSlot
  <2>1. Look(range, c) = c BY <1>2 DEF Look
  <2> QED BY <2>1
<1>3. CASE c.at \in TableSlot /\ c.table[c.at] \in range
  <2>1. Look(range, c) = [table |-> Removed(c.table, c.at), at |-> c.at] BY <1>3 DEF Look
  <2>2. Whole(Removed(c.table, c.at)) BY <1>1, <1>3, RemovedRight
  <2>3. Removed(c.table, c.at) \in Tables BY <2>2 DEF Whole
  <2> QED BY <1>1, <2>1, <2>2, <2>3 DEF Sweep
<1>4. CASE c.at \in TableSlot /\ c.table[c.at] \notin range
  <2>1. Look(range, c) = [table |-> c.table, at |-> c.at + 1] BY <1>4 DEF Look
  <2>2. c.at + 1 \in 0..TableSlots BY <1>4, TableLimits
  <2> QED BY <1>1, <2>1, <2>2 DEF Sweep
<1> QED BY <1>2, <1>3, <1>4

LEMMA SweptIs ==
    ASSUME HomeType, NEW t, Whole(t), NEW range, 0 \notin range
    PROVE  \E C \in [0..(TableSlots + TableLimit) -> Sweep] :
              /\ C[0] = [table |-> t, at |-> 0]
              /\ \A k \in 1..(TableSlots + TableLimit) : C[k] = Look(range, C[k - 1])
              /\ Swept(t, range) = C[TableSlots + TableLimit].table
<1> DEFINE m == TableSlots + TableLimit
           base == [table |-> t, at |-> 0]
           seq == [k \in 1..(TableSlots + TableLimit) |-> k]
           F == [x \in Sweep \X (1..m) |-> Look(range, x[1])]
           Runs(f) == f = [s \in SUBSET (DOMAIN seq) |-> IF s = {} THEN base
                              ELSE Look(range, f[s \ {Max(s)}])]
           g == CHOOSE f : Runs(f)
<1>1. m \in Nat BY TableLimits
<1>2. base \in Sweep
  <2>1. t \in Tables /\ 0 \in 0..TableSlots BY TableLimits DEF Whole
  <2>2. base.table = t /\ base \in [table : Tables, at : 0..TableSlots] BY <2>1
  <2> HIDE DEF base
  <2> QED BY <2>2 DEF Sweep
<1>3. F \in [Sweep \X (1..m) -> Sweep] BY LookType
<1>4. PICK f \in [SUBSET (1..m) -> Sweep] : Folded(f, F, base, m)
  <2> HIDE DEF m, base, F
  <2> QED BY <1>1, <1>2, <1>3, FoldExists
<1>5. Runs(f)
  <2>1. DOMAIN seq = 1..m OBVIOUS
  <2>2. ASSUME NEW s \in SUBSET (1..m), s # {}
        PROVE  F[<<f[s \ {Max(s)}], Max(s)>>] = Look(range, f[s \ {Max(s)}])
    <3>1. Max(s) \in s /\ s \ {Max(s)} \in SUBSET (1..m) BY <1>1, <2>2, MaxOf
    <3>2. Max(s) \in 1..m BY <3>1
    <3>3. seq[Max(s)] = Max(s) BY <3>2
    <3>4. f[s \ {Max(s)}] \in Sweep BY <3>1, <1>4
    <3>5. <<f[s \ {Max(s)}], Max(s)>> \in Sweep \X (1..m) BY <3>2, <3>4
    <3> HIDE DEF seq, m
    <3> QED BY <3>3, <3>5
  <2>3. f = [s \in SUBSET (1..m) |-> IF s = {} THEN base ELSE F[<<f[s \ {Max(s)}], Max(s)>>]]
    BY <1>4 DEF Folded
  <2>4. [s \in SUBSET (1..m) |-> IF s = {} THEN base ELSE F[<<f[s \ {Max(s)}], Max(s)>>]]
        = [s \in SUBSET (1..m) |-> IF s = {} THEN base
                ELSE Look(range, f[s \ {Max(s)}])]
    <3> HIDE DEF seq, m, F, base
    <3> QED BY <2>2
  <2> HIDE DEF m, seq, F, base
  <2> QED BY <2>1, <2>3, <2>4
<1>6. Runs(g) BY <1>5
<1>7. Swept(t, range) = g[DOMAIN seq].table
  BY DEF Swept, FoldLeft, MapThenFoldSet
<1> DEFINE C == [k \in 0..m |-> g[1..k]]
<1>8. ASSUME NEW k \in 0..m
      PROVE  /\ C[k] = g[1..k] /\ 1..k \in SUBSET (1..m)
             /\ k = 0 => C[k] = base
             /\ k # 0 => C[k] = Look(range, C[k - 1])
  <2>1. DOMAIN seq = 1..m /\ 1..k \in SUBSET (1..m) /\ k \in Nat BY <1>1
  <2>2. C[k] = g[1..k] OBVIOUS
  <2>3. g[1..k] = IF 1..k = {} THEN base
                  ELSE Look(range, g[(1..k) \ {Max(1..k)}])
    <3> HIDE DEF m, seq, base, C, g
    <3> QED BY <1>6, <2>1
  <2>4. CASE k = 0
    <3>1. 1..k = {} BY <2>4
    <3> HIDE DEF m, seq, base, C, g
    <3> QED BY <2>1, <2>2, <2>3, <2>4, <3>1
  <2>5. CASE k # 0
    <3>1. 1..k # {} /\ k \in Nat \ {0} /\ k - 1 \in 0..m /\ k \in 1..m
      <4> HIDE DEF m
      <4> QED BY <2>1, <2>5, <1>1
    <3>2. Max(1..k) = k /\ (1..k) \ {k} = 1..(k - 1) BY <3>1, MaxUpTo
    <3>3. seq[k] = k /\ C[k - 1] = g[1..(k - 1)] BY <3>1
    <3> HIDE DEF m, seq, base, C, g
    <3> QED BY <2>1, <2>2, <2>3, <2>5, <3>1, <3>2, <3>3
  <2> QED BY <2>4, <2>5
<1> DEFINE G == {k \in 0..m : C[k] \in Sweep}
<1>9. 0..m \subseteq G
  <2>1. 0 \in G
    <3>1. 0 \in 0..m BY <1>1
    <3>2. C[0] = base BY <3>1, <1>8
    <3> HIDE DEF C, base
    <3> QED BY <3>1, <3>2, <1>2
  <2>2. ASSUME NEW k \in 1..m, k - 1 \in G PROVE k \in G
    <3>1. k \in 0..m /\ k # 0 BY <1>1
    <3>2. C[k] = Look(range, C[k - 1]) BY <3>1, <1>8
    <3>3. C[k - 1] \in Sweep BY <2>2
    <3>4. Look(range, C[k - 1]) \in Sweep BY <3>3, LookType
    <3> HIDE DEF C
    <3> QED BY <3>1, <3>2, <3>4
  <2> HIDE DEF G, m
  <2> QED BY <1>1, <2>1, <2>2, Upward
<1>10. C \in [0..m -> Sweep]
  <2>1. C = [k \in 0..m |-> C[k]] OBVIOUS
  <2> HIDE DEF C
  <2> QED BY <1>9, <2>1
<1>11. C[0] = base /\ C[m] = g[1..m] /\ DOMAIN seq = 1..m
  <2>1. 0 \in 0..m /\ m \in 0..m BY <1>1
  <2> HIDE DEF C, m
  <2> QED BY <2>1, <1>8 DEF m
<1>12. \A k \in 1..m : C[k] = Look(range, C[k - 1])
  <2> TAKE k \in 1..m
  <2>1. k \in 0..m /\ k # 0 BY <1>1
  <2> QED BY <2>1, <1>8
<1> HIDE DEF C, g, seq
<1> QED BY <1>7, <1>10, <1>11, <1>12

(* After so many looks: what is gone, and how far the sweep has come.        *)
Swept_(t, range, c, k) ==
    /\ NamesOf(c.table) \subseteq NamesOf(t) /\ NamesOf(t) \ range \subseteq NamesOf(c.table)
    /\ \A p \in 0..(c.at - 1) : c.table[p] \notin range
    /\ c.at \in TableSlot => c.at + Cardinality(NamesOf(t) \ NamesOf(c.table)) = k

LEMMA SweepStep ==
    ASSUME HomeType, NEW range, 0 \notin range, NEW t, Whole(t), NEW c \in Sweep,
           NEW k \in Nat, Swept_(t, range, c, k)
    PROVE  Swept_(t, range, Look(range, c), k + 1)
<1> DEFINE gone == NamesOf(t) \ NamesOf(c.table)
           n == c.table[c.at]
<1>1. c \in [table : Tables, at : 0..TableSlots] /\ Whole(c.table) BY DEF Sweep
<1>2. t \in Tables /\ Once(t) /\ c.table \in Tables /\ c.at \in 0..TableSlots
  BY <1>1 DEF Whole
<1>3. IsFiniteSet(NamesOf(t)) BY <1>2, TableCount
<1>4. IsFiniteSet(gone) /\ Cardinality(gone) \in Nat BY <1>3, FS_Subset, FS_CardinalityType
<1>5. TableSlot = 0..(TableSlots - 1) /\ TableSlots \in Nat \ {0} BY TableLimits
<1>6. CASE c.at \notin TableSlot
  <2>1. Look(range, c) = c BY <1>6 DEF Look
  <2> QED BY <2>1, <1>6 DEF Swept_
<1>7. CASE c.at \in TableSlot /\ n \in range
  <2> DEFINE r == Removed(c.table, c.at)
             d == [table |-> r, at |-> c.at]
  <2>1. Look(range, c) = d BY <1>7 DEF Look
  <2>2. n # 0 BY <1>7
  <2>3. /\ NamesOf(r) = NamesOf(c.table) \ {n}
        /\ \A p \in 0..(c.at - 1) : r[p] = 0 \/ \E o \in 0..(c.at - 1) : r[p] = c.table[o]
    BY <1>1, <1>7, <2>2, RemovedRight
  <2>4. n \in NamesOf(c.table) /\ NamesOf(c.table) \subseteq NamesOf(t)
    BY <1>7, <2>2 DEF NamesOf, Swept_
  <2> DEFINE gone2 == NamesOf(t) \ NamesOf(r)
  <2>5. gone2 = gone \union {n} /\ n \notin gone BY <2>3, <2>4
  <2>6. Cardinality(gone2) = Cardinality(gone) + 1
    <3> HIDE DEF gone, gone2, n
    <3> QED BY <1>4, <2>5, FS_AddElement
  <2>7. d.table = r /\ d.at = c.at OBVIOUS
  <2>8. \A p \in 0..(c.at - 1) : r[p] \notin range
    <3> TAKE p \in 0..(c.at - 1)
    <3>1. \A o \in 0..(c.at - 1) : c.table[o] \notin range BY DEF Swept_
    <3> HIDE DEF r
    <3> QED BY <2>3, <3>1
  <2>9. c.at + Cardinality(gone) = k BY <1>7 DEF Swept_
  <2>10. c.at \in Nat BY <1>2, <1>5
  <2>11. c.at + Cardinality(gone2) = k + 1
    <3> HIDE DEF gone, gone2
    <3> QED BY ONLY <2>6, <2>9, <2>10, <1>4
  <2>12. NamesOf(t) \ range \subseteq NamesOf(r)
    <3>1. NamesOf(t) \ range \subseteq NamesOf(c.table) BY DEF Swept_
    <3> HIDE DEF r, n
    <3> QED BY <2>3, <3>1, <1>7
  <2>13. NamesOf(r) \subseteq NamesOf(t) BY <2>3, <2>4
  <2> HIDE DEF r, d
  <2>14. Swept_(t, range, d, k + 1)
    BY <2>7, <2>8, <2>11, <2>12, <2>13 DEF Swept_
  <2> QED BY <2>1, <2>14
<1>8. CASE c.at \in TableSlot /\ n \notin range
  <2> DEFINE d == [table |-> c.table, at |-> c.at + 1]
  <2>1. Look(range, c) = d BY <1>8 DEF Look
  <2>2. d.table = c.table /\ d.at = c.at + 1 /\ c.at \in Nat BY <1>2, <1>5
  <2>3. c.at + Cardinality(gone) = k BY <1>8 DEF Swept_
  <2>4. c.at + 1 + Cardinality(gone) = k + 1
    <3> HIDE DEF gone
    <3> QED BY ONLY <2>2, <2>3, <1>4
  <2>5. \A p \in 0..c.at : c.table[p] \notin range
    <3> TAKE p \in 0..c.at
    <3>1. CASE p = c.at BY <3>1, <1>8
    <3>2. CASE p # c.at
      <4>1. p \in 0..(c.at - 1) BY <3>2, <2>2
      <4> QED BY <4>1 DEF Swept_
    <3> QED BY <3>1, <3>2
  <2>6. d.at - 1 = c.at BY <2>2
  <2> HIDE DEF d
  <2>7. Swept_(t, range, d, k + 1)
    <3>1. \A p \in 0..(d.at - 1) : d.table[p] \notin range BY <2>2, <2>5, <2>6
    <3>2. d.at + Cardinality(NamesOf(t) \ NamesOf(d.table)) = k + 1 BY <2>2, <2>4
    <3> QED BY <2>2, <3>1, <3>2 DEF Swept_
  <2> QED BY <2>1, <2>7
<1> QED BY <1>6, <1>7, <1>8

LEMMA SweptRight ==
    ASSUME HomeType, NEW t, Whole(t), NEW range, 0 \notin range,
           Cardinality(NamesOf(t)) <= TableLimit
    PROVE  Whole(Swept(t, range)) /\ NamesOf(Swept(t, range)) = NamesOf(t) \ range
<1> DEFINE m == TableSlots + TableLimit
<1>1. /\ m \in Nat /\ m \in 0..m /\ TableSlots \in Nat \ {0} /\ TableLimit \in Nat \ {0}
      /\ TableSlot = 0..(TableSlots - 1)
  BY TableLimits
<1>2. PICK C \in [0..m -> Sweep] :
         /\ C[0] = [table |-> t, at |-> 0]
         /\ \A k \in 1..m : C[k] = Look(range, C[k - 1])
         /\ Swept(t, range) = C[m].table
  BY SweptIs
<1>t. t \in Tables /\ Once(t) BY DEF Whole
<1>f. IsFiniteSet(NamesOf(t)) BY <1>t, TableCount
<1> DEFINE G == {k \in 0..m : Swept_(t, range, C[k], k)}
<1>3. 0 \in G
  <2> DEFINE d == [table |-> t, at |-> 0]
  <2>1. d.table = t /\ d.at = 0 OBVIOUS
  <2>2. NamesOf(t) \ NamesOf(t) = {} OBVIOUS
  <2>3. Cardinality({}) = 0 BY FS_EmptySet
  <2>4. 0..(0 - 1) = {} OBVIOUS
  <2> HIDE DEF d
  <2>5. d.at + Cardinality(NamesOf(t) \ NamesOf(d.table)) = 0
    <3>1. NamesOf(t) \ NamesOf(d.table) = {} BY <2>1
    <3>2. Cardinality(NamesOf(t) \ NamesOf(d.table)) = 0 BY <3>1, <2>3
    <3> QED BY ONLY <3>2, <2>1
  <2>6. Swept_(t, range, d, 0) BY <2>1, <2>4, <2>5 DEF Swept_
  <2> QED BY <2>6, <1>1, <1>2 DEF d
<1>4. ASSUME NEW k \in 1..m, k - 1 \in G PROVE k \in G
  <2>1. k - 1 \in 0..m /\ k \in 0..m /\ k - 1 \in Nat /\ (k - 1) + 1 = k BY <1>1
  <2>2. C[k - 1] \in Sweep /\ Swept_(t, range, C[k - 1], k - 1) BY <2>1, <1>2, <1>4
  <2>3. Swept_(t, range, Look(range, C[k - 1]), (k - 1) + 1) BY <2>1, <2>2, SweepStep
  <2>4. C[k] = Look(range, C[k - 1]) BY <1>2
  <2> QED BY <2>1, <2>3, <2>4
<1>5. Swept_(t, range, C[m], m)
  <2> HIDE DEF G
  <2>1. 0..m \subseteq G BY <1>1, <1>3, <1>4, Upward
  <2>2. m \in G BY <2>1, <1>1
  <2> QED BY <2>2 DEF G
<1> DEFINE c == C[m]
           r == c.table
           gone == NamesOf(t) \ NamesOf(r)
<1>6. c \in Sweep /\ Swept(t, range) = r BY <1>1, <1>2
<1>7. c.at \in 0..TableSlots /\ Whole(r) BY <1>6 DEF Sweep
<1> HIDE DEF c
<1>8. Swept_(t, range, c, m) BY <1>5 DEF c
<1>9. Cardinality(gone) \in Nat /\ Cardinality(gone) <= TableLimit
  <2>1. gone \subseteq NamesOf(t) OBVIOUS
  <2> HIDE DEF gone
  <2>2. Cardinality(NamesOf(t)) \in Nat BY <1>f, FS_CardinalityType
  <2>3. IsFiniteSet(gone) /\ Cardinality(gone) <= Cardinality(NamesOf(t))
    BY <2>1, <1>f, FS_Subset
  <2>4. Cardinality(gone) \in Nat BY <2>3, FS_CardinalityType
  <2> QED BY ONLY <2>2, <2>3, <2>4, <1>1, Cardinality(NamesOf(t)) <= TableLimit
<1>10. c.at = TableSlots
  <2> SUFFICES ASSUME c.at # TableSlots PROVE FALSE OBVIOUS
  <2>1. c.at \in TableSlot /\ c.at \in Nat /\ c.at < TableSlots BY <1>1, <1>7
  <2>2. c.at + Cardinality(gone) = m BY <1>8, <2>1 DEF Swept_
  <2> HIDE DEF gone
  <2> QED BY ONLY <2>1, <2>2, <1>1, <1>9
<1>11. \A p \in TableSlot : r[p] \notin range
  <2>1. \A p \in 0..(c.at - 1) : r[p] \notin range BY <1>8 DEF Swept_
  <2> QED BY <2>1, <1>1, <1>10
<1>12. NamesOf(r) = NamesOf(t) \ range
  <2>1. NamesOf(r) \subseteq NamesOf(t) /\ NamesOf(t) \ range \subseteq NamesOf(r)
    BY <1>8 DEF Swept_
  <2>2. \A n \in NamesOf(r) : n \notin range BY <1>11 DEF NamesOf
  <2> QED BY <2>1, <2>2
<1> QED BY <1>6, <1>7, <1>12

-----------------------------------------------------------------------------
(* The names of the table are the members.                                   *)

TableInv ==
    /\ HomeType /\ Whole(slots) /\ NamesOf(slots) = members
    /\ Cardinality(members) <= TableLimit

LEMMA TableInvStarts == TableInit => TableInv
<1> SUFFICES ASSUME TableInit PROVE TableInv OBVIOUS
<1>1. HomeType
  <2>1. home \in [1..TableNames -> Homes] /\ Homes \subseteq TableSlot
    BY TableLimits DEF TableInit
  <2> QED BY <2>1 DEF HomeType, Named_
<1>2. slots \in Tables /\ \A s \in TableSlot : slots[s] = 0
  BY TableLimits DEF TableInit, Tables
<1>3. Whole(slots) BY <1>2, TableLimits DEF Whole, Once, Chained
<1>4. NamesOf(slots) = members BY <1>2 DEF NamesOf, TableInit
<1>5. Cardinality(members) <= TableLimit BY FS_EmptySet, TableLimits DEF TableInit
<1> QED BY <1>1, <1>3, <1>4, <1>5 DEF TableInv

(* A table has room when its names are within the limit.                     *)
LEMMA RoomLeft ==
    ASSUME NEW t \in Tables, Once(t), Cardinality(NamesOf(t)) <= TableLimit
    PROVE  \E u \in TableSlot : t[u] = 0
<1>1. IsFiniteSet(NamesOf(t)) BY TableCount
<1>2. Cardinality(NamesOf(t)) \in Nat BY <1>1, FS_CardinalityType
<1>3. Cardinality(NamesOf(t)) < TableSlots BY <1>2, TableLimits
<1> QED BY <1>3, TableCount

LEMMA InsertKeeps == ASSUME TableInv, InsertName PROVE TableInv'
<1>1. PICK n \in Named_ :
         /\ ~Found(slots, n) /\ Cardinality(members) < TableLimit
         /\ slots' = [slots EXCEPT ![Locate(slots, n)] = n]
         /\ members' = members \union {n} /\ home' = home
  BY DEF InsertName, Named_
<1> DEFINE l == Locate(slots, n)
           r == [slots EXCEPT ![l] = n]
<1>2. HomeType /\ Whole(slots) /\ NamesOf(slots) = members BY DEF TableInv
<1>3. /\ l \in TableSlot /\ slots[l] \in {n, 0}
      /\ \A u \in TableSlot : Distance(home[n], u) < Distance(home[n], l) => slots[u] \notin {n, 0}
  BY <1>2, LocateIs
<1>4. n \notin members BY <1>1, <1>2, FoundIs
<1>5. n # 0 /\ n \in 0..TableNames BY TableLimits DEF Named_
<1>6. slots[l] = 0 BY <1>3, <1>4, <1>5, <1>2 DEF NamesOf
<1>7. slots \in Tables /\ Once(slots) /\ Chained(slots, {}) BY <1>2 DEF Whole
<1> HIDE DEF l
<1>8. r[l] = n /\ \A u \in TableSlot : u # l => r[u] = slots[u] BY <1>3, <1>7 DEF Tables
<1>9. r \in Tables BY <1>3, <1>5, <1>7 DEF Tables
<1> HIDE DEF r
<1>10. \A u \in TableSlot : slots[u] # n BY <1>2, <1>4, <1>5 DEF NamesOf
<1>11. Once(r) BY <1>7, <1>8, <1>10 DEF Once
<1>12. Chained(r, {})
  <2> SUFFICES ASSUME NEW s \in TableSlot, NEW u \in TableSlot, r[s] # 0,
                      Distance(home[r[s]], u) < Distance(home[r[s]], s), r[u] = 0
               PROVE  FALSE
    BY DEF Chained
  <2>1. u # l /\ slots[u] = 0 BY <1>5, <1>8
  <2>2. CASE s = l BY <2>1, <2>2, <1>3, <1>8
  <2>3. CASE s # l
    <3>1. r[s] = slots[s] BY <2>3, <1>8
    <3> QED BY <3>1, <2>1, <1>7 DEF Chained
  <2> QED BY <2>2, <2>3
<1>13. NamesOf(r) = members \union {n}
  <2>1. \A s \in TableSlot : r[s] # 0 => r[s] \in members \union {n} BY <1>2, <1>8 DEF NamesOf
  <2>2. n \in NamesOf(r) BY <1>3, <1>5, <1>8 DEF NamesOf
  <2>3. \A s \in TableSlot : slots[s] # 0 => slots[s] \in NamesOf(r)
    BY <1>6, <1>8 DEF NamesOf
  <2>4. NamesOf(r) \subseteq members \union {n} BY <2>1 DEF NamesOf
  <2>5. members \subseteq NamesOf(r) BY <2>3, <1>2 DEF NamesOf
  <2> QED BY <2>2, <2>4, <2>5
<1>14. Cardinality(members \union {n}) <= TableLimit
  <2>1. IsFiniteSet(members) BY <1>2, <1>7, TableCount
  <2>2. Cardinality(members \union {n}) = Cardinality(members) + 1 /\ Cardinality(members) \in Nat
    BY <2>1, <1>4, FS_AddElement, FS_CardinalityType
  <2> QED BY <1>1, <2>2, TableLimits
<1>15. Whole(r)
  <2>1. \E u \in TableSlot : r[u] = 0 BY <1>9, <1>11, <1>13, <1>14, RoomLeft
  <2> QED BY <2>1, <1>9, <1>11, <1>12 DEF Whole
<1>16. slots' = r /\ members' = members \union {n} /\ home' = home BY <1>1 DEF r, l
<1>17. Whole(slots)'
  <2>1. home' = home BY <1>16
  <2> QED BY <2>1, <1>15, <1>16 DEF Whole, Once, Chained
<1>20. HomeType' BY <1>2, <1>16 DEF HomeType
<1>21. NamesOf(slots)' = members' BY <1>13, <1>16 DEF NamesOf
<1>22. Cardinality(members') <= TableLimit BY <1>14, <1>16
<1> QED BY <1>17, <1>20, <1>21, <1>22 DEF TableInv

LEMMA RemoveKeeps == ASSUME TableInv, RemoveName PROVE TableInv'
<1>1. PICK n \in Named_ :
         /\ Found(slots, n)
         /\ slots' = Removed(slots, Locate(slots, n))
         /\ members' = members \ {n} /\ home' = home
  BY DEF RemoveName, Named_
<1> DEFINE l == Locate(slots, n)
           r == Removed(slots, l)
<1>2. HomeType /\ Whole(slots) /\ NamesOf(slots) = members /\ Cardinality(members) <= TableLimit
  BY DEF TableInv
<1>3. l \in TableSlot /\ slots[l] = n BY <1>1, <1>2, LocateIs DEF Found
<1>4. slots[l] # 0 BY <1>3, TableLimits DEF Named_
<1> HIDE DEF l
<1>5. Whole(r) /\ NamesOf(r) = members \ {n} BY <1>2, <1>3, <1>4, RemovedRight
<1>6. slots' = r /\ members' = members \ {n} /\ home' = home BY <1>1 DEF l
<1> HIDE DEF r
<1>7. Whole(slots)' BY <1>5, <1>6 DEF Whole, Once, Chained
<1>8. Cardinality(members \ {n}) <= TableLimit
  <2>1. IsFiniteSet(members) BY <1>2, TableCount DEF Whole
  <2>2. /\ Cardinality(members \ {n}) <= Cardinality(members)
        /\ Cardinality(members) \in Nat /\ Cardinality(members \ {n}) \in Nat
    BY <2>1, FS_Subset, FS_CardinalityType
  <2> QED BY <1>2, <2>2, TableLimits
<1>20. HomeType' BY <1>2, <1>6 DEF HomeType
<1>21. NamesOf(slots)' = members' BY <1>5, <1>6 DEF NamesOf
<1>22. Cardinality(members') <= TableLimit BY <1>6, <1>8
<1> QED BY <1>7, <1>20, <1>21, <1>22 DEF TableInv

LEMMA SweepKeeps == ASSUME TableInv, RemoveRange PROVE TableInv'
<1>1. PICK first \in Named_, last \in Named_ :
         /\ slots' = Swept(slots, first..last)
         /\ members' = members \ (first..last) /\ home' = home
  BY DEF RemoveRange, Named_
<1> DEFINE range == first..last
           r == Swept(slots, range)
<1>2. HomeType /\ Whole(slots) /\ NamesOf(slots) = members /\ Cardinality(members) <= TableLimit
  BY DEF TableInv
<1>3. 0 \notin range BY TableLimits DEF Named_
<1> HIDE DEF range
<1>4. Whole(r) /\ NamesOf(r) = members \ range BY <1>2, <1>3, SweptRight
<1>5. slots' = r /\ members' = members \ range /\ home' = home BY <1>1 DEF range
<1> HIDE DEF r
<1>6. Whole(slots)' BY <1>4, <1>5 DEF Whole, Once, Chained
<1>7. Cardinality(members \ range) <= TableLimit
  <2>1. IsFiniteSet(members) BY <1>2, TableCount DEF Whole
  <2>2. /\ Cardinality(members \ range) <= Cardinality(members)
        /\ Cardinality(members) \in Nat /\ Cardinality(members \ range) \in Nat
    BY <2>1, FS_Subset, FS_CardinalityType
  <2> QED BY <1>2, <2>2, TableLimits
<1>20. HomeType' BY <1>2, <1>5 DEF HomeType
<1>21. NamesOf(slots)' = members' BY <1>4, <1>5 DEF NamesOf
<1>22. Cardinality(members') <= TableLimit BY <1>5, <1>7
<1> QED BY <1>6, <1>20, <1>21, <1>22 DEF TableInv

LEMMA TableInvShows == ASSUME TableInv PROVE NamesFound
<1>1. HomeType /\ Whole(slots) /\ NamesOf(slots) = members BY DEF TableInv
<1>2. slots \in Tables /\ Once(slots) BY <1>1 DEF Whole
<1>3. TableHoldsNames BY <1>1, <1>2, TableCount DEF TableHoldsNames, NamesOf
<1>4. TableFindsNames
  <2> SUFFICES ASSUME NEW n \in members PROVE Found(slots, n) BY DEF TableFindsNames
  <2>1. n \in Named_ BY <1>1, <1>2, TableCount
  <2> QED BY <2>1, <1>1, FoundIs
<1> QED BY <1>3, <1>4 DEF NamesFound

(* The table by itself.                                                      *)
THEOREM TableHolds == TableSpec => []NamesFound
<1>1. TableInit => TableInv BY TableInvStarts
<1>2. TableInv /\ [TableNext]_tableVars => TableInv'
  <2> SUFFICES ASSUME TableInv, [TableNext]_tableVars PROVE TableInv' OBVIOUS
  <2>1. CASE InsertName BY <2>1, InsertKeeps
  <2>2. CASE RemoveName BY <2>2, RemoveKeeps
  <2>3. CASE RemoveRange BY <2>3, SweepKeeps
  <2>4. CASE UNCHANGED tableVars
    BY <2>4 DEF tableVars, TableInv, HomeType, Whole, Once, Chained, NamesOf
  <2> QED BY <2>1, <2>2, <2>3, <2>4 DEF TableNext
<1>3. TableInv => NamesFound BY TableInvShows
<1> QED BY <1>1, <1>2, <1>3, PTL DEF TableSpec

-----------------------------------------------------------------------------
(* 2D batches in slices.  Line y of a rectangle starts y strides behind its  *)
(* first byte; lines do not overlap.  So bytes are done in the order of      *)
(* their offsets, or against it, and what is done so far is what lies before *)
(* a front.                                                                  *)

TwoDSpec == TwoDInit /\ [][TwoDNext]_twoDVars

Start(y) == y * Pitch
Lines == 0..2
Edge(c, at) ==
    IF Backwards(c) THEN Start(c.height - 1 - at.row) + RowBytes(c) - at.column
    ELSE Start(at.row) + at.column
Covered(c, at) ==
    {o \in Target(c) : IF Backwards(c) THEN o >= c.dst + Edge(c, at) ELSE o < c.dst + Edge(c, at)}
Part(c, S, v) == [o \in Offsets |-> IF o \in S THEN Done(c, v)[o] ELSE v[o]]

Place == [command : Nat, row : Lines, column : Nat]
InCommand(c, at) ==
    at \in Place /\ at.row < c.height /\ at.column < RowBytes(c) /\ at.column % c.bpp = 0

Pictures == [Offsets -> Int]

LEMMA TwoDLimits == /\ Vram \in Nat \ {0} /\ Pitch \in Nat \ {0} /\ Quantum \in Nat \ {0}
                    /\ Budgets \subseteq Nat
BY TwoDAssumption

LEMMA Starts ==
    /\ \A y \in Lines : Start(y) \in Nat
    /\ \A y, z \in Lines : y < z => Start(y) + Pitch <= Start(z)
    /\ Start(0) = 0
<1>1. Start(0) = 0 /\ Start(1) = Pitch /\ Start(2) = Pitch + Pitch BY TwoDLimits DEF Start
<1>2. \A y \in Lines : y = 0 \/ y = 1 \/ y = 2 BY DEF Lines
<1> QED BY <1>1, <1>2, TwoDLimits

(* What a rectangle is.                                                      *)
IsRectangle(c) ==
    /\ c.op \in {"fill", "copy", "invert"} /\ c.bpp \in {1, 2} /\ c.ds = Pitch
    /\ c.src \in Nat /\ c.dst \in Nat /\ c.height \in 1..3
    /\ c.height - 1 \in Lines /\ RowBytes(c) \in 1..Pitch /\ RowBytes(c) % c.bpp = 0
    /\ c.dst + Start(c.height - 1) + RowBytes(c) <= Vram
    /\ c.op = "copy" => c.src + Start(c.height - 1) + RowBytes(c) <= Vram

LEMMA CommandIs ==
    ASSUME NEW c \in Commands
    PROVE  /\ IsRectangle(c)
           /\ c \in [op : {"fill", "copy", "invert"}, bpp : {1, 2}, src : Offsets, dst : Offsets,
                     ds : Pitch..Pitch, width : 1..Pitch, height : 1..3]
<1> DEFINE R == [op : {"fill", "copy", "invert"}, bpp : {1, 2}, src : Offsets, dst : Offsets,
                 ds : Pitch..Pitch, width : 1..Pitch, height : 1..3]
<1>1. c \in R /\ ValidBatch(c) BY DEF Commands
<1>2. /\ c.op \in {"fill", "copy", "invert"} /\ c.bpp \in {1, 2} /\ c.ds = Pitch
      /\ c.src \in Nat /\ c.dst \in Nat /\ c.height \in 1..3 /\ c.width \in 1..Pitch
  BY <1>1, TwoDLimits DEF Offsets
<1>3. RowBytes(c) <= Pitch /\ RowBytes(c) = c.width * c.bpp
  BY <1>1, <1>2 DEF ValidBatch, RectFits, RowBytes
<1>4. RowBytes(c) \in 1..Pitch /\ RowBytes(c) % c.bpp = 0
  <2>1. CASE c.bpp = 1 BY <2>1, <1>2, <1>3, TwoDLimits
  <2>2. CASE c.bpp = 2 BY <2>2, <1>2, <1>3, TwoDLimits
  <2> QED BY <2>1, <2>2, <1>2
<1>5. c.height - 1 \in Lines BY <1>2 DEF Lines
<1>6. (c.height - 1) * c.ds = Start(c.height - 1) BY <1>2 DEF Start
<1>7. c.dst + Start(c.height - 1) + RowBytes(c) <= Vram
  BY <1>1, <1>6 DEF ValidBatch, RectFits
<1>8. c.op = "copy" => c.src + Start(c.height - 1) + RowBytes(c) <= Vram
  BY <1>1, <1>6 DEF ValidBatch, RectFits
<1> QED BY <1>1, <1>2, <1>4, <1>5, <1>7, <1>8 DEF IsRectangle

(* A byte of the target is byte x of line y.                                 *)
OnLine(c, o, y) == y \in 0..(c.height - 1) /\ y \in Lines /\ o - c.dst - Start(y) \in 0..(RowBytes(c) - 1)

LEMMA TargetIs ==
    ASSUME NEW c, IsRectangle(c)
    PROVE  /\ Target(c) \subseteq Offsets /\ Target(c) \subseteq Int
           /\ \A o \in Int : o \in Target(c) <=> \E y \in Lines : OnLine(c, o, y)
<1>1. \A y \in 0..(c.height - 1) : y \in Lines /\ y * c.ds = Start(y)
  BY DEF IsRectangle, Lines, Start
<1>2. ASSUME NEW o \in Int, NEW y \in Lines, OnLine(c, o, y) PROVE o \in Target(c)
  <2> DEFINE x == o - c.dst - Start(y)
  <2>1. x \in 0..(RowBytes(c) - 1) /\ y \in 0..(c.height - 1) BY <1>2 DEF OnLine
  <2>2. y * c.ds = Start(y) /\ Start(y) \in Nat BY <2>1, <1>1, Starts
  <2>3. o = c.dst + y * c.ds + x BY <2>2 DEF IsRectangle
  <2> HIDE DEF x
  <2> QED BY <2>1, <2>3 DEF Target
<1>3. ASSUME NEW o \in Target(c)
      PROVE  o \in Int /\ o \in Offsets /\ \E y \in Lines : OnLine(c, o, y)
  <2>1. PICK y \in 0..(c.height - 1), x \in 0..(RowBytes(c) - 1) : o = c.dst + y * c.ds + x
    BY DEF Target
  <2>2. y * c.ds = Start(y) /\ Start(y) \in Nat /\ y \in Lines BY <1>1, Starts
  <2>3. o = c.dst + Start(y) + x /\ c.dst \in Nat /\ RowBytes(c) \in Nat /\ x \in Nat
    BY <2>1, <2>2 DEF IsRectangle
  <2>4. OnLine(c, o, y) BY <2>2, <2>3 DEF OnLine
  <2>5. c.height - 1 \in Lines /\ (y = c.height - 1 \/ y < c.height - 1)
    BY DEF IsRectangle, Lines
  <2>6. Start(c.height - 1) \in Nat BY <2>5, Starts
  <2>7. Start(y) <= Start(c.height - 1)
    <3>1. CASE y = c.height - 1 BY <3>1, <2>2
    <3>2. CASE y < c.height - 1
      <4>1. Start(y) + Pitch <= Start(c.height - 1) BY <3>2, <2>2, <2>5, Starts
      <4> QED BY <4>1, <2>2, <2>6, TwoDLimits
    <3> QED BY <3>1, <3>2, <2>5
  <2>8. o \in Nat /\ o < Vram BY <2>2, <2>3, <2>6, <2>7, TwoDLimits DEF IsRectangle
  <2> QED BY <2>2, <2>4, <2>8, TwoDLimits DEF Offsets
<1> QED BY <1>2, <1>3

(* Where the next chunk lies, relative to the rectangle.                     *)
From(c, at, n) == IF Backwards(c) THEN Edge(c, at) - n ELSE Edge(c, at)
Piece(c, at, n) == {o \in Offsets : o - c.dst - From(c, at, n) \in 0..(n - 1)}

(* The line of the chunk, and its first byte.                                *)
Line(c, at) == IF Backwards(c) THEN c.height - 1 - at.row ELSE at.row
Column(c, at, n) == IF Backwards(c) THEN RowBytes(c) - at.column - n ELSE at.column

LEMMA Placing ==
    ASSUME NEW c, IsRectangle(c), NEW at, InCommand(c, at), NEW n \in 1..(RowBytes(c) - at.column)
    PROVE  /\ Line(c, at) \in Lines /\ Line(c, at) \in 0..(c.height - 1)
           /\ Column(c, at, n) \in 0..(RowBytes(c) - n)
           /\ From(c, at, n) = Start(Line(c, at)) + Column(c, at, n)
           /\ From(c, at, n) \in Nat /\ Edge(c, at) \in Nat
           /\ From(c, at, n) + n <= Start(c.height - 1) + RowBytes(c)
<1>1. /\ at.row \in Lines /\ at.row < c.height /\ at.column \in Nat /\ at.column < RowBytes(c)
      /\ c.height \in 1..3 /\ RowBytes(c) \in Nat /\ c.height - 1 \in Lines
  BY DEF InCommand, Place, IsRectangle
<1>2. Line(c, at) \in Lines /\ Line(c, at) \in 0..(c.height - 1) BY <1>1 DEF Line, Lines
<1>3. Column(c, at, n) \in 0..(RowBytes(c) - n) BY <1>1 DEF Column
<1>4. Start(Line(c, at)) \in Nat /\ Start(c.height - 1) \in Nat BY <1>1, <1>2, Starts
<1>5. From(c, at, n) = Start(Line(c, at)) + Column(c, at, n)
  BY <1>1, <1>4 DEF From, Edge, Line, Column
<1>6. From(c, at, n) \in Nat /\ Edge(c, at) \in Nat
  BY <1>1, <1>3, <1>4, <1>5 DEF From, Edge, Line
<1>7. Start(Line(c, at)) <= Start(c.height - 1)
  <2>1. Line(c, at) = c.height - 1 \/ Line(c, at) < c.height - 1 BY <1>1, <1>2
  <2> QED BY <2>1, <1>1, <1>2, <1>4, Starts, TwoDLimits
<1> QED BY <1>1, <1>2, <1>3, <1>4, <1>5, <1>6, <1>7

LEMMA DoneMap ==
    ASSUME NEW c, NEW v
    PROVE  Done(c, v) = [o \in Offsets |-> Done(c, v)[o]]
<1> DEFINE Value(o) == IF o \notin Target(c) THEN v[o]
                       ELSE CASE c.op = "fill" -> Painted(v[o])
                              [] c.op = "copy" -> v[c.src + (o - c.dst)]
                              [] c.op = "invert" -> Inverted(v[o])
           f == [o \in Offsets |-> Value(o)]
<1>1. Done(c, v) = f BY DEF Done
<1> HIDE DEF Value
<1>2. f = [o \in Offsets |-> f[o]] OBVIOUS
<1> HIDE DEF f
<1> QED BY <1>1, <1>2

LEMMA DoneType ==
    ASSUME NEW c, IsRectangle(c), NEW v \in Pictures
    PROVE  Done(c, v) \in Pictures
<1>1. ASSUME NEW o \in Target(c), c.op = "copy" PROVE c.src + (o - c.dst) \in Offsets
  <2>1. o \in Int BY TargetIs
  <2>2. PICK y \in Lines : OnLine(c, o, y) BY <2>1, TargetIs
  <2>3. o - c.dst - Start(y) \in 0..(RowBytes(c) - 1) /\ y \in 0..(c.height - 1) BY <2>2 DEF OnLine
  <2>4. Start(y) \in Nat /\ Start(c.height - 1) \in Nat BY Starts DEF IsRectangle
  <2>5. Start(y) <= Start(c.height - 1)
    <3>1. y = c.height - 1 \/ y < c.height - 1 BY <2>3 DEF Lines, IsRectangle
    <3> QED BY <3>1, <2>4, Starts, TwoDLimits DEF IsRectangle
  <2> QED BY <1>1, <2>1, <2>3, <2>4, <2>5, TwoDLimits DEF IsRectangle, Offsets
<1>2. ASSUME NEW o \in Offsets PROVE Done(c, v)[o] \in Int
  <2>1. CASE o \notin Target(c) BY <2>1 DEF Done, Pictures
  <2>2. CASE o \in Target(c) /\ c.op = "fill" BY <2>2 DEF Done, Painted
  <2>3. CASE o \in Target(c) /\ c.op = "copy" BY <2>3, <1>1 DEF Done, Pictures
  <2>4. CASE o \in Target(c) /\ c.op = "invert" BY <2>4 DEF Done, Pictures, Inverted
  <2>5. c.op \in {"fill", "copy", "invert"} BY DEF IsRectangle
  <2> QED BY <2>1, <2>2, <2>3, <2>4, <2>5
<1>3. Done(c, v) = [o \in Offsets |-> Done(c, v)[o]] BY DoneMap
<1> QED BY <1>2, <1>3 DEF Pictures

LEMMA PartType ==
    ASSUME NEW c, IsRectangle(c), NEW v \in Pictures, NEW S
    PROVE  Part(c, S, v) \in Pictures
BY DoneType DEF Part, Pictures

CommandRecord == [op : {"fill", "copy", "invert"}, bpp : {1, 2}, src : Int, dst : Int,
                  ds : Int, width : Int, height : Int]

(* A chunk reads nothing that an earlier chunk wrote.                        *)
LEMMA ChunkDone ==
    ASSUME NEW c \in CommandRecord, IsRectangle(c), NEW at, InCommand(c, at),
           NEW n \in 1..(RowBytes(c) - at.column), n % c.bpp = 0,
           NEW v \in Pictures, NEW s, s.at = at, s.vram = Part(c, Covered(c, at), v)
    PROVE  Chunk(c, s, n) = Part(c, Covered(c, at) \union Piece(c, at, n), v)
<1> DEFINE k == From(c, at, n)
           d == [c EXCEPT !.src = @ + Line(c, at) * c.ds + Column(c, at, n),
                          !.dst = @ + Line(c, at) * c.ds + Column(c, at, n),
                          !.height = 1, !.width = n \div c.bpp]
           u == Part(c, Covered(c, at), v)
<1>1. Chunk(c, s, n) = Done(d, u) BY DEF Chunk, Line, Column
<1>2. /\ Line(c, at) * c.ds = Start(Line(c, at)) /\ k = Start(Line(c, at)) + Column(c, at, n)
      /\ k \in Nat /\ Start(Line(c, at)) \in Nat /\ Column(c, at, n) \in Nat
  <2>1. Line(c, at) * c.ds = Start(Line(c, at)) BY DEF IsRectangle, Start
  <2>2. Line(c, at) \in Lines BY Placing
  <2>3. Start(Line(c, at)) \in Nat BY <2>2, Starts
  <2>4. RowBytes(c) - n \in Nat BY DEF IsRectangle, InCommand, Place
  <2> QED BY <2>1, <2>3, <2>4, Placing
<1>3. /\ d.op = c.op /\ d.src = c.src + k /\ d.dst = c.dst + k /\ d.height = 1
      /\ d.width = n \div c.bpp /\ d.bpp = c.bpp /\ d.ds = c.ds
  <2>1. c.src + Line(c, at) * c.ds + Column(c, at, n) = c.src + k BY <1>2 DEF IsRectangle
  <2>2. c.dst + Line(c, at) * c.ds + Column(c, at, n) = c.dst + k BY <1>2 DEF IsRectangle
  <2> HIDE DEF k
  <2> QED BY <2>1, <2>2 DEF CommandRecord
<1>4. RowBytes(d) = n
  <2>1. n \in Nat /\ c.bpp \in {1, 2} BY DEF IsRectangle, InCommand, Place
  <2>2. CASE c.bpp = 1 BY <2>1, <2>2, <1>3 DEF RowBytes
  <2>3. CASE c.bpp = 2 BY <2>1, <2>3, <1>3 DEF RowBytes
  <2> QED BY <2>1, <2>2, <2>3
<1>5. /\ c.dst \in Nat /\ c.src \in Nat /\ n \in Nat /\ c.ds \in Nat
      /\ k + n <= Start(c.height - 1) + RowBytes(c)
      /\ c.dst + Start(c.height - 1) + RowBytes(c) <= Vram
      /\ Start(c.height - 1) \in Nat /\ RowBytes(c) \in Nat
  BY Placing, Starts, TwoDLimits DEF IsRectangle, InCommand, Place
<1> HIDE DEF d, k
<1>6. Target(d) = Piece(c, at, n)
  <2>1. \A y \in 0..(d.height - 1) : y * d.ds = 0 BY <1>3, <1>5
  <2>2. ASSUME NEW o \in Piece(c, at, n) PROVE o \in Target(d)
    <3>1. o \in Int /\ o - c.dst - k \in 0..(n - 1) BY TwoDLimits DEF Piece, k, Offsets
    <3>2. 0 \in 0..(d.height - 1) /\ o - c.dst - k \in 0..(RowBytes(d) - 1) BY <1>3, <1>4, <3>1
    <3>3. o = d.dst + 0 * d.ds + (o - c.dst - k) BY <1>2, <1>3, <1>5, <3>1
    <3> QED BY <3>2, <3>3 DEF Target
  <2>3. ASSUME NEW o \in Target(d) PROVE o \in Piece(c, at, n)
    <3>1. PICK y \in 0..(d.height - 1), x \in 0..(RowBytes(d) - 1) : o = d.dst + y * d.ds + x
      BY DEF Target
    <3>2. o = c.dst + k + x /\ x \in 0..(n - 1)
      BY <2>1, <3>1, <1>2, <1>3, <1>4, <1>5
    <3>3. o \in Offsets BY <3>2, <1>2, <1>5, TwoDLimits DEF Offsets
    <3> QED BY <3>2, <3>3, <1>2, <1>5 DEF Piece, k
  <2> QED BY <2>2, <2>3
<1>7. ASSUME NEW o \in Piece(c, at, n)
      PROVE  /\ o \in Int /\ o \in Offsets /\ o - c.dst \in k..(k + n - 1)
             /\ o \in Target(c) /\ o \notin Covered(c, at)
  <2>1. o \in Int /\ o \in Offsets /\ o - c.dst - k \in 0..(n - 1)
    BY TwoDLimits DEF Piece, k, Offsets
  <2>2. o - c.dst \in k..(k + n - 1) BY <2>1, <1>2, <1>5
  <2>3. o - c.dst - Start(Line(c, at)) \in 0..(RowBytes(c) - 1)
    <3>1. Column(c, at, n) \in 0..(RowBytes(c) - n) BY Placing
    <3> QED BY <3>1, <2>1, <1>2, <1>5
  <2>4. OnLine(c, o, Line(c, at)) BY <2>3, Placing DEF OnLine
  <2>5. o \in Target(c) BY <2>1, <2>4, Placing, TargetIs
  <2>6. Edge(c, at) \in Nat /\ k = IF Backwards(c) THEN Edge(c, at) - n ELSE Edge(c, at)
    BY Placing DEF k, From
  <2>7. o \notin Covered(c, at) BY <2>2, <2>6, <2>1, <1>5 DEF Covered
  <2> QED BY <2>1, <2>2, <2>5, <2>7
<1>8. ASSUME NEW o \in Piece(c, at, n), c.op = "copy"
      PROVE  c.src + (o - c.dst) \in Offsets /\ u[c.src + (o - c.dst)] = v[c.src + (o - c.dst)]
  <2> DEFINE r == c.src + (o - c.dst)
  <2>1. r \in Int /\ r >= c.src + k /\ r <= c.src + k + n - 1 BY <1>7, <1>2, <1>5
  <2>2. c.src + Start(c.height - 1) + RowBytes(c) <= Vram BY <1>8 DEF IsRectangle
  <2>3. r \in Offsets BY <2>1, <2>2, <1>2, <1>5, TwoDLimits DEF Offsets
  <2>4. Edge(c, at) \in Nat /\ k = IF Backwards(c) THEN Edge(c, at) - n ELSE Edge(c, at)
    BY Placing DEF k, From
  <2>5. r \notin Covered(c, at)
    <3>1. CASE Backwards(c)
      <4>1. c.dst > c.src BY <3>1 DEF Backwards
      <4>2. ~(r >= c.dst + Edge(c, at)) BY <4>1, <3>1, <2>1, <2>4, <1>5
      <4> QED BY <4>2, <3>1 DEF Covered
    <3>2. CASE ~Backwards(c)
      <4>1. c.dst <= c.src BY <3>2, <1>8, <1>5 DEF Backwards
      <4>2. ~(r < c.dst + Edge(c, at)) BY <4>1, <3>2, <2>1, <2>4, <1>5
      <4> QED BY <4>2, <3>2 DEF Covered
    <3> QED BY <3>1, <3>2
  <2> HIDE DEF r
  <2>6. u[r] = v[r] BY <2>3, <2>5 DEF Part
  <2> QED BY <2>3, <2>6 DEF r
<1>9. ASSUME NEW o \in Offsets
      PROVE  Done(d, u)[o] = Part(c, Covered(c, at) \union Piece(c, at, n), v)[o]
  <2>1. CASE o \notin Piece(c, at, n)
    <3>1. Done(d, u)[o] = u[o] BY <2>1, <1>6 DEF Done
    <3> QED BY <3>1, <2>1 DEF Part
  <2>2. CASE o \in Piece(c, at, n)
    <3>1. Part(c, Covered(c, at) \union Piece(c, at, n), v)[o] = Done(c, v)[o] BY <2>2 DEF Part
    <3>2. o \in Target(d) /\ o \in Target(c) BY <2>2, <1>6, <1>7
    <3>3. CASE c.op = "fill" BY <3>1, <3>2, <3>3, <1>3 DEF Done, Painted
    <3>4. CASE c.op = "invert"
      <4>1. u[o] = v[o] BY <2>2, <1>7 DEF Part
      <4> QED BY <3>1, <3>2, <3>4, <4>1, <1>3 DEF Done
    <3>5. CASE c.op = "copy"
      <4>1. d.src + (o - d.dst) = c.src + (o - c.dst) BY <1>2, <1>3, <1>5, <1>7, <2>2
      <4>2. Done(d, u)[o] = u[d.src + (o - d.dst)] BY <3>2, <3>5, <1>3 DEF Done
      <4>3. Done(c, v)[o] = v[c.src + (o - c.dst)] BY <3>2, <3>5 DEF Done
      <4> HIDE DEF u
      <4> QED BY <3>1, <4>1, <4>2, <4>3, <1>8, <2>2, <3>5
    <3> QED BY <3>3, <3>4, <3>5 DEF IsRectangle
  <2> QED BY <2>1, <2>2
<1>10. Done(d, u) = [o \in Offsets |-> Done(d, u)[o]] BY DoneMap
<1>11. Part(c, Covered(c, at) \union Piece(c, at, n), v)
       = [o \in Offsets |-> Part(c, Covered(c, at) \union Piece(c, at, n), v)[o]] BY DEF Part
<1> HIDE DEF u
<1> QED BY <1>1, <1>9, <1>10, <1>11

(* The front of the next chunk is behind this one.                           *)
AfterChunk(c, at, n) ==
    IF at.column + n < RowBytes(c) THEN [at EXCEPT !.column = @ + n]
    ELSE [at EXCEPT !.row = @ + 1, !.column = 0]

LEMMA EdgeMoves ==
    ASSUME NEW c, IsRectangle(c), NEW at, InCommand(c, at),
           NEW n \in 1..(RowBytes(c) - at.column), n % c.bpp = 0
    PROVE  /\ at.column + n < RowBytes(c) \/ at.row + 1 < c.height =>
                /\ InCommand(c, AfterChunk(c, at, n))
                /\ Covered(c, AfterChunk(c, at, n)) = Covered(c, at) \union Piece(c, at, n)
           /\ at.column + n = RowBytes(c) /\ at.row + 1 = c.height =>
                Target(c) = Covered(c, at) \union Piece(c, at, n)
<1>1. /\ at.row \in Lines /\ at.row < c.height /\ at.column \in Nat /\ at.column < RowBytes(c)
      /\ c.height \in 1..3 /\ RowBytes(c) \in 1..Pitch /\ c.height - 1 \in Lines
      /\ c.bpp \in {1, 2} /\ at \in Place /\ c.dst \in Nat /\ at.column % c.bpp = 0
      /\ RowBytes(c) \in Nat /\ n \in Nat
  BY DEF InCommand, Place, IsRectangle
<1> DEFINE l == Line(c, at)
           p == Piece(c, at, n)
<1>2. /\ l \in Lines /\ l \in 0..(c.height - 1) /\ Start(l) \in Nat
      /\ From(c, at, n) = Start(l) + Column(c, at, n) /\ Edge(c, at) \in Nat
      /\ From(c, at, n) \in Nat
  BY Placing, Starts
<1>3. ASSUME NEW o \in Target(c)
      PROVE  \E y \in Lines : /\ y \in 0..(c.height - 1) /\ Start(y) \in Nat
                              /\ o - c.dst - Start(y) \in 0..(RowBytes(c) - 1)
                              /\ y < l => Start(y) + Pitch <= Start(l)
                              /\ y > l => Start(l) + Pitch <= Start(y)
  <2>1. o \in Int BY TargetIs
  <2>2. PICK y \in Lines : OnLine(c, o, y) BY <2>1, TargetIs
  <2>3. y \in 0..(c.height - 1) /\ o - c.dst - Start(y) \in 0..(RowBytes(c) - 1) BY <2>2 DEF OnLine
  <2>4. y < l => Start(y) + Pitch <= Start(l) BY <1>2, Starts
  <2>5. y > l => Start(l) + Pitch <= Start(y)
    <3>1. y > l => l < y BY <1>2 DEF Lines
    <3> QED BY <3>1, <1>2, Starts
  <2> QED BY <2>3, <2>4, <2>5, Starts
<1>4. \A o \in p : o \in Int /\ o \in Target(c)
  <2> TAKE o \in p
  <2>1. o \in Int /\ o - c.dst - From(c, at, n) \in 0..(n - 1) BY TwoDLimits DEF Piece, Offsets
  <2>2. Column(c, at, n) \in 0..(RowBytes(c) - n) BY Placing
  <2>3. o - c.dst - Start(l) \in 0..(RowBytes(c) - 1) BY <2>1, <2>2, <1>1, <1>2
  <2>4. OnLine(c, o, l) BY <1>2, <2>3 DEF OnLine
  <2> HIDE DEF l
  <2> QED BY <1>2, <2>1, <2>4, TargetIs
<1>5. ASSUME NEW o \in Target(c)
      PROVE  o \in Int /\ (o \in p <=> o - c.dst - From(c, at, n) \in 0..(n - 1))
  BY TargetIs DEF Piece
<1>6. CASE at.column + n < RowBytes(c)
  <2> DEFINE to == [at EXCEPT !.column = @ + n]
  <2>1. AfterChunk(c, at, n) = to BY <1>6 DEF AfterChunk
  <2>2. /\ to \in Place /\ to.row = at.row /\ to.column = at.column + n
        /\ to.command = at.command
    BY <1>1 DEF Place
  <2>3. (at.column + n) % c.bpp = 0
    <3>1. CASE c.bpp = 1 BY <3>1, <1>1
    <3>2. CASE c.bpp = 2 BY <3>2, <1>1
    <3> QED BY <3>1, <3>2, <1>1
  <2> HIDE DEF to
  <2>4. InCommand(c, to) BY <2>2, <2>3, <1>1, <1>6 DEF InCommand
  <2>5. Edge(c, to) = IF Backwards(c) THEN Edge(c, at) - n ELSE Edge(c, at) + n
    <3>1. Start(c.height - 1 - at.row) \in Nat \/ ~Backwards(c) BY <1>2 DEF Line
    <3>2. Start(at.row) \in Nat BY <1>1, Starts
    <3> QED BY <3>1, <3>2, <2>2, <1>1 DEF Edge
  <2>6. ASSUME NEW o \in Target(c)
        PROVE  o \in Covered(c, to) <=> o \in Covered(c, at) \/ o \in p
    BY <1>5, <2>5, <1>1, <1>2 DEF Covered, From
  <2>7. Covered(c, to) = Covered(c, at) \union p BY <2>6, <1>4 DEF Covered
  <2>8. at.column + n # RowBytes(c) BY <1>6, <1>1
  <2> QED BY <2>1, <2>4, <2>7, <2>8
<1>7. CASE at.column + n = RowBytes(c)
  <2>1. From(c, at, n) = Start(l) + (IF Backwards(c) THEN 0 ELSE at.column)
    BY <1>1, <1>2, <1>7 DEF Column
  <2>2. Edge(c, at) = Start(l) + (IF Backwards(c) THEN n ELSE at.column)
    BY <2>1, <1>1, <1>2, <1>7 DEF From
  <2>3. ASSUME NEW o \in Target(c)
        PROVE  o \in Covered(c, at) \/ o \in p <=>
                 IF Backwards(c) THEN o - c.dst >= Start(l) ELSE o - c.dst < Start(l) + RowBytes(c)
    <3>1. o \in Int /\ (o \in p <=> o - c.dst - From(c, at, n) \in 0..(n - 1)) BY <1>5
    <3> HIDE DEF l, p
    <3>2. CASE Backwards(c)
      <4>1. o \in Covered(c, at) <=> o - c.dst >= Start(l) + n
        BY <3>1, <3>2, <2>2, <1>1, <1>2 DEF Covered
      <4>2. o \in p <=> o - c.dst >= Start(l) /\ o - c.dst < Start(l) + n
        BY <3>1, <3>2, <2>1, <1>1, <1>2
      <4> QED BY <3>1, <3>2, <4>1, <4>2, <1>1, <1>2
    <3>3. CASE ~Backwards(c)
      <4>1. o \in Covered(c, at) <=> o - c.dst < Start(l) + at.column
        BY <3>1, <3>3, <2>2, <1>1, <1>2 DEF Covered
      <4>2. o \in p <=> /\ o - c.dst >= Start(l) + at.column
                       /\ o - c.dst < Start(l) + RowBytes(c)
        BY <3>1, <3>3, <2>1, <1>1, <1>2, <1>7
      <4> QED BY <3>1, <3>3, <4>1, <4>2, <1>1, <1>2, <1>7
    <3> QED BY <3>2, <3>3
  <2>4. CASE at.row + 1 < c.height
    <3> DEFINE to == [at EXCEPT !.row = @ + 1, !.column = 0]
    <3>1. AfterChunk(c, at, n) = to BY <1>1, <1>7 DEF AfterChunk
    <3>2. at.row + 1 \in Lines BY <2>4, <1>1 DEF Lines
    <3>3. to \in Place /\ to.row = at.row + 1 /\ to.column = 0 BY <3>2, <1>1 DEF Place
    <3> HIDE DEF to
    <3>4. InCommand(c, to) BY <3>3, <2>4, <1>1 DEF InCommand
    <3> DEFINE m == IF Backwards(c) THEN l - 1 ELSE l + 1
    <3>5. m \in Lines /\ m \in 0..(c.height - 1) BY <2>4, <1>1, <3>2 DEF Line, Lines
    <3>6. Edge(c, to) = Start(m) + IF Backwards(c) THEN RowBytes(c) ELSE 0
      <4>1. CASE Backwards(c)
        <5>1. c.height - 1 - to.row = m
          <6>1. m = l - 1 /\ l = c.height - 1 - at.row BY <4>1 DEF Line
          <6> HIDE DEF m, l
          <6> QED BY <6>1, <3>3, <1>1 DEF Lines
        <5> HIDE DEF m
        <5> QED BY <4>1, <5>1, <3>3, <3>5, <1>1, Starts DEF Edge
      <4>2. CASE ~Backwards(c)
        <5>1. to.row = m
          <6>1. m = l + 1 /\ l = at.row BY <4>2 DEF Line
          <6> HIDE DEF m, l
          <6> QED BY <6>1, <3>3, <1>1 DEF Lines
        <5> HIDE DEF m
        <5> QED BY <4>2, <5>1, <3>3, <3>5, <1>1, Starts DEF Edge
      <4> QED BY <4>1, <4>2
    <3>7. ASSUME NEW o \in Target(c)
          PROVE  o \in Covered(c, to) <=> o \in Covered(c, at) \/ o \in p
      <4>1. PICK y \in Lines : OnLine(c, o, y) /\ o \in Int BY TargetIs
      <4>2. /\ y \in 0..(c.height - 1) /\ o - c.dst - Start(y) \in 0..(RowBytes(c) - 1)
            /\ Start(y) \in Nat /\ Start(m) \in Nat
        BY <4>1, <3>5, Starts DEF OnLine
      <4>3. CASE Backwards(c)
        <5>1. m = l - 1 BY <4>3
        <5>2. CASE y >= l
          <6>1. Start(l) <= Start(y) /\ Start(m) + Pitch <= Start(l)
            <7>1. y = l \/ l < y BY <5>2, <1>2 DEF Lines
            <7>2. m < l BY <5>1, <1>2 DEF Lines
            <7> HIDE DEF l, m
            <7> QED BY <7>1, <7>2, <1>2, <3>5, <4>2, Starts, TwoDLimits
          <6> HIDE DEF l, m, p
          <6>2. o - c.dst >= Start(l) /\ o >= c.dst + Edge(c, to)
            BY <6>1, <4>1, <4>2, <4>3, <3>6, <1>1, <1>2, TwoDLimits
          <6> QED BY <6>2, <4>3, <2>3 DEF Covered
        <5>3. CASE y < l
          <6>1. Start(y) + Pitch <= Start(l) /\ Start(y) <= Start(m)
            <7>1. y = m \/ y < m BY <5>1, <5>3, <1>2 DEF Lines
            <7> HIDE DEF l, m
            <7> QED BY <7>1, <5>3, <1>2, <3>5, <4>2, Starts, TwoDLimits
          <6> HIDE DEF l, m, p
          <6>2. ~(o - c.dst >= Start(l)) /\ ~(o >= c.dst + Edge(c, to))
            BY <6>1, <4>1, <4>2, <4>3, <3>6, <1>1, <1>2, TwoDLimits
          <6> QED BY <6>2, <4>3, <2>3 DEF Covered
        <5> QED BY <5>2, <5>3, <1>2 DEF Lines
      <4>4. CASE ~Backwards(c)
        <5>1. m = l + 1 BY <4>4
        <5>2. CASE y <= l
          <6>1. Start(y) <= Start(l) /\ Start(l) + Pitch <= Start(m)
            <7>1. y = l \/ y < l BY <5>2, <1>2 DEF Lines
            <7>2. l < m BY <5>1, <1>2 DEF Lines
            <7> HIDE DEF l, m
            <7> QED BY <7>1, <7>2, <1>2, <3>5, <4>2, Starts, TwoDLimits
          <6> HIDE DEF l, m, p
          <6>2. o - c.dst < Start(l) + RowBytes(c) /\ o < c.dst + Edge(c, to)
            BY <6>1, <4>1, <4>2, <4>4, <3>6, <1>1, <1>2, TwoDLimits
          <6> QED BY <6>2, <4>4, <2>3 DEF Covered
        <5>3. CASE y > l
          <6>1. Start(l) + Pitch <= Start(y) /\ Start(m) <= Start(y)
            <7>1. l < y /\ (y = m \/ m < y) BY <5>1, <5>3, <1>2 DEF Lines
            <7> HIDE DEF l, m
            <7> QED BY <7>1, <1>2, <3>5, <4>2, Starts, TwoDLimits
          <6> HIDE DEF l, m, p
          <6>2. ~(o - c.dst < Start(l) + RowBytes(c)) /\ ~(o < c.dst + Edge(c, to))
            BY <6>1, <4>1, <4>2, <4>4, <3>6, <1>1, <1>2, TwoDLimits
          <6> QED BY <6>2, <4>4, <2>3 DEF Covered
        <5> QED BY <5>2, <5>3, <1>2 DEF Lines
      <4> QED BY <4>3, <4>4
    <3>8. Covered(c, to) = Covered(c, at) \union p BY <3>7, <1>4 DEF Covered
    <3> QED BY <3>1, <3>4, <3>8, <2>4, <1>1
  <2>5. CASE at.row + 1 = c.height
    <3>1. ASSUME NEW o \in Target(c) PROVE o \in Covered(c, at) \/ o \in p
      <4>1. PICK y \in Lines : OnLine(c, o, y) /\ o \in Int BY TargetIs
      <4>2. /\ y \in 0..(c.height - 1) /\ o - c.dst - Start(y) \in 0..(RowBytes(c) - 1)
            /\ Start(y) \in Nat
        BY <4>1, Starts DEF OnLine
      <4>3. CASE Backwards(c)
        <5>1. l = 0
          <6>1. l = c.height - 1 - at.row BY <4>3 DEF Line
          <6> HIDE DEF l
          <6> QED BY <6>1, <2>5, <1>1 DEF Lines
        <5>2. o - c.dst >= Start(l) BY <5>1, <4>1, <4>2, <1>1, Starts
        <5> HIDE DEF l, p
        <5> QED BY <5>2, <4>3, <2>3
      <4>4. CASE ~Backwards(c)
        <5>1. l = c.height - 1
          <6>1. l = at.row BY <4>4 DEF Line
          <6> HIDE DEF l
          <6> QED BY <6>1, <2>5, <1>1 DEF Lines
        <5>2. Start(y) <= Start(l)
          <6>1. y = l \/ y < l BY <5>1, <4>2, <1>1
          <6> HIDE DEF l
          <6> QED BY <6>1, <1>2, <4>2, Starts, TwoDLimits
        <5>3. o - c.dst < Start(l) + RowBytes(c) BY <5>2, <4>1, <4>2, <1>1, <1>2
        <5> HIDE DEF l, p
        <5> QED BY <5>3, <4>4, <2>3
      <4> QED BY <4>3, <4>4
    <3>2. Covered(c, at) \subseteq Target(c) BY DEF Covered
    <3>3. Target(c) = Covered(c, at) \union p BY <3>1, <3>2, <1>4
    <3>4. ~(at.column + n < RowBytes(c)) /\ ~(at.row + 1 < c.height) BY <2>5, <1>1, <1>7
    <3> QED BY <3>3, <3>4
  <2>6. at.row + 1 < c.height \/ at.row + 1 = c.height BY <1>1 DEF Lines
  <2> QED BY <2>4, <2>5, <2>6
<1> QED BY <1>6, <1>7, <1>1

(* Nothing is covered at the start of a command, and a command whose target  *)
(* is covered is done.                                                       *)
LEMMA CoveredStarts ==
    ASSUME NEW c, IsRectangle(c), NEW at \in Place, at.row = 0, at.column = 0
    PROVE  InCommand(c, at) /\ Covered(c, at) = {}
<1>1. /\ c.height \in 1..3 /\ RowBytes(c) \in 1..Pitch /\ c.height - 1 \in Lines /\ c.dst \in Nat
      /\ c.bpp \in {1, 2} /\ Start(c.height - 1) \in Nat /\ Start(0) = 0
  BY Starts DEF IsRectangle
<1>2. InCommand(c, at)
  <2>1. 0 % c.bpp = 0 BY <1>1
  <2> QED BY <1>1, <2>1, TwoDLimits DEF InCommand
<1>3. ASSUME NEW o \in Target(c) PROVE o \notin Covered(c, at)
  <2>1. PICK y \in Lines : OnLine(c, o, y) /\ o \in Int BY TargetIs
  <2>2. /\ y \in 0..(c.height - 1) /\ o - c.dst - Start(y) \in 0..(RowBytes(c) - 1)
        /\ Start(y) \in Nat
    BY <2>1, Starts DEF OnLine
  <2>3. CASE Backwards(c)
    <3>1. y = c.height - 1 \/ y < c.height - 1 BY <1>1, <2>2
    <3>2. Start(y) <= Start(c.height - 1) BY <3>1, <1>1, <2>2, Starts, TwoDLimits
    <3>3. Edge(c, at) = Start(c.height - 1) + RowBytes(c) BY <2>3, <1>1, TwoDLimits DEF Edge
    <3>4. ~(o >= c.dst + Edge(c, at)) BY <3>2, <3>3, <2>1, <2>2, <1>1, TwoDLimits
    <3> QED BY <3>4, <2>3 DEF Covered
  <2>4. CASE ~Backwards(c)
    <3>1. Edge(c, at) = 0 BY <2>4, <1>1 DEF Edge
    <3>2. ~(o < c.dst + Edge(c, at)) BY <3>1, <2>1, <2>2, <1>1, TwoDLimits
    <3> QED BY <3>2, <2>4 DEF Covered
  <2> QED BY <2>3, <2>4
<1>4. Covered(c, at) = {} BY <1>3 DEF Covered
<1> QED BY <1>2, <1>4

LEMMA PartEnds ==
    ASSUME NEW c, IsRectangle(c), NEW v \in Pictures
    PROVE  Part(c, {}, v) = v /\ Part(c, Target(c), v) = Done(c, v)
<1>1. Part(c, {}, v) = v BY DEF Part, Pictures
<1>2. ASSUME NEW o \in Offsets PROVE Part(c, Target(c), v)[o] = Done(c, v)[o]
  <2>1. CASE o \in Target(c) BY <2>1 DEF Part
  <2>2. CASE o \notin Target(c) BY <2>2 DEF Part, Done
  <2> QED BY <2>1, <2>2
<1>3. Part(c, Target(c), v) \in Pictures /\ Done(c, v) \in Pictures BY PartType, DoneType
<1> QED BY <1>1, <1>2, <1>3 DEF Pictures

-----------------------------------------------------------------------------
(* The loop.                                                                 *)

First == [o \in Offsets |-> o + 2]
Before(k) == CASE k = 0 -> First
               [] k = 1 -> Done(batch[1], First)
               [] OTHER -> Done(batch[2], Done(batch[1], First))

BatchInv ==
    /\ Len(batch) \in 1..2 /\ \A k \in 1..Len(batch) : batch[k] \in Commands
    /\ whole = Before(Len(batch))

Current(at) == batch[at.command + 1]
Reached(at, v) ==
    /\ at \in Place /\ at.command <= Len(batch)
    /\ at.command = Len(batch) => v = Before(Len(batch))
    /\ at.command < Len(batch) =>
         /\ InCommand(Current(at), at)
         /\ v = Part(Current(at), Covered(Current(at), at), Before(at.command))

TwoDInv == BatchInv /\ vram \in Pictures /\ Reached(progress, vram)

Loop == [vram : Pictures, at : Place, left : Nat, stopped : BOOLEAN]
Going == {s \in Loop : Reached(s.at, s.vram)}

LEMMA FirstPicture == First \in Pictures
BY TwoDLimits DEF First, Pictures, Offsets

LEMMA BeforeType ==
    ASSUME BatchInv, NEW k \in 0..Len(batch)
    PROVE  /\ Before(k) \in Pictures
           /\ k < Len(batch) => /\ batch[k + 1] \in Commands /\ IsRectangle(batch[k + 1])
                                /\ Before(k + 1) = Done(batch[k + 1], Before(k))
<1>1. Len(batch) \in 1..2 /\ \A j \in 1..Len(batch) : batch[j] \in Commands /\ IsRectangle(batch[j])
  BY CommandIs DEF BatchInv
<1>2. Before(0) = First BY DEF Before
<1>3. Before(1) = Done(batch[1], First) BY DEF Before
<1>4. Before(2) = Done(batch[2], Done(batch[1], First)) BY DEF Before
<1>5. 1 \in 1..Len(batch) BY <1>1
<1>6. Before(0) \in Pictures /\ Before(1) \in Pictures
  BY <1>1, <1>2, <1>3, <1>5, FirstPicture, DoneType
<1>7. CASE k = 0 BY <1>7, <1>1, <1>2, <1>3, <1>5, <1>6
<1>8. CASE k = 1
  <2>1. k < Len(batch) => Len(batch) = 2 /\ 2 \in 1..Len(batch) BY <1>8, <1>1
  <2> QED BY <2>1, <1>8, <1>1, <1>3, <1>4, <1>6
<1>9. CASE k = 2
  <2>1. Len(batch) = 2 /\ 2 \in 1..Len(batch) /\ ~(k < Len(batch)) BY <1>9, <1>1
  <2>2. IsRectangle(batch[2]) BY <2>1, <1>1
  <2>3. Before(2) \in Pictures BY <2>2, <1>3, <1>4, <1>6, DoneType
  <2> QED BY <2>1, <2>3, <1>9
<1> QED BY <1>7, <1>8, <1>9, <1>1

LEMMA LoopKeeps ==
    ASSUME BatchInv, NEW s \in Going
    PROVE  LoopStep(s) \in Going
<1>1. s \in Loop /\ Reached(s.at, s.vram) BY DEF Going
<1>2. CASE s.stopped \/ Finished(s.at) \/ s.left = 0
  BY <1>2 DEF LoopStep
<1>3. CASE ~(s.stopped \/ Finished(s.at) \/ s.left = 0)
  <2> DEFINE at == s.at
             c == batch[at.command + 1]
             room == Min({RowBytes(c) - at.column, s.left})
             n == room - (room % c.bpp)
  <2>1. /\ at \in Place /\ at.command \in Nat /\ s.left \in Nat \ {0} /\ s.vram \in Pictures
        /\ at.command < Len(batch) /\ at.command \in 0..Len(batch) /\ at.row \in Lines
        /\ at.column \in Nat
    BY <1>1, <1>3 DEF Loop, Place, Reached, Finished, BatchInv
  <2>2. c \in Commands /\ IsRectangle(c) /\ Before(at.command) \in Pictures
        /\ Before(at.command + 1) = Done(c, Before(at.command))
    BY <2>1, BeforeType
  <2>3. /\ InCommand(c, at)
        /\ s.vram = Part(c, Covered(c, at), Before(at.command))
    BY <1>1, <2>1 DEF Reached, Current
  <2>4. /\ RowBytes(c) \in Nat /\ c.bpp \in {1, 2} /\ at.column < RowBytes(c) /\ at.column % c.bpp = 0
        /\ at.row < c.height /\ c.height \in 1..3 /\ RowBytes(c) % c.bpp = 0
    BY <2>2, <2>3, TwoDLimits DEF IsRectangle, InCommand
  <2>5. c \in CommandRecord
    <3>1. c \in [op : {"fill", "copy", "invert"}, bpp : {1, 2}, src : Offsets, dst : Offsets,
                 ds : Pitch..Pitch, width : 1..Pitch, height : 1..3]
      BY <2>2, CommandIs
    <3> HIDE DEF c
    <3> QED BY <3>1, TwoDLimits DEF CommandRecord, Offsets
  <2> HIDE DEF at, c
  <2>6. room \in Nat /\ room <= RowBytes(c) - at.column /\ room <= s.left
    <3> DEFINE a == RowBytes(c) - at.column
               P(x) == x \in {a, s.left} /\ \A y \in {a, s.left} : x <= y
    <3>1. a \in Nat /\ s.left \in Nat BY <2>1, <2>4
    <3>2. \E x : P(x)
      <4> HIDE DEF a
      <4>1. P(a) \/ P(s.left) BY <3>1
      <4> QED BY <4>1
    <3>3. P(CHOOSE x : P(x)) BY <3>2
    <3>4. room = CHOOSE x : P(x) BY DEF Min
    <3>5. P(room) BY <3>3, <3>4
    <3> HIDE DEF room
    <3> QED BY <3>1, <3>5
  <2> HIDE DEF room
  <2>7. n \in Nat /\ n <= room /\ n % c.bpp = 0
    <3>1. CASE c.bpp = 1 BY <3>1, <2>6
    <3>2. CASE c.bpp = 2 BY <3>2, <2>6
    <3> QED BY <3>1, <3>2, <2>4
  <2>8. LoopStep(s) = IF n = 0 THEN [s EXCEPT !.stopped = TRUE]
                      ELSE [s EXCEPT !.vram = Chunk(c, s, n), !.at = Advanced(c, s.at, n), !.left = @ - n]
    BY <1>3 DEF LoopStep, room, c, at
  <2> HIDE DEF n
  <2>9. CASE n = 0
    <3> DEFINE t == [s EXCEPT !.stopped = TRUE]
    <3>1. t \in Loop /\ t.at = s.at /\ t.vram = s.vram BY <1>1 DEF Loop
    <3>2. LoopStep(s) = t BY <2>8, <2>9
    <3> HIDE DEF t
    <3> QED BY <1>1, <3>1, <3>2 DEF Going
  <2>10. CASE n # 0
    <3>1. n \in 1..(RowBytes(c) - at.column)
      <4>1. n >= 1 /\ n <= RowBytes(c) - at.column BY <2>1, <2>10, <2>4, <2>6, <2>7
      <4> QED BY <4>1, <2>1, <2>4, <2>7
    <3> DEFINE w == Chunk(c, s, n)
               to == Advanced(c, at, n)
               t == [s EXCEPT !.vram = w, !.at = to, !.left = @ - n]
    <3>2. LoopStep(s) = t BY <2>8, <2>10 DEF at
    <3>3. w = Part(c, Covered(c, at) \union Piece(c, at, n), Before(at.command))
      BY <2>2, <2>3, <2>5, <2>7, <3>1, ChunkDone DEF at
    <3>4. w \in Pictures BY <2>2, <3>3, PartType
    <3> HIDE DEF w
    <3>5. to \in Place /\ Reached(to, w)
      <4>1. CASE at.column + n < RowBytes(c) \/ at.row + 1 < c.height
        <5>1. to = AfterChunk(c, at, n) BY <4>1 DEF Advanced, AfterChunk
        <5>2. InCommand(c, to) /\ w = Part(c, Covered(c, to), Before(at.command))
          BY <4>1, <5>1, <2>2, <2>3, <2>7, <3>1, <3>3, EdgeMoves
        <5>3. to.command = at.command BY <5>1, <2>1 DEF AfterChunk, Place
        <5>4. to \in Place BY <5>2 DEF InCommand
        <5> HIDE DEF to
        <5> QED BY <5>2, <5>3, <5>4, <2>1 DEF Reached, Current, c
      <4>2. CASE ~(at.column + n < RowBytes(c) \/ at.row + 1 < c.height)
        <5>1. at.column + n = RowBytes(c) /\ at.row + 1 = c.height
          BY <4>2, <3>1, <2>1, <2>4 DEF Lines
        <5>2. w = Part(c, Target(c), Before(at.command))
          BY <5>1, <2>2, <2>3, <2>7, <3>1, <3>3, EdgeMoves
        <5>3. w = Before(at.command + 1) BY <5>2, <2>2, PartEnds
        <5>4. to = [command |-> at.command + 1, row |-> 0, column |-> 0] BY <4>2 DEF Advanced
        <5>5. to \in Place /\ to.command = at.command + 1 /\ to.row = 0 /\ to.column = 0
          BY <5>4, <2>1 DEF Place, Lines
        <5> HIDE DEF to
        <5>6. CASE at.command + 1 = Len(batch)
          BY <5>3, <5>5, <5>6, <2>1 DEF Reached
        <5>7. CASE at.command + 1 < Len(batch)
          <6> DEFINE d == Current(to)
          <6>1. at.command + 1 \in 0..Len(batch) BY <5>7, <2>1
          <6>2. IsRectangle(d) /\ Before(at.command + 1) \in Pictures
            BY <6>1, <5>5, <5>7, BeforeType DEF Current
          <6> HIDE DEF d
          <6>3. InCommand(d, to) /\ Covered(d, to) = {} BY <6>2, <5>5, CoveredStarts
          <6>4. w = Part(d, Covered(d, to), Before(to.command)) BY <6>2, <6>3, <5>3, <5>5, PartEnds
          <6>5. to.command < Len(batch) /\ ~(to.command = Len(batch)) /\ to.command <= Len(batch)
            BY <5>5, <5>7, <2>1 DEF BatchInv
          <6> QED BY <6>3, <6>4, <6>5, <5>5 DEF Reached, d
        <5>8. at.command + 1 <= Len(batch) BY <2>1 DEF BatchInv
        <5> QED BY <5>6, <5>7, <5>8, <2>1 DEF BatchInv
      <4> QED BY <4>1, <4>2
    <3> HIDE DEF to
    <3>6. s.left - n \in Nat BY <2>1, <2>6, <2>7
    <3>7. t \in Loop /\ t.at = to /\ t.vram = w BY <1>1, <3>4, <3>5, <3>6 DEF Loop
    <3> HIDE DEF t
    <3> QED BY <3>2, <3>5, <3>7 DEF Going
  <2> QED BY <2>9, <2>10
<1> QED BY <1>2, <1>3

(* A slice is the loop, Quantum times.                                       *)
LEMMA SliceKeeps == ASSUME TwoDInv, Execute PROVE TwoDInv'
<1>1. PICK budget \in Budgets :
        LET end == FoldLeft(LAMBDA s, k : LoopStep(s),
                            [vram |-> vram, at |-> progress, left |-> budget, stopped |-> FALSE],
                            [k \in 1..Quantum |-> k])
        IN /\ vram' = end.vram /\ progress' = end.at
           /\ UNCHANGED <<batch, whole>>
  BY DEF Execute
<1> DEFINE base == [vram |-> vram, at |-> progress, left |-> budget, stopped |-> FALSE]
           seq == [k \in 1..Quantum |-> k]
           F == [p \in Going \X (1..Quantum) |-> LoopStep(p[1])]
           Runs(f) == f = [S \in SUBSET (DOMAIN seq) |->
                             IF S = {} THEN base ELSE LoopStep(f[S \ {Max(S)}])]
           g == CHOOSE f : Runs(f)
<1>2. Quantum \in Nat /\ DOMAIN seq = 1..Quantum BY TwoDLimits
<1>3. base \in Going
  <2>1. base \in Loop /\ base.at = progress /\ base.vram = vram
    BY TwoDLimits DEF Loop, TwoDInv, Reached
  <2> HIDE DEF base
  <2> QED BY <2>1 DEF Going, TwoDInv
<1>4. F \in [Going \X (1..Quantum) -> Going]
  <2>1. \A p \in Going \X (1..Quantum) : LoopStep(p[1]) \in Going BY LoopKeeps DEF TwoDInv
  <2> QED BY <2>1
<1>5. PICK f \in [SUBSET (1..Quantum) -> Going] : Folded(f, F, base, Quantum)
  <2> HIDE DEF base, F
  <2> QED BY <1>2, <1>3, <1>4, FoldExists
<1>6. Runs(f)
  <2>1. ASSUME NEW S \in SUBSET (1..Quantum), S # {}
        PROVE  F[<<f[S \ {Max(S)}], Max(S)>>] = LoopStep(f[S \ {Max(S)}])
    <3>1. Max(S) \in S /\ S \ {Max(S)} \in SUBSET (1..Quantum) BY <1>2, <2>1, MaxOf
    <3>2. Max(S) \in 1..Quantum BY <3>1
    <3>3. f[S \ {Max(S)}] \in Going BY <3>1, <1>5
    <3>4. <<f[S \ {Max(S)}], Max(S)>> \in Going \X (1..Quantum) BY <3>2, <3>3
    <3> QED BY <3>4
  <2>2. f = [S \in SUBSET (1..Quantum) |->
               IF S = {} THEN base ELSE F[<<f[S \ {Max(S)}], Max(S)>>]]
    BY <1>5 DEF Folded
  <2>3. [S \in SUBSET (1..Quantum) |-> IF S = {} THEN base ELSE F[<<f[S \ {Max(S)}], Max(S)>>]]
        = [S \in SUBSET (1..Quantum) |-> IF S = {} THEN base ELSE LoopStep(f[S \ {Max(S)}])]
    <3> HIDE DEF F, base
    <3> QED BY <2>1
  <2> HIDE DEF seq, F, base
  <2> QED BY <1>2, <2>2, <2>3
<1>7. Runs(g) BY <1>6
<1>8. FoldLeft(LAMBDA s, k : LoopStep(s), base, seq) = g[DOMAIN seq]
  BY DEF FoldLeft, MapThenFoldSet
<1>9. g[1..Quantum] \in Going
  <2>1. g[{}] = base
    <3> HIDE DEF g, base, seq
    <3> QED BY <1>2, <1>7
  <2>2. \A S \in SUBSET (1..Quantum) : S # {} /\ g[S \ {Max(S)}] \in Going
           => g[S] = F[<<g[S \ {Max(S)}], Max(S)>>]
    <3> TAKE S \in SUBSET (1..Quantum)
    <3> HAVE S # {} /\ g[S \ {Max(S)}] \in Going
    <3>1. Max(S) \in 1..Quantum BY <1>2, MaxOf
    <3>2. <<g[S \ {Max(S)}], Max(S)>> \in Going \X (1..Quantum)
      <4> HIDE DEF g
      <4> QED BY <3>1
    <3>3. g[S] = LoopStep(g[S \ {Max(S)}])
      <4> HIDE DEF g, base, seq
      <4> QED BY <1>2, <1>7
    <3> HIDE DEF g
    <3> QED BY <3>2, <3>3
  <2> HIDE DEF g, base, F
  <2>3. PICK C : StagesOf(C, g, Going, F, base, Quantum)
    <3>1. Staged(g, Going, F, base, Quantum) BY <2>1, <2>2 DEF Staged
    <3> QED BY <1>2, <1>3, <1>4, <3>1, FoldStages
  <2>4. Quantum \in 0..Quantum BY <1>2
  <2> QED BY <2>3, <2>4 DEF StagesOf
<1> DEFINE end == g[1..Quantum]
<1>10. vram' = end.vram /\ progress' = end.at /\ batch' = batch /\ whole' = whole
  <2> HIDE DEF g
  <2> QED BY <1>1, <1>2, <1>8
<1>11. end \in Loop /\ Reached(end.at, end.vram)
  <2> HIDE DEF g
  <2> QED BY <1>9 DEF Going
<1> HIDE DEF end
<1>12. vram' \in Pictures BY <1>10, <1>11 DEF Loop
<1>13. BatchInv' BY <1>10 DEF TwoDInv, BatchInv, Before
<1>14. Reached(progress, vram)' BY <1>10, <1>11 DEF Reached, Current, Before
<1> QED BY <1>12, <1>13, <1>14 DEF TwoDInv

(* The commands done one after the other.                                    *)
LEMMA WholeIs ==
    ASSUME Len(batch) \in 1..2, DOMAIN batch = 1..Len(batch),
           \A k \in 1..Len(batch) : batch[k] \in Commands
    PROVE  FoldLeft(LAMBDA v, c : Done(c, v), First, batch) = Before(Len(batch))
<1> DEFINE m == Len(batch)
           F == [p \in Pictures \X (1..m) |-> Done(batch[p[2]], p[1])]
           Runs(f) == f = [S \in SUBSET (DOMAIN batch) |->
                             IF S = {} THEN First ELSE Done(batch[Max(S)], f[S \ {Max(S)}])]
           g == CHOOSE f : Runs(f)
<1>1. m \in Nat /\ First \in Pictures /\ m \in 1..2 BY FirstPicture
<1>2. \A k \in 1..m, v \in Pictures : Done(batch[k], v) \in Pictures BY CommandIs, DoneType
<1>3. F \in [Pictures \X (1..m) -> Pictures] BY <1>2
<1>4. PICK f \in [SUBSET (1..m) -> Pictures] : Folded(f, F, First, m)
  <2> HIDE DEF F, m
  <2> QED BY <1>1, <1>3, FoldExists
<1>5. Runs(f)
  <2>1. ASSUME NEW S \in SUBSET (1..m), S # {}
        PROVE  F[<<f[S \ {Max(S)}], Max(S)>>] = Done(batch[Max(S)], f[S \ {Max(S)}])
    <3>1. Max(S) \in S /\ S \ {Max(S)} \in SUBSET (1..m) BY <1>1, <2>1, MaxOf
    <3>2. Max(S) \in 1..m BY <3>1
    <3>3. f[S \ {Max(S)}] \in Pictures BY <3>1, <1>4
    <3>4. <<f[S \ {Max(S)}], Max(S)>> \in Pictures \X (1..m) BY <3>2, <3>3
    <3> QED BY <3>4
  <2>2. f = [S \in SUBSET (1..m) |->
               IF S = {} THEN First ELSE F[<<f[S \ {Max(S)}], Max(S)>>]]
    BY <1>4 DEF Folded
  <2>3. [S \in SUBSET (1..m) |-> IF S = {} THEN First ELSE F[<<f[S \ {Max(S)}], Max(S)>>]]
        = [S \in SUBSET (1..m) |-> IF S = {} THEN First ELSE Done(batch[Max(S)], f[S \ {Max(S)}])]
    <3> HIDE DEF F, m
    <3> QED BY <2>1
  <2> HIDE DEF F
  <2> QED BY <2>2, <2>3
<1>6. Runs(g) BY <1>5
<1>7. FoldLeft(LAMBDA v, c : Done(c, v), First, batch) = g[DOMAIN batch]
  BY DEF FoldLeft, MapThenFoldSet
<1>8. Staged(g, Pictures, F, First, m)
  <2>1. g[{}] = First
    <3> HIDE DEF g, m
    <3> QED BY <1>6
  <2>2. \A S \in SUBSET (1..m) : S # {} /\ g[S \ {Max(S)}] \in Pictures
           => g[S] = F[<<g[S \ {Max(S)}], Max(S)>>]
    <3> TAKE S \in SUBSET (1..m)
    <3> HAVE S # {} /\ g[S \ {Max(S)}] \in Pictures
    <3>1. Max(S) \in 1..m BY <1>1, MaxOf
    <3>2. <<g[S \ {Max(S)}], Max(S)>> \in Pictures \X (1..m)
      <4> HIDE DEF g
      <4> QED BY <3>1
    <3>3. g[S] = Done(batch[Max(S)], g[S \ {Max(S)}])
      <4> HIDE DEF g
      <4> QED BY <1>6
    <3> HIDE DEF g
    <3> QED BY <3>2, <3>3
  <2> HIDE DEF g, F, m
  <2> QED BY <2>1, <2>2 DEF Staged
<1>9. PICK C : StagesOf(C, g, Pictures, F, First, m)
  <2> HIDE DEF g, F, m
  <2> QED BY <1>1, <1>3, <1>8, FoldStages
<1>10. C[m] = g[1..m] /\ C[0] = First /\ \A k \in 1..m : C[k] = Done(batch[k], C[k - 1])
  <2>1. ASSUME NEW k \in 1..m PROVE C[k] = Done(batch[k], C[k - 1])
    <3>1. k - 1 \in 0..m BY <1>1
    <3>2. C[k] = F[<<C[k - 1], k>>] /\ C[k - 1] \in Pictures BY <3>1, <1>9 DEF StagesOf
    <3> QED BY <3>2
  <2> HIDE DEF g, F
  <2> QED BY <2>1, <1>9 DEF StagesOf
<1> HIDE DEF g, F, m
<1>11. C[m] = Before(m)
  <2>1. 1 \in 1..m /\ 1 - 1 = 0 /\ 2 - 1 = 1 BY <1>1
  <2>2. C[1] = Done(batch[1], First) BY <2>1, <1>10
  <2>3. CASE m = 1 BY <2>2, <2>3 DEF Before
  <2>4. CASE m = 2
    <3>1. C[2] = Done(batch[2], C[1]) BY <2>1, <2>4, <1>10
    <3> QED BY <2>2, <2>4, <3>1 DEF Before
  <2> QED BY <2>3, <2>4, <1>1
<1> QED BY <1>7, <1>10, <1>11 DEF m

LEMMA TwoDStarts == ASSUME TwoDInit PROVE TwoDInv
<1>1. /\ Len(batch) \in 1..2 /\ DOMAIN batch = 1..Len(batch)
      /\ \A k \in 1..Len(batch) : batch[k] \in Commands
  <2>1. CASE \E c \in Commands : batch = <<c>> BY <2>1
  <2>2. CASE \E c \in Commands, d \in Second : batch = <<c, d>> BY <2>2 DEF Second
  <2>3. \/ \E c \in Commands : batch = <<c>>
        \/ \E c \in Commands, d \in Second : batch = <<c, d>>
    <3>1. batch \in Batches BY DEF TwoDInit
    <3> QED BY <3>1 DEF Batches
  <2> QED BY <2>1, <2>2, <2>3
<1>2. vram = First BY DEF TwoDInit, First
<1>3. whole = Before(Len(batch))
  <2>1. whole = FoldLeft(LAMBDA v, c : Done(c, v), vram, batch) BY DEF TwoDInit
  <2>2. FoldLeft(LAMBDA v, c : Done(c, v), vram, batch) = FoldLeft(LAMBDA v, c : Done(c, v), First, batch)
    BY <1>2
  <2> QED BY <1>1, <2>1, <2>2, WholeIs
<1>4. BatchInv BY <1>1, <1>3 DEF BatchInv
<1>5. progress = [command |-> 0, row |-> 0, column |-> 0] BY DEF TwoDInit
<1>6. progress \in Place /\ progress.command = 0 /\ progress.row = 0 /\ progress.column = 0
  BY <1>5 DEF Place, Lines
<1>7. 0 \in 0..Len(batch) /\ 0 < Len(batch) /\ Before(0) = First BY <1>1 DEF Before
<1>8. IsRectangle(batch[0 + 1]) BY <1>4, <1>7, BeforeType
<1>9. IsRectangle(Current(progress)) BY <1>6, <1>8 DEF Current
<1>10. InCommand(Current(progress), progress) /\ Covered(Current(progress), progress) = {}
  BY <1>6, <1>9, CoveredStarts
<1>11. First = Part(Current(progress), {}, First) BY <1>9, FirstPicture, PartEnds
<1>12. Reached(progress, vram)
  <2>1. 0 <= Len(batch) /\ ~(0 = Len(batch)) BY <1>1
  <2> QED BY <2>1, <1>2, <1>6, <1>7, <1>10, <1>11 DEF Reached
<1> QED BY <1>2, <1>4, <1>12, FirstPicture DEF TwoDInv

LEMMA TwoDImplies == TwoDInv => SlicesSound
<1> SUFFICES ASSUME TwoDInv PROVE SlicesSound OBVIOUS
<1>1. BatchInv /\ Reached(progress, vram) BY DEF TwoDInv
<1>2. SlicesCompose
  <2>1. Finished(progress) => vram = Before(Len(batch)) BY <1>1 DEF Finished, Reached
  <2> QED BY <1>1, <2>1 DEF SlicesCompose, BatchInv
<1>3. ProgressRestores
  <2>1. CASE Finished(progress) BY <2>1 DEF ProgressRestores
  <2>2. CASE ~Finished(progress)
    <3>1. progress.command < Len(batch)
      <4>1. progress.command \in Nat /\ progress.command <= Len(batch) /\ Len(batch) \in Nat
        BY <1>1 DEF Reached, Place, BatchInv
      <4>2. progress.command # Len(batch) BY <2>2 DEF Finished
      <4> QED BY <4>1, <4>2
    <3>2. InCommand(Current(progress), progress) BY <1>1, <3>1 DEF Reached
    <3> QED BY <3>2 DEF InCommand, Current, ProgressRestores
  <2> QED BY <2>1, <2>2
<1> QED BY <1>2, <1>3 DEF SlicesSound

THEOREM SlicesHold == TwoDSpec => []SlicesSound
<1>1. TwoDInit => TwoDInv BY TwoDStarts
<1>2. TwoDInv /\ [TwoDNext]_twoDVars => TwoDInv'
  <2> SUFFICES ASSUME TwoDInv, [TwoDNext]_twoDVars PROVE TwoDInv' OBVIOUS
  <2>1. CASE Execute BY <2>1, SliceKeeps
  <2>2. CASE UNCHANGED twoDVars
    <3>1. batch' = batch /\ vram' = vram /\ progress' = progress /\ whole' = whole
      BY <2>2 DEF twoDVars
    <3>2. BatchInv' BY <3>1 DEF TwoDInv, BatchInv, Before
    <3>3. Reached(progress, vram)' BY <3>1 DEF TwoDInv, Reached, Current, Before
    <3> QED BY <3>1, <3>2, <3>3 DEF TwoDInv
  <2> QED BY <2>1, <2>2 DEF TwoDNext
<1> QED BY <1>1, <1>2, TwoDImplies, PTL DEF TwoDSpec

-----------------------------------------------------------------------------
(* The desktop.  While it is active and the engine runs, the number of the   *)
(* desktop is the one last sent; in every state, the epoch is not behind.    *)

DeskSpec == CompositionInit /\ [][CompositionNext]_compositionVars

DeskInv ==
    /\ CompositionTypeOK /\ CoherentIsWhole
    /\ desk.coherent => desk.active
    /\ sent.epoch <= desk.epoch
    /\ desk.active /\ engine = "runs" => sent.epoch = desk.epoch /\ sent.sequence = desk.sequence

Consecutive ==
    \/ sent'.epoch = sent.epoch /\ sent'.sequence = sent.sequence + 1
    \/ sent'.epoch > sent.epoch /\ sent'.sequence = 1
Onward == DeskInv' /\ (sent' = sent \/ Consecutive)

Desk == [epoch : 0..MaxDesktops, sequence : 0..MaxPackets, mode : Modes \union {"none"},
         active : BOOLEAN, coherent : BOOLEAN]

LEMMA DeskStarts == CompositionInit => DeskInv
BY CompositionAssumption DEF CompositionInit, DeskInv, CompositionTypeOK, CoherentIsWhole

(* The next number of an active desktop.                                     *)
LEMMA NumberedNext ==
    ASSUME DeskInv, desk.active, engine = "runs", desk.sequence < MaxPackets
    PROVE  /\ Numbered \in Desk /\ Rollback(Numbered) = desk
           /\ Numbered.epoch = sent.epoch /\ Numbered.sequence = sent.sequence + 1
           /\ Numbered.active = desk.active /\ Numbered.coherent = desk.coherent
           /\ Numbered.epoch = desk.epoch
<1>1. desk \in Desk /\ sent.epoch = desk.epoch /\ sent.sequence = desk.sequence /\ MaxPackets \in Nat
  BY CompositionAssumption DEF DeskInv, CompositionTypeOK, Desk
<1>2. /\ Numbered \in Desk /\ Numbered.sequence = desk.sequence + 1 /\ Numbered.epoch = desk.epoch
      /\ Numbered.active = desk.active /\ Numbered.coherent = desk.coherent
      /\ Numbered.mode = desk.mode
  <2>1. desk.sequence + 1 \in 0..MaxPackets BY <1>1 DEF Desk
  <2>2. Numbered = [desk EXCEPT !.sequence = desk.sequence + 1] BY <1>1 DEF Numbered, Desk
  <2> QED BY <1>1, <2>1, <2>2 DEF Desk
<1>3. Rollback(Numbered) = desk
  <2>1. Rollback(Numbered) = [Numbered EXCEPT !.sequence = desk.sequence]
    BY <1>1, <1>2 DEF Rollback, Desk
  <2> QED BY <2>1, <1>1, <1>2 DEF Desk
<1> QED BY <1>1, <1>2, <1>3

LEMMA SeedKeeps == ASSUME DeskInv, engine = "runs", Seed PROVE Onward
<1>1. PICK mode \in Modes, result \in Results :
        /\ ~desk.active /\ desk.epoch < MaxDesktops
        /\ Captured(Seeded(mode), result, [Seeded(mode) EXCEPT !.active = TRUE, !.coherent = TRUE])
        /\ gpuOnly' = IF result = "sent" THEN {} ELSE gpuOnly
  BY DEF Seed
<1> DEFINE d == Seeded(mode)
<1>2. /\ d \in Desk /\ d.epoch = desk.epoch + 1 /\ d.sequence = 1
      /\ d.active = FALSE /\ d.coherent = FALSE
  <2>1. desk \in Desk /\ 1 \in 0..MaxPackets /\ MaxDesktops \in Nat
    BY CompositionAssumption DEF DeskInv, CompositionTypeOK, Desk
  <2>2. desk.epoch + 1 \in 0..MaxDesktops /\ desk.active = FALSE /\ desk.coherent = FALSE
    BY <1>1, <2>1 DEF DeskInv, Desk
  <2> QED BY <2>1, <2>2 DEF Seeded, Desk
<1>3. sent.epoch < d.epoch /\ sent \in [epoch : 0..MaxDesktops, sequence : 0..MaxPackets]
  BY <1>2 DEF DeskInv, CompositionTypeOK
<1> HIDE DEF d
<1>4. CASE result = "sent"
  <2>1. /\ desk' = [d EXCEPT !.active = TRUE, !.coherent = TRUE] /\ gpuOnly' = {}
        /\ sent' = [epoch |-> d.epoch, sequence |-> d.sequence] /\ engine' = engine
    BY <1>1, <1>4 DEF Captured, OnWire, d
  <2>2. /\ desk' \in Desk /\ desk'.epoch = d.epoch /\ desk'.sequence = d.sequence
        /\ desk'.active = TRUE
    BY <2>1, <1>2 DEF Desk
  <2>3. /\ sent' \in [epoch : 0..MaxDesktops, sequence : 0..MaxPackets]
        /\ sent'.epoch = d.epoch /\ sent'.sequence = d.sequence
    BY <2>1, <1>2 DEF Desk
  <2>4. CompositionTypeOK' BY <2>1, <2>2, <2>3 DEF DeskInv, CompositionTypeOK, Desk
  <2>5. DeskInv'
    BY <2>1, <2>2, <2>3, <2>4, <1>2 DEF DeskInv, CoherentIsWhole, Desk
  <2>6. Consecutive BY <2>3, <1>2, <1>3 DEF Consecutive, Desk
  <2> QED BY <2>5, <2>6 DEF Onward
<1>5. CASE result # "sent"
  <2>1. /\ desk' = Rollback(d) /\ gpuOnly' = gpuOnly /\ sent' = sent
        /\ engine' \in {"runs", "resets"}
    BY <1>1, <1>5 DEF Captured, OnWire, d
  <2>2. /\ desk' \in Desk /\ desk'.epoch = d.epoch /\ desk'.active = FALSE /\ desk'.coherent = FALSE
    <3>1. Rollback(d) = [d EXCEPT !.sequence = 0] BY <1>2 DEF Rollback, Desk
    <3>2. 0 \in 0..MaxPackets BY CompositionAssumption
    <3> QED BY <2>1, <3>1, <3>2, <1>2 DEF Desk
  <2>3. CompositionTypeOK' BY <2>1, <2>2 DEF DeskInv, CompositionTypeOK, Desk
  <2>4. sent'.epoch <= desk'.epoch BY <2>1, <2>2, <1>2, <1>3 DEF Desk
  <2>5. DeskInv' BY <2>2, <2>3, <2>4 DEF DeskInv, CoherentIsWhole
  <2> QED BY <2>1, <2>5 DEF Onward
<1> QED BY <1>4, <1>5

(* A capture of an active desktop.                                           *)
LEMMA CaptureKeeps ==
    ASSUME DeskInv, engine = "runs", desk.active, desk.sequence < MaxPackets,
           NEW result \in Results, NEW then \in Desk, Captured(Numbered, result, then),
           then.epoch = Numbered.epoch, then.sequence = Numbered.sequence,
           then.coherent => desk.coherent, then.coherent => then.active,
           gpuOnly' \subseteq gpuOnly
    PROVE  Onward
<1>1. /\ Numbered \in Desk /\ Rollback(Numbered) = desk
      /\ Numbered.epoch = sent.epoch /\ Numbered.sequence = sent.sequence + 1
      /\ Numbered.active = desk.active /\ Numbered.coherent = desk.coherent
      /\ Numbered.epoch = desk.epoch
  BY NumberedNext
<1>2. /\ gpuOnly' \subseteq Regions /\ (desk.coherent => gpuOnly' = {})
      /\ sent \in [epoch : 0..MaxDesktops, sequence : 0..MaxPackets] /\ desk \in Desk
  BY DEF DeskInv, CompositionTypeOK, CoherentIsWhole, Desk
<1>3. CASE result = "sent"
  <2>1. /\ desk' = then /\ engine' = engine
        /\ sent' = [epoch |-> Numbered.epoch, sequence |-> Numbered.sequence]
    BY <1>3 DEF Captured, OnWire
  <2>2. /\ sent' \in [epoch : 0..MaxDesktops, sequence : 0..MaxPackets]
        /\ sent'.epoch = Numbered.epoch /\ sent'.sequence = Numbered.sequence
    BY <2>1, <1>1 DEF Desk
  <2>3. CompositionTypeOK' BY <2>1, <2>2, <1>2 DEF DeskInv, CompositionTypeOK, Desk
  <2>4. CoherentIsWhole' BY <2>1, <1>2 DEF CoherentIsWhole
  <2>5. sent'.epoch = desk'.epoch /\ sent'.sequence = desk'.sequence /\ desk'.epoch \in Nat
        /\ (desk'.coherent => desk'.active)
    BY <2>1, <2>2 DEF Desk
  <2>6. DeskInv' BY <2>3, <2>4, <2>5 DEF DeskInv
  <2>7. Consecutive BY <2>2, <1>1 DEF Consecutive
  <2> QED BY <2>6, <2>7 DEF Onward
<1>4. CASE result # "sent"
  <2>1. desk' = desk /\ sent' = sent /\ engine' \in {"runs", "resets"}
    BY <1>1, <1>4 DEF Captured, OnWire
  <2>2. CompositionTypeOK' BY <2>1, <1>2 DEF DeskInv, CompositionTypeOK, Desk
  <2>3. CoherentIsWhole' BY <2>1, <1>2 DEF CoherentIsWhole
  <2>4. DeskInv' BY <2>1, <2>2, <2>3 DEF DeskInv
  <2> QED BY <2>1, <2>4 DEF Onward
<1> QED BY <1>3, <1>4

LEMMA PatchKeeps ==
    ASSUME DeskInv, engine = "runs", desk.sequence < MaxPackets, Patch PROVE Onward
<1>1. PICK mode \in Modes, at \in SUBSET Regions, result \in Results :
        /\ Admits(mode) /\ Captured(Numbered, result, Numbered)
        /\ gpuOnly' = IF result = "sent" THEN gpuOnly \ at ELSE gpuOnly
  BY DEF Patch
<1>2. desk.active /\ gpuOnly' \subseteq gpuOnly BY <1>1 DEF Admits
<1>3. Numbered \in Desk /\ Numbered.coherent = desk.coherent /\ Numbered.active = desk.active
  BY <1>2, NumberedNext
<1> QED BY <1>1, <1>2, <1>3, CaptureKeeps DEF DeskInv

LEMMA ReturnKeeps ==
    ASSUME DeskInv, engine = "runs", desk.sequence < MaxPackets, Return PROVE Onward
<1> DEFINE then == [Numbered EXCEPT !.active = FALSE, !.coherent = FALSE]
<1>1. PICK mode \in Modes, result \in Results :
        /\ Admits(mode) /\ Captured(Numbered, result, then) /\ UNCHANGED gpuOnly
  BY DEF Return
<1>2. desk.active /\ gpuOnly' \subseteq gpuOnly BY <1>1 DEF Admits
<1>3. Numbered \in Desk BY <1>2, NumberedNext
<1>4. /\ then \in Desk /\ then.epoch = Numbered.epoch /\ then.sequence = Numbered.sequence
      /\ then.coherent = FALSE
  BY <1>3 DEF Desk
<1> HIDE DEF then
<1> QED BY <1>1, <1>2, <1>4, CaptureKeeps

(* A packet drawn or read on the GPU.                                        *)
LEMMA PacketKeeps ==
    ASSUME DeskInv, engine = "runs", desk.active, desk.sequence < MaxPackets,
           NEW result \in Results, NEW flag \in BOOLEAN,
           desk' = [Numbered EXCEPT !.coherent = flag],
           OnWire(Numbered, result), Ends(result),
           gpuOnly' \subseteq Regions, flag => gpuOnly' = {}
    PROVE  Onward
<1>1. /\ Numbered \in Desk
      /\ Numbered.epoch = sent.epoch /\ Numbered.sequence = sent.sequence + 1
      /\ Numbered.active = desk.active /\ Numbered.epoch = desk.epoch
  BY NumberedNext
<1>2. /\ desk' \in Desk /\ desk'.epoch = Numbered.epoch /\ desk'.sequence = Numbered.sequence
      /\ desk'.active = desk.active /\ desk'.coherent = flag
  BY <1>1 DEF Desk
<1>3. sent \in [epoch : 0..MaxDesktops, sequence : 0..MaxPackets]
      /\ engine' \in {"runs", "resets", "failed"}
  BY DEF DeskInv, CompositionTypeOK, Ends, Results
<1>4. CASE result = "sent"
  <2>1. /\ sent' \in [epoch : 0..MaxDesktops, sequence : 0..MaxPackets]
        /\ sent'.epoch = Numbered.epoch /\ sent'.sequence = Numbered.sequence
    BY <1>1, <1>4 DEF OnWire, Desk
  <2>2. CompositionTypeOK' /\ CoherentIsWhole'
    BY <2>1, <1>2, <1>3 DEF CompositionTypeOK, Desk, CoherentIsWhole
  <2>3. sent'.epoch = desk'.epoch /\ desk'.epoch \in Nat /\ sent'.sequence = desk'.sequence
    BY <2>1, <1>2 DEF Desk
  <2>4. DeskInv'
    <3>1. desk'.coherent => desk'.active BY <1>2
    <3>2. sent'.epoch <= desk'.epoch BY <2>3
    <3> QED BY <2>2, <2>3, <3>1, <3>2 DEF DeskInv
  <2>5. Consecutive BY <2>1, <1>1 DEF Consecutive
  <2> QED BY <2>4, <2>5 DEF Onward
<1>5. CASE result # "sent"
  <2>1. sent' = sent /\ engine' # "runs" BY <1>5 DEF OnWire, Ends, Results
  <2>2. CompositionTypeOK' /\ CoherentIsWhole'
    BY <2>1, <1>2, <1>3 DEF CompositionTypeOK, Desk, CoherentIsWhole
  <2>3. sent'.epoch = desk'.epoch /\ desk'.epoch \in Nat BY <2>1, <1>1, <1>2 DEF Desk
  <2>4. DeskInv' BY <2>1, <2>2, <2>3, <1>2 DEF DeskInv
  <2> QED BY <2>1, <2>4 DEF Onward
<1> QED BY <1>4, <1>5

LEMMA DrawKeeps ==
    ASSUME DeskInv, engine = "runs", desk.sequence < MaxPackets, DrawDesktop PROVE Onward
<1>1. PICK mode \in Modes, at \in SUBSET Regions, result \in Results :
        /\ Admits(mode) /\ desk' = [Numbered EXCEPT !.coherent = FALSE]
        /\ gpuOnly' = IF result = "sent" THEN gpuOnly \union at ELSE gpuOnly
        /\ OnWire(Numbered, result) /\ Ends(result)
  BY DEF DrawDesktop
<1>2. desk.active /\ gpuOnly' \subseteq Regions BY <1>1 DEF Admits, DeskInv, CompositionTypeOK
<1> QED BY <1>1, <1>2, PacketKeeps

LEMMA ReadbackKeeps ==
    ASSUME DeskInv, engine = "runs", desk.sequence < MaxPackets, Readback PROVE Onward
<1>1. PICK mode \in Modes, at \in SUBSET Regions, result \in Results :
        /\ Admits(mode)
        /\ desk' = [Numbered EXCEPT !.coherent = IF result = "sent" THEN CoherentAfter(at) ELSE @]
        /\ gpuOnly' = IF result = "sent" THEN gpuOnly \ at ELSE gpuOnly
        /\ OnWire(Numbered, result) /\ Ends(result)
  BY DEF Readback
<1>2. desk.active BY <1>1 DEF Admits
<1> DEFINE flag == IF result = "sent" THEN CoherentAfter(at) ELSE Numbered.coherent
<1>3. Numbered \in Desk /\ Numbered.coherent = desk.coherent BY <1>2, NumberedNext
<1>4. flag \in BOOLEAN BY <1>3 DEF Desk, CoherentAfter, DeskInv, CompositionTypeOK
<1>5. desk' = [Numbered EXCEPT !.coherent = flag] BY <1>1, <1>3 DEF Desk
<1>6. gpuOnly \subseteq Regions /\ (desk.coherent => gpuOnly = {})
  BY DEF DeskInv, CompositionTypeOK, CoherentIsWhole
<1>7. gpuOnly' \subseteq Regions /\ (flag => gpuOnly' = {})
  <2>1. CASE result = "sent"
    <3>1. flag <=> desk.coherent \/ at = Regions BY <2>1 DEF CoherentAfter
    <3> QED BY <3>1, <2>1, <1>1, <1>6
  <2>2. CASE result # "sent" BY <2>2, <1>1, <1>3, <1>6
  <2> QED BY <2>1, <2>2
<1> HIDE DEF flag
<1> QED BY <1>1, <1>2, <1>4, <1>5, <1>7, PacketKeeps

LEMMA DeskKeeps == ASSUME DeskInv, [CompositionNext]_compositionVars PROVE Onward
<1>1. CASE engine = "runs" /\ Seed BY <1>1, SeedKeeps
<1>2. CASE Discard
  <2>1. desk' = desk /\ gpuOnly' = gpuOnly /\ sent' = sent BY <1>2 DEF Discard
  <2>2. engine' \in {"resets", "failed"} \/ engine' = engine
    BY <1>2 DEF Discard, Ends, Results
  <2>3. DeskInv' BY <2>1, <2>2 DEF DeskInv, CompositionTypeOK, CoherentIsWhole
  <2> QED BY <2>1, <2>3 DEF Onward
<1>3. CASE engine = "runs" /\ desk.sequence < MaxPackets /\ (Patch \/ Return \/ DrawDesktop \/ Readback)
  BY <1>3, PatchKeeps, ReturnKeeps, DrawKeeps, ReadbackKeeps
<1>4. CASE ResetDesktop
  <2>1. /\ desk' = [desk EXCEPT !.active = FALSE, !.coherent = FALSE]
        /\ gpuOnly' = {} /\ sent' = sent /\ engine' = "runs"
    BY <1>4 DEF ResetDesktop
  <2>2. /\ desk' \in Desk /\ desk'.active = FALSE /\ desk'.coherent = FALSE
        /\ desk'.epoch = desk.epoch
    BY <2>1 DEF DeskInv, CompositionTypeOK, Desk
  <2>3. DeskInv' BY <2>1, <2>2 DEF DeskInv, CompositionTypeOK, CoherentIsWhole, Desk
  <2> QED BY <2>1, <2>3 DEF Onward
<1>5. CASE UNCHANGED compositionVars
  BY <1>5 DEF compositionVars, Onward, DeskInv, CompositionTypeOK, CoherentIsWhole
<1> QED BY <1>1, <1>2, <1>3, <1>4, <1>5 DEF CompositionNext

THEOREM DeskHolds == DeskSpec => DesktopSound
<1>1. CompositionInit => DeskInv BY DeskStarts
<1>2. DeskInv /\ [CompositionNext]_compositionVars => DeskInv' BY DeskKeeps DEF Onward
<1>3. DeskInv => CoherentIsWhole BY DEF DeskInv
<1>4. DeskInv /\ [CompositionNext]_compositionVars =>
        [sent' # sent =>
            \/ sent'.epoch = sent.epoch /\ sent'.sequence = sent.sequence + 1
            \/ sent'.epoch > sent.epoch /\ sent'.sequence = 1]_compositionVars
  BY DeskKeeps DEF Onward, Consecutive
<1> QED BY <1>1, <1>2, <1>3, <1>4, PTL DEF DeskSpec, DesktopSound, WireConsecutive

-----------------------------------------------------------------------------
(* Queries and fences.  The queue of ended queries ascends in the stamps of  *)
(* their ends; taking a name out leaves the others and their order.          *)

QueriesSpec == QueriesInit /\ [][QueriesNext]_queriesVars

QNames == 1..QueryNames
Holds(u, m) == \E i \in 1..Len(u) : u[i] = m
Queues(w) == {u \in Seq(QNames) : \A i, j \in 1..Len(u) : i < j => w[u[i]] < w[u[j]]}

LEMMA QueryLimits == /\ QueryNames \in Nat \ {0} /\ MaxQueries \in Nat \ {0} /\ Ended \in Nat \ {0}
                     /\ MaxStamps \in Nat \ {0}
BY QueriesAssumption

LEMMA LeastOf ==
    ASSUME NEW T \in SUBSET Nat, T # {}
    PROVE  Min(T) \in T /\ \A x \in T : Min(T) <= x
<1> DEFINE P(z) == z \in T /\ \A y \in T : z <= y
<1>1. \E z : P(z) BY LeastNat
<1>2. P(CHOOSE z : P(z)) BY <1>1
<1>3. Min(T) = CHOOSE z : P(z) BY DEF Min
<1> HIDE DEF P
<1>4. P(Min(T)) BY <1>2, <1>3
<1> QED BY <1>4 DEF P

(* What is taken out, and where the rest goes.                               *)
LEMMA RetiredIs ==
    ASSUME NEW u \in Seq(QNames), NEW n
    PROVE  /\ Retired(u, n) \in Seq(QNames)
           /\ \/ ~Holds(u, n) /\ Retired(u, n) = u
              \/ \E i \in 1..Len(u) :
                   /\ u[i] = n /\ Len(Retired(u, n)) = Len(u) - 1
                   /\ \A k \in 1..(Len(u) - 1) :
                        Retired(u, n)[k] = IF k < i THEN u[k] ELSE u[k + 1]
<1>1. CASE ~Holds(u, n) BY <1>1 DEF Retired, RemoveFirst, Holds
<1>2. CASE Holds(u, n)
  <2> DEFINE I == {i \in 1..Len(u) : u[i] = n}
             i == Min(I)
             a == SubSeq(u, 1, i - 1)
             b == SubSeq(u, i + 1, Len(u))
  <2>1. I \in SUBSET Nat /\ I # {} BY <1>2 DEF Holds
  <2>2. i \in I
    <3> HIDE DEF I
    <3> QED BY <2>1, LeastOf
  <2>3. SelectInSeq(u, LAMBDA v : v = n) = i BY <2>1 DEF SelectInSeq
  <2>4. Retired(u, n) = a \o b BY <1>2, <2>3 DEF Retired, RemoveFirst, RemoveAt, Holds
  <2>5. i \in 1..Len(u) /\ u[i] = n /\ Len(u) \in Nat BY <2>2
  <2> HIDE DEF i
  <2>6. a \in Seq(QNames) /\ Len(a) = i - 1 /\ \A k \in 1..(i - 1) : a[k] = u[k] BY <2>5
  <2>7. b \in Seq(QNames) /\ Len(b) = Len(u) - i /\ \A k \in 1..(Len(u) - i) : b[k] = u[i + k]
    BY <2>5
  <2> HIDE DEF a, b
  <2>8. a \o b \in Seq(QNames) /\ Len(a \o b) = Len(u) - 1
    <3>1. a \in Seq(QNames) /\ b \in Seq(QNames) BY <2>6, <2>7
    <3>2. a \o b \in Seq(QNames) /\ Len(a \o b) = Len(a) + Len(b) BY <3>1
    <3>3. Len(a) = i - 1 /\ Len(b) = Len(u) - i BY <2>6, <2>7
    <3> QED BY <2>5, <3>2, <3>3
  <2>9. ASSUME NEW k \in 1..(Len(u) - 1) PROVE (a \o b)[k] = IF k < i THEN u[k] ELSE u[k + 1]
    <3>1. (a \o b)[k] = IF k <= i - 1 THEN a[k] ELSE b[k - (i - 1)] BY <2>5, <2>6, <2>7, <2>8
    <3>2. CASE k < i BY <3>1, <3>2, <2>5, <2>6
    <3>3. CASE ~(k < i)
      <4>1. k - (i - 1) \in 1..(Len(u) - i) /\ i + (k - (i - 1)) = k + 1 /\ ~(k <= i - 1)
        BY <3>3, <2>5
      <4>2. b[k - (i - 1)] = u[k + 1] BY <4>1, <2>7
      <4> QED BY <3>1, <3>3, <4>1, <4>2
    <3> QED BY <3>2, <3>3
  <2> QED BY <2>4, <2>5, <2>8, <2>9
<1> QED BY <1>1, <1>2

LEMMA RetiredKeeps ==
    ASSUME NEW w \in [QNames -> Nat], NEW u \in Queues(w), NEW n
    PROVE  /\ Retired(u, n) \in Queues(w)
           /\ \A m : Holds(Retired(u, n), m) <=> Holds(u, m) /\ m # n
<1> DEFINE t == Retired(u, n)
<1>1. u \in Seq(QNames) /\ Len(u) \in Nat /\ \A i, j \in 1..Len(u) : i < j => w[u[i]] < w[u[j]]
  BY DEF Queues
<1>2. \A i \in 1..Len(u) : w[u[i]] \in Nat BY <1>1
<1>3. t \in Seq(QNames) BY <1>1, RetiredIs
<1>4. CASE ~Holds(u, n) /\ t = u
  <2>1. \A m : Holds(u, m) <=> Holds(u, m) /\ m # n BY <1>4
  <2> QED BY <1>4, <2>1
<1>5. ASSUME NEW i \in 1..Len(u), u[i] = n, Len(t) = Len(u) - 1,
             \A k \in 1..(Len(u) - 1) : t[k] = IF k < i THEN u[k] ELSE u[k + 1]
      PROVE  /\ t \in Queues(w)
             /\ \A m : Holds(t, m) <=> Holds(u, m) /\ m # n
  <2> HIDE DEF t
  <2> DEFINE at(k) == IF k < i THEN k ELSE k + 1
  <2>1. \A k \in 1..Len(t) : at(k) \in 1..Len(u) /\ t[k] = u[at(k)] /\ at(k) # i BY <1>1, <1>5
  <2>2. \A k, l \in 1..Len(t) : k < l => at(k) < at(l) BY <1>1, <1>5
  <2>3. \A j \in 1..Len(u) : j # i => \E k \in 1..Len(t) : at(k) = j
    <3> TAKE j \in 1..Len(u)
    <3> HAVE j # i
    <3>1. CASE j < i
      <4>1. j \in 1..Len(t) /\ at(j) = j BY <3>1, <1>1, <1>5
      <4> HIDE DEF at
      <4> QED BY <4>1
    <3>2. CASE j > i
      <4>1. j - 1 \in 1..Len(t) /\ at(j - 1) = j BY <3>2, <1>1, <1>5
      <4> HIDE DEF at
      <4> QED BY <4>1
    <3> QED BY <3>1, <3>2
  <2> HIDE DEF at
  <2>4. \A k, l \in 1..Len(t) : k < l => w[t[k]] < w[t[l]] BY <1>1, <2>1, <2>2
  <2>5. \A j \in 1..Len(u) : j # i => u[j] # n
    <3> TAKE j \in 1..Len(u)
    <3> HAVE j # i
    <3>1. j < i \/ i < j OBVIOUS
    <3>2. w[u[j]] # w[u[i]] BY <3>1, <1>1, <1>2
    <3> QED BY <3>2, <1>5
  <2>6. ASSUME NEW m PROVE Holds(t, m) <=> Holds(u, m) /\ m # n
    <3>1. ASSUME Holds(t, m) PROVE Holds(u, m) /\ m # n
      <4>1. PICK k \in 1..Len(t) : t[k] = m BY <3>1 DEF Holds
      <4> QED BY <4>1, <2>1, <2>5 DEF Holds
    <3>2. ASSUME Holds(u, m), m # n PROVE Holds(t, m)
      <4>1. PICK j \in 1..Len(u) : u[j] = m BY <3>2 DEF Holds
      <4>2. j # i BY <4>1, <3>2, <1>5
      <4>3. PICK k \in 1..Len(t) : at(k) = j BY <4>2, <2>3
      <4> QED BY <4>1, <4>3, <2>1 DEF Holds
    <3> QED BY <3>1, <3>2
  <2> QED BY <1>3, <2>4, <2>6 DEF Queues
<1> QED BY <1>1, <1>4, <1>5, RetiredIs

LEMMA RetiredAllKeeps ==
    ASSUME NEW w \in [QNames -> Nat], NEW u \in Queues(w), NEW ns, NEW m \in Nat,
           DOMAIN ns = 1..m
    PROVE  /\ RetiredAll(u, ns) \in Queues(w)
           /\ \A x : Holds(RetiredAll(u, ns), x) <=> Holds(u, x) /\ \A k \in 1..m : ns[k] # x
<1> DEFINE W == Queues(w)
           F == [p \in W \X (1..m) |-> Retired(p[1], ns[p[2]])]
           Runs(f) == f = [S \in SUBSET (DOMAIN ns) |->
                             IF S = {} THEN u ELSE Retired(f[S \ {Max(S)}], ns[Max(S)])]
           g == CHOOSE f : Runs(f)
<1>2. \A k \in 1..m, v \in W : Retired(v, ns[k]) \in W BY RetiredKeeps
<1>3. F \in [W \X (1..m) -> W]
  <2> HIDE DEF W
  <2> QED BY <1>2
<1>4. PICK f \in [SUBSET (1..m) -> W] : Folded(f, F, u, m)
  <2> HIDE DEF F
  <2> QED BY <1>3, FoldExists
<1>5. Runs(f)
  <2>1. ASSUME NEW S \in SUBSET (1..m), S # {}
        PROVE  F[<<f[S \ {Max(S)}], Max(S)>>] = Retired(f[S \ {Max(S)}], ns[Max(S)])
    <3>1. Max(S) \in S /\ S \ {Max(S)} \in SUBSET (1..m) BY <2>1, MaxOf
    <3>2. Max(S) \in 1..m BY <3>1
    <3>3. f[S \ {Max(S)}] \in W
      <4> HIDE DEF W
      <4> QED BY <3>1, <1>4
    <3>4. <<f[S \ {Max(S)}], Max(S)>> \in W \X (1..m) BY <3>2, <3>3
    <3> HIDE DEF W
    <3> QED BY <3>4
  <2>2. f = [S \in SUBSET (1..m) |->
               IF S = {} THEN u ELSE F[<<f[S \ {Max(S)}], Max(S)>>]]
    BY <1>4 DEF Folded
  <2>3. [S \in SUBSET (1..m) |-> IF S = {} THEN u ELSE F[<<f[S \ {Max(S)}], Max(S)>>]]
        = [S \in SUBSET (1..m) |-> IF S = {} THEN u ELSE Retired(f[S \ {Max(S)}], ns[Max(S)])]
    <3> HIDE DEF F, W
    <3> QED BY <2>1
  <2> HIDE DEF F, W
  <2> QED BY <2>2, <2>3
<1>6. Runs(g) BY <1>5
<1>7. RetiredAll(u, ns) = g[DOMAIN ns]
  BY DEF RetiredAll, FoldLeft, MapThenFoldSet
<1>8. Staged(g, W, F, u, m)
  <2>1. g[{}] = u
    <3> HIDE DEF g
    <3> QED BY <1>6
  <2>2. \A S \in SUBSET (1..m) : S # {} /\ g[S \ {Max(S)}] \in W
           => g[S] = F[<<g[S \ {Max(S)}], Max(S)>>]
    <3> TAKE S \in SUBSET (1..m)
    <3> HAVE S # {} /\ g[S \ {Max(S)}] \in W
    <3>1. Max(S) \in 1..m BY MaxOf
    <3>2. <<g[S \ {Max(S)}], Max(S)>> \in W \X (1..m)
      <4> HIDE DEF g, W
      <4> QED BY <3>1
    <3>3. g[S] = Retired(g[S \ {Max(S)}], ns[Max(S)])
      <4> HIDE DEF g
      <4> QED BY <1>6
    <3> HIDE DEF g, W
    <3> QED BY <3>2, <3>3
  <2> HIDE DEF g, F, W
  <2> QED BY <2>1, <2>2 DEF Staged
<1>9. PICK C : StagesOf(C, g, W, F, u, m)
  <2> HIDE DEF g, F
  <2> QED BY <1>3, <1>8, FoldStages
<1>10. C[m] = g[1..m] /\ C[0] = u /\ \A k \in 1..m : C[k - 1] \in W /\ C[k] = Retired(C[k - 1], ns[k])
  <2>1. ASSUME NEW k \in 1..m PROVE C[k - 1] \in W /\ C[k] = Retired(C[k - 1], ns[k])
    <3>1. k - 1 \in 0..m OBVIOUS
    <3>2. C[k] = F[<<C[k - 1], k>>] /\ C[k - 1] \in W BY <3>1, <1>9 DEF StagesOf
    <3> HIDE DEF W
    <3> QED BY <3>2
  <2> HIDE DEF g, F, W
  <2> QED BY <2>1, <1>9 DEF StagesOf
<1> HIDE DEF g, F
<1> DEFINE Good(k) == /\ C[k] \in W
                      /\ \A x : Holds(C[k], x) <=> Holds(u, x) /\ \A j \in 1..k : ns[j] # x
           G == {k \in 0..m : Good(k)}
<1>11. ASSUME NEW k \in 1..m, Good(k - 1) PROVE Good(k)
  <2>1. C[k] \in W /\ \A x : Holds(C[k], x) <=> Holds(C[k - 1], x) /\ x # ns[k]
    BY <1>10, RetiredKeeps
  <2>2. \A j \in 1..k : j = k \/ j \in 1..(k - 1) OBVIOUS
  <2>3. k \in 1..k /\ \A j \in 1..(k - 1) : j \in 1..k OBVIOUS
  <2>4. \A x : (\A j \in 1..k : ns[j] # x) <=> (\A j \in 1..(k - 1) : ns[j] # x) /\ x # ns[k]
    BY <2>2, <2>3
  <2> HIDE DEF W
  <2> QED BY <2>1, <2>4, <1>11
<1>12. Good(0)
  <2>1. \A j \in 1..0 : FALSE OBVIOUS
  <2> QED BY <2>1, <1>10
<1>13. 0..m \subseteq G
  <2>1. 0 \in G BY <1>12
  <2>2. ASSUME NEW k \in 1..m, k - 1 \in G PROVE k \in G
    <3>1. k \in 0..m OBVIOUS
    <3>2. Good(k - 1) BY <2>2
    <3>3. Good(k) BY <3>2, <1>11
    <3> HIDE DEF Good
    <3> QED BY <3>1, <3>3
  <2> HIDE DEF G
  <2> QED BY <2>1, <2>2, Upward
<1>14. Good(m)
  <2>1. m \in 0..m OBVIOUS
  <2>2. m \in G BY <2>1, <1>13
  <2> HIDE DEF Good
  <2> QED BY <2>2
<1> QED BY <1>7, <1>10, <1>14

-----------------------------------------------------------------------------
(* The invariant.                                                            *)

Entries == [object : BOOLEAN, native : Nat, sync : Nat, signaled : BOOLEAN]
TableIs(t) ==
    /\ DOMAIN t = {"there", "names", "next"}
    /\ IsFiniteSet(DOMAIN t.names) /\ Cardinality(DOMAIN t.names) <= MaxQueries
    /\ t.names = [n \in DOMAIN t.names |-> t.names[n]]
    /\ \A n \in DOMAIN t.names : t.names[n] \in Entries
    /\ Objects(t) \subseteq QNames
StateIs(s) ==
    /\ DOMAIN s = {"there", "query", "fence", "active", "ended", "charged"}
    /\ TableIs(s.query) /\ TableIs(s.fence)

QueryShapes ==
    /\ kind \in {"query", "fence"} /\ StateIs(q)
    /\ DOMAIN native = {"ends", "active", "misused"} /\ DOMAIN gpu = {"given", "done"}
    /\ DOMAIN told = {"query", "fence", "delivered"}

(* Stamps given out: no two queries ended with the same.                     *)
QueryStamps ==
    /\ gpu.given \in Nat /\ gpu.done \in 0..gpu.given
    /\ told.query \in [QNames -> Nat] /\ told.fence \in [QNames -> Nat]
    /\ \A n \in QNames : told.query[n] <= gpu.given /\ told.fence[n] <= gpu.given
    /\ told.delivered \subseteq 0..gpu.given
    /\ \A m, n \in QNames : told.query[m] = told.query[n] /\ told.query[m] # 0 => m = n

(* The table and native GL have the same objects.                            *)
NativeOf(n) == q.query.names[n].native
QueryNative ==
    /\ \A n \in Objects(q.query) :
         /\ NativeOf(n) # 0 /\ NativeOf(n) \in DOMAIN native.ends
         /\ native.ends[NativeOf(n)] = told.query[n]
    /\ \A m, n \in Objects(q.query) : NativeOf(m) = NativeOf(n) => m = n
    /\ \A i \in DOMAIN native.ends : \E n \in Objects(q.query) : NativeOf(n) = i
    /\ native.ends = [i \in DOMAIN native.ends |-> native.ends[i]]
    /\ \A n \in QNames \ Objects(q.query) : told.query[n] = 0
    /\ IF q.active = 0 THEN native.active = 0
       ELSE q.active \in Objects(q.query) /\ native.active = NativeOf(q.active)
    /\ native.misused = FALSE

(* What is queued has ended and was not reported.                            *)
QueryQueue ==
    /\ q.ended \in Queues(told.query)
    /\ \A m \in QNames : Holds(q.ended, m) =>
         /\ m \in Objects(q.query) /\ m # q.active
         /\ told.query[m] # 0 /\ told.query[m] \notin told.delivered

FenceStamps == \A n \in Objects(q.fence) :
    IF q.fence.names[n].signaled THEN told.fence[n] <= gpu.done
    ELSE q.fence.names[n].sync = told.fence[n]

AnswerInv ==
    /\ ReportsCurrent /\ FenceHonest
    /\ answer.kind = "signaled" => Range(answer.names) \subseteq QNames

QueryInv ==
    QueryShapes /\ QueryStamps /\ QueryNative /\ QueryQueue /\ FenceStamps /\ AnswerInv

(* What the steps promise, besides.                                          *)
Delivers == answer' # answer =>
    \A k \in DOMAIN answer'.reports :
        /\ answer'.reports[k][2] \notin told.delivered
        /\ \A j \in DOMAIN answer'.reports :
             j < k => answer'.reports[j][2] < answer'.reports[k][2]
Generates == answer'.kind \in {"query", "fence"} /\ answer' # answer =>
    \A n \in Range(answer'.names) : n \notin DOMAIN q[answer'.kind].names
QueryStep == QueryInv' /\ Delivers /\ Generates

LEMMA SilentIs ==
    /\ DOMAIN Silent = {"kind", "names", "reports"} /\ Silent.kind = "none" /\ Range(Silent.reports) = {} /\ DOMAIN Silent.reports = {}
    /\ Silent.reports = <<>> /\ Silent.names = <<>> /\ Range(Silent.names) = {}
BY DEF Silent, Range

LEMMA SilentStep ==
    ASSUME answer' = Silent
    PROVE  AnswerInv' /\ Delivers /\ Generates
<1>1. Silent.kind = "none" /\ Range(Silent.reports) = {} /\ DOMAIN Silent.reports = {}
  BY SilentIs
<1>2. AnswerInv' BY <1>1 DEF AnswerInv, ReportsCurrent, FenceHonest
<1>3. Delivers BY <1>1 DEF Delivers
<1>4. Generates BY <1>1 DEF Generates
<1> QED BY <1>2, <1>3, <1>4

LEMMA SameAnswer ==
    ASSUME AnswerInv, answer' = answer, told' = told, gpu.done \in Nat,
           gpu'.done \in Nat, gpu'.done >= gpu.done, told.fence \in [QNames -> Nat]
    PROVE  AnswerInv' /\ Delivers /\ Generates
<1>1. ReportsCurrent'
  <2>1. \A x : x \in 1..gpu.done => x \in 1..gpu'.done OBVIOUS
  <2>2. \A r \in Range(answer.reports) : r[2] = told.query[r[1]] /\ r[2] \in 1..gpu.done
    BY DEF AnswerInv, ReportsCurrent
  <2>3. \A r \in Range(answer'.reports) : r[2] = told'.query[r[1]] /\ r[2] \in 1..gpu'.done
    BY <2>1, <2>2
  <2> QED BY <2>3 DEF ReportsCurrent
<1>2. FenceHonest'
  <2>1. ASSUME NEW n \in Range(answer'.names), answer'.kind = "signaled"
        PROVE  told'.fence[n] <= gpu'.done
    <3>1. n \in QNames /\ told.fence[n] <= gpu.done BY <2>1 DEF AnswerInv, FenceHonest
    <3> QED BY <3>1
  <2> QED BY <2>1 DEF FenceHonest
<1> QED BY <1>1, <1>2 DEF AnswerInv, Delivers, Generates

(* A state that differs in reserved names, tables and charges.               *)
SameTable(t, u) ==
    /\ Objects(t) = Objects(u) /\ \A n \in Objects(u) : t.names[n] = u.names[n]
Alike(s) ==
    /\ StateIs(s) /\ s.active = q.active /\ s.ended = q.ended
    /\ SameTable(s.query, q.query) /\ SameTable(s.fence, q.fence)

LEMMA AlikeSelf == QueryInv => Alike(q)
BY DEF QueryInv, QueryShapes, Alike, SameTable

WithTable(s, k, c) == [s EXCEPT ![k].there = TRUE, !.charged = c]

LEMMA TableChange ==
    ASSUME NEW s, StateIs(s), NEW k \in {"query", "fence"}, NEW c,
           NEW r, r = WithTable(s, k, c)
    PROVE  /\ StateIs(r) /\ r.active = s.active /\ r.ended = s.ended /\ r.there = s.there
           /\ SameTable(r.query, s.query) /\ SameTable(r.fence, s.fence)
           /\ r.query.names = s.query.names /\ r.fence.names = s.fence.names
<1>1. /\ DOMAIN r = {"there", "query", "fence", "active", "ended", "charged"}
      /\ DOMAIN r.query = {"there", "names", "next"} /\ DOMAIN r.fence = {"there", "names", "next"}
      /\ r.query.names = s.query.names /\ r.fence.names = s.fence.names
      /\ r.active = s.active /\ r.ended = s.ended /\ r.there = s.there
  <2>1. CASE k = "query" BY <2>1 DEF StateIs, TableIs, WithTable
  <2>2. CASE k = "fence" BY <2>2 DEF StateIs, TableIs, WithTable
  <2> QED BY <2>1, <2>2
<1>2. Objects(r.query) = Objects(s.query) /\ Objects(r.fence) = Objects(s.fence)
  BY <1>1 DEF Objects
<1>3. TableIs(r.query) /\ TableIs(r.fence) BY <1>1, <1>2 DEF StateIs, TableIs
<1> QED BY <1>1, <1>2, <1>3 DEF StateIs, SameTable

LEMMA EnsuredIs ==
    ASSUME QueryInv, NEW refused
    PROVE  LET s == Ensured(q, refused) IN
           Alike(s) /\ s.query = q.query /\ s.fence = q.fence
<1> DEFINE s == Ensured(q, refused)
<1>1. CASE s = q BY <1>1, AlikeSelf
<1>2. CASE s = [q EXCEPT !.there = TRUE, !.charged = @ + 1]
  <2>1. StateIs(q) BY DEF QueryInv, QueryShapes
  <2>2. /\ DOMAIN s = DOMAIN q /\ s.query = q.query /\ s.fence = q.fence
        /\ s.active = q.active /\ s.ended = q.ended
    BY <1>2, <2>1 DEF StateIs
  <2>3. StateIs(s)
    <3> HIDE DEF s
    <3> QED BY <2>1, <2>2 DEF StateIs
  <2>4. Alike(s)
    <3> HIDE DEF s
    <3> QED BY <2>2, <2>3 DEF Alike, SameTable
  <2> QED BY <2>2, <2>4
<1>3. s = q \/ s = [q EXCEPT !.there = TRUE, !.charged = @ + 1] BY DEF Ensured
<1> QED BY <1>1, <1>2, <1>3

LEMMA TabledIs ==
    ASSUME QueryInv, NEW refused, NEW k \in {"query", "fence"}
    PROVE  LET t == Tabled(Ensured(q, refused), k, refused) IN
           Alike(t) /\ t.query.names = q.query.names /\ t.fence.names = q.fence.names
<1> DEFINE s == Ensured(q, refused)
           t == Tabled(s, k, refused)
<1>1. Alike(s) /\ s.query = q.query /\ s.fence = q.fence BY EnsuredIs
<1> HIDE DEF s
<1>2. CASE t = s BY <1>1, <1>2 DEF s
<1>3. CASE t = [s EXCEPT ![k].there = TRUE, !.charged = @ + 1]
  <2>1. StateIs(s) BY <1>1 DEF Alike
  <2>2. t = [s EXCEPT ![k].there = TRUE, !.charged = s.charged + 1]
    <3>1. CASE k = "query" BY <3>1, <1>3, <2>1 DEF StateIs
    <3>2. CASE k = "fence" BY <3>2, <1>3, <2>1 DEF StateIs
    <3> QED BY <3>1, <3>2
  <2> DEFINE c == s.charged + 1
  <2>3. /\ StateIs(t) /\ t.active = s.active /\ t.ended = s.ended
        /\ SameTable(t.query, s.query) /\ SameTable(t.fence, s.fence)
        /\ t.query.names = s.query.names /\ t.fence.names = s.fence.names
    <3>1. t = WithTable(s, k, c) BY <2>2 DEF WithTable
    <3> HIDE DEF t, c
    <3> QED BY <2>1, <3>1, TableChange
  <2>4. Alike(t)
    <3> HIDE DEF t
    <3> QED BY <1>1, <2>3 DEF Alike
  <2> QED BY <1>1, <2>3, <2>4 DEF s
<1>4. t = s \/ t = [s EXCEPT ![k].there = TRUE, !.charged = @ + 1] BY DEF Tabled
<1> QED BY <1>2, <1>3, <1>4

(* Names that are reserved are no objects.                                   *)
LEMMA ReserveIs ==
    ASSUME NEW t, TableIs(t), NEW gone, IsFiniteSet(gone), gone \intersect DOMAIN t.names = {},
           Cardinality(DOMAIN t.names) + Cardinality(gone) <= MaxQueries,
           NEW r, DOMAIN r = {"there", "names", "next"},
           r.names = [n \in DOMAIN t.names \union gone |-> IF n \in gone THEN Reserved ELSE t.names[n]]
    PROVE  TableIs(r) /\ SameTable(r, t)
<1>1. /\ DOMAIN r = {"there", "names", "next"}
      /\ DOMAIN r.names = DOMAIN t.names \union gone
      /\ r.names = [n \in DOMAIN t.names \union gone |-> IF n \in gone THEN Reserved ELSE t.names[n]]
  OBVIOUS
<1>2. IsFiniteSet(DOMAIN r.names) /\ Cardinality(DOMAIN r.names) <= MaxQueries
  <2>1. IsFiniteSet(DOMAIN t.names) BY DEF TableIs
  <2>2. /\ Cardinality(DOMAIN t.names) \in Nat /\ Cardinality(gone) \in Nat
        /\ Cardinality(DOMAIN t.names \intersect gone) = 0
    <3>1. DOMAIN t.names \intersect gone = {} OBVIOUS
    <3> QED BY <2>1, <3>1, FS_CardinalityType, FS_EmptySet
  <2>3. IsFiniteSet(DOMAIN t.names \union gone)
        /\ Cardinality(DOMAIN t.names \union gone) = Cardinality(DOMAIN t.names) + Cardinality(gone)
    <3> DEFINE D == DOMAIN t.names
    <3>1. IsFiniteSet(D) BY <2>1
    <3>2. Cardinality(D) \in Nat /\ Cardinality(gone) \in Nat /\ Cardinality(D \intersect gone) = 0
      BY <2>2
    <3> HIDE DEF D
    <3>3. IsFiniteSet(D \union gone)
          /\ Cardinality(D \union gone) = Cardinality(D) + Cardinality(gone) - Cardinality(D \intersect gone)
      BY <3>1, FS_Union
    <3>4. Cardinality(D \union gone) = Cardinality(D) + Cardinality(gone) BY <3>2, <3>3
    <3> QED BY <3>3, <3>4 DEF D
  <2> QED BY <1>1, <2>3
<1>3. Reserved \in Entries /\ Reserved.object = FALSE BY DEF Reserved, Entries
<1>4. \A n \in DOMAIN r.names : r.names[n] \in Entries BY <1>1, <1>3 DEF TableIs
<1>5. Objects(r) = Objects(t) BY <1>1, <1>3 DEF Objects
<1>6. \A n \in Objects(t) : r.names[n] = t.names[n] BY <1>1 DEF Objects
<1>7. r.names = [n \in DOMAIN r.names |-> r.names[n]] BY <1>1
<1> QED BY <1>1, <1>2, <1>4, <1>5, <1>6, <1>7 DEF TableIs, SameTable

LEMMA AlikeKeeps ==
    ASSUME QueryInv, Alike(q'), UNCHANGED <<kind, native, gpu, told>>, AnswerInv'
    PROVE  QueryInv'
<1>1. /\ Objects(q'.query) = Objects(q.query) /\ Objects(q'.fence) = Objects(q.fence)
      /\ \A n \in Objects(q.query) : q'.query.names[n] = q.query.names[n]
      /\ \A n \in Objects(q.fence) : q'.fence.names[n] = q.fence.names[n]
      /\ q'.active = q.active /\ q'.ended = q.ended /\ StateIs(q')
  BY DEF Alike, SameTable
<1>2. QueryShapes' BY <1>1 DEF QueryInv, QueryShapes
<1>3. QueryStamps' BY DEF QueryInv, QueryStamps
<1>4. QueryNative'
  <2>1. \A n \in Objects(q.query) : NativeOf(n)' = NativeOf(n) BY <1>1 DEF NativeOf
  <2>2. q.active # 0 => q.active \in Objects(q.query) BY DEF QueryInv, QueryNative
  <2> QED BY <1>1, <2>1, <2>2 DEF QueryInv, QueryNative
<1>5. QueryQueue' BY <1>1 DEF QueryInv, QueryQueue, Queues, Holds
<1>6. FenceStamps' BY <1>1 DEF QueryInv, FenceStamps
<1> QED BY <1>2, <1>3, <1>4, <1>5, <1>6 DEF QueryInv

LEMMA AlikeStep ==
    ASSUME QueryInv, Alike(q'), UNCHANGED <<kind, native, gpu, told>>, answer' = Silent
    PROVE  QueryStep
BY SilentStep, AlikeKeeps DEF QueryStep

(* One name reserved: what BeginQuery and SetFence look at.                  *)
LEMMA ObtainedIs ==
    ASSUME QueryInv, NEW s, Alike(s), NEW k \in {"query", "fence"}, NEW n
    PROVE  Alike(Obtained(s, k, n))
<1> DEFINE o == Obtained(s, k, n)
<1>1. CASE o = s BY <1>1
<1>2. CASE /\ n \notin DOMAIN s[k].names /\ Cardinality(DOMAIN s[k].names) < MaxQueries
           /\ o = [s EXCEPT ![k].names = WithName(@, n, Reserved)]
  <2>1. StateIs(s) /\ TableIs(s[k]) BY DEF Alike, StateIs
  <2>2. /\ DOMAIN o = {"there", "query", "fence", "active", "ended", "charged"}
        /\ o.active = s.active /\ o.ended = s.ended
        /\ DOMAIN o[k] = {"there", "names", "next"}
        /\ o[k].names = WithName(s[k].names, n, Reserved)
        /\ \A l \in {"query", "fence"} : l # k => o[l] = s[l]
    <3>1. CASE k = "query" BY <3>1, <1>2, <2>1 DEF StateIs, TableIs
    <3>2. CASE k = "fence" BY <3>2, <1>2, <2>1 DEF StateIs, TableIs
    <3> QED BY <3>1, <3>2
  <2>3. o[k].names = [m \in DOMAIN s[k].names \union {n} |->
                        IF m \in {n} THEN Reserved ELSE s[k].names[m]]
    BY <2>2 DEF WithName
  <2> HIDE DEF o
  <2>4. TableIs(o[k]) /\ SameTable(o[k], s[k])
    <3>1. IsFiniteSet({n}) /\ Cardinality({n}) = 1 BY FS_Singleton
    <3>2. {n} \intersect DOMAIN s[k].names = {} BY <1>2
    <3>3. Cardinality(DOMAIN s[k].names) \in Nat BY <2>1, FS_CardinalityType DEF TableIs
    <3>4. Cardinality(DOMAIN s[k].names) + Cardinality({n}) <= MaxQueries
      BY <1>2, <3>1, <3>3, QueryLimits
    <3> QED BY <2>1, <2>2, <2>3, <3>1, <3>2, <3>4, ReserveIs
  <2>5. ASSUME k = "query" PROVE Alike(o)
    <3>1. o.fence = s.fence BY <2>2, <2>5
    <3>2. TableIs(o.query) /\ SameTable(o.query, s.query) BY <2>4, <2>5
    <3>3. TableIs(s.fence) /\ SameTable(s.fence, q.fence) BY <2>1 DEF Alike, StateIs
    <3>4. SameTable(o.query, q.query) /\ SameTable(o.fence, q.fence)
      BY <3>1, <3>2 DEF Alike, SameTable
    <3>5. StateIs(o) BY <2>2, <3>1, <3>2, <3>3 DEF StateIs
    <3>6. s.active = q.active /\ s.ended = q.ended BY DEF Alike
    <3> QED BY <2>2, <3>4, <3>5, <3>6 DEF Alike
  <2>6. ASSUME k = "fence" PROVE Alike(o)
    <3>1. o.query = s.query BY <2>2, <2>6
    <3>2. TableIs(o.fence) /\ SameTable(o.fence, s.fence) BY <2>4, <2>6
    <3>3. TableIs(s.query) /\ SameTable(s.query, q.query) BY <2>1 DEF Alike, StateIs
    <3>4. SameTable(o.fence, q.fence) /\ SameTable(o.query, q.query)
      BY <3>1, <3>2 DEF Alike, SameTable
    <3>5. StateIs(o) BY <2>2, <3>1, <3>2, <3>3 DEF StateIs
    <3>6. s.active = q.active /\ s.ended = q.ended BY DEF Alike
    <3> QED BY <2>2, <3>4, <3>5, <3>6 DEF Alike
  <2> QED BY <2>5, <2>6 DEF o
<1>3. Cardinality(DOMAIN s[k].names) \in Nat
  BY FS_CardinalityType DEF Alike, StateIs, TableIs
<1>4. \/ o = s
      \/ /\ n \notin DOMAIN s[k].names /\ Cardinality(DOMAIN s[k].names) < MaxQueries
         /\ o = [s EXCEPT ![k].names = WithName(@, n, Reserved)]
  BY <1>3, QueryLimits DEF Obtained
<1> QED BY <1>1, <1>2, <1>4

(* There is a native object that is not in use.                              *)
LEMMA NativeFree ==
    ASSUME QueryInv
    PROVE  \E i \in 1..(MaxQueries + 1) : i \notin DOMAIN native.ends
<1> DEFINE O == Objects(q.query)
           D == DOMAIN native.ends
           f == [n \in O |-> NativeOf(n)]
<1>1. IsFiniteSet(O) /\ Cardinality(O) <= MaxQueries
  <2>1. /\ IsFiniteSet(DOMAIN q.query.names) /\ Cardinality(DOMAIN q.query.names) <= MaxQueries
    BY DEF QueryInv, QueryShapes, StateIs, TableIs
  <2>2. O \in SUBSET DOMAIN q.query.names BY DEF Objects
  <2>3. /\ IsFiniteSet(O) /\ Cardinality(O) <= Cardinality(DOMAIN q.query.names)
    BY <2>1, <2>2, FS_Subset
  <2>4. Cardinality(O) \in Nat /\ Cardinality(DOMAIN q.query.names) \in Nat
    BY <2>1, <2>3, FS_CardinalityType
  <2> QED BY <2>1, <2>3, <2>4, QueryLimits
<1>2. f \in Surjection(O, D)
  <2>1. \A n \in O : NativeOf(n) \in D BY DEF QueryInv, QueryNative
  <2>2. \A i \in D : \E n \in O : NativeOf(n) = i BY DEF QueryInv, QueryNative
  <2> HIDE DEF O, D
  <2> QED BY <2>1, <2>2 DEF Surjection
<1> HIDE DEF O, f
<1>3. IsFiniteSet(D) /\ Cardinality(D) <= Cardinality(O) BY <1>1, <1>2, FS_Surjection
<1>4. Cardinality(D) \in Nat /\ Cardinality(O) \in Nat BY <1>1, <1>3, FS_CardinalityType
<1>5. SUFFICES ASSUME 1..(MaxQueries + 1) \subseteq D PROVE FALSE OBVIOUS
<1>6. Cardinality(1..(MaxQueries + 1)) = MaxQueries + 1 BY FS_Interval, QueryLimits
<1>7. Cardinality(1..(MaxQueries + 1)) <= Cardinality(D)
  <2>1. 1..(MaxQueries + 1) \in SUBSET D BY <1>5
  <2> HIDE DEF D
  <2> QED BY <2>1, <1>3, FS_Subset
<1> QED BY <1>1, <1>3, <1>4, <1>6, <1>7, QueryLimits

(* An entry becomes an object, or is one again.                              *)
EntryMade(t, u, n, e) ==
    /\ n \in QNames /\ n \in DOMAIN u.names /\ e \in Entries /\ e.object = TRUE
    /\ DOMAIN t = {"there", "names", "next"} /\ t.names = [u.names EXCEPT ![n] = e]
LEMMA EntryChange ==
    ASSUME NEW u, TableIs(u), NEW v, SameTable(u, v), NEW t, NEW n, NEW e, EntryMade(t, u, n, e)
    PROVE  /\ TableIs(t) /\ Objects(t) = Objects(v) \union {n}
           /\ t.names[n] = e
           /\ \A m \in Objects(v) : m # n => t.names[m] = v.names[m]
<1>1. /\ DOMAIN t.names = DOMAIN u.names /\ t.names[n] = e
      /\ \A m \in DOMAIN u.names : m # n => t.names[m] = u.names[m]
      /\ t.names = [m \in DOMAIN t.names |-> t.names[m]]
  BY DEF EntryMade
<1>2. Objects(t) = Objects(u) \union {n} BY <1>1 DEF Objects, EntryMade
<1>3. \A m \in DOMAIN t.names : t.names[m] \in Entries BY <1>1 DEF TableIs, EntryMade
<1>4. TableIs(t)
  <2>1. Objects(u) \subseteq QNames BY DEF TableIs
  <2> QED BY <2>1, <1>1, <1>2, <1>3 DEF TableIs, EntryMade
<1>5. \A m \in Objects(v) : m # n => t.names[m] = v.names[m]
  <2>1. \A m \in Objects(u) : m \in DOMAIN u.names BY DEF Objects
  <2> QED BY <2>1, <1>1 DEF SameTable
<1> QED BY <1>1, <1>2, <1>4, <1>5 DEF SameTable

(* BeginQuery, when it begins one.                                           *)
LEMMA BegunKeeps ==
    ASSUME QueryInv, q.active = 0, UNCHANGED <<kind, gpu, told>>, answer' = Silent,
           NEW o, Alike(o), NEW n \in QNames, n \in DOMAIN o.query.names,
           NEW id \in Nat \ {0}, NEW e, e = o.query.names[n], NEW c,
           q' = [o EXCEPT !.query.names[n] = [e EXCEPT !.object = TRUE, !.native = id],
                          !.charged = c, !.ended = Retired(@, n), !.active = n],
           DOMAIN native' = DOMAIN native, native'.active = id, native'.misused = FALSE,
           \/ e.object /\ id = e.native /\ native'.ends = native.ends
           \/ ~e.object /\ id \notin DOMAIN native.ends /\ native'.ends = WithName(native.ends, id, 0)
    PROVE  QueryStep
<1> DEFINE f == [e EXCEPT !.object = TRUE, !.native = id]
<1>1. StateIs(o) /\ SameTable(o.query, q.query) /\ SameTable(o.fence, q.fence)
      /\ o.ended = q.ended BY DEF Alike
<1>2. e \in Entries BY <1>1 DEF StateIs, TableIs
<1>3. f \in Entries /\ f.object = TRUE /\ f.native = id BY <1>2 DEF Entries
<1>4. /\ DOMAIN q' = {"there", "query", "fence", "active", "ended", "charged"}
      /\ DOMAIN q'.query = {"there", "names", "next"}
      /\ q'.query.names = [o.query.names EXCEPT ![n] = f]
      /\ q'.fence = o.fence /\ q'.active = n /\ q'.ended = Retired(q.ended, n)
  BY <1>1 DEF StateIs, TableIs
<1> HIDE DEF f
<1>5. /\ TableIs(q'.query) /\ Objects(q'.query) = Objects(q.query) \union {n}
      /\ q'.query.names[n] = f
      /\ \A m \in Objects(q.query) : m # n => q'.query.names[m] = q.query.names[m]
  <2>1. TableIs(o.query) BY <1>1 DEF StateIs
  <2>2. EntryMade(q'.query, o.query, n, f) BY <1>3, <1>4 DEF EntryMade
  <2> QED BY <2>1, <2>2, <1>1, EntryChange
<1>6. n \in Objects(q.query) <=> e.object
  <2>1. n \in Objects(o.query) <=> e.object BY <1>2 DEF Objects, Entries
  <2> QED BY <2>1, <1>1 DEF SameTable
<1>7. n \in Objects(q.query) => e = q.query.names[n] BY <1>1 DEF SameTable
<1>8. QueryShapes'
  <2>1. StateIs(q') BY <1>1, <1>4, <1>5 DEF StateIs
  <2> QED BY <2>1 DEF QueryInv, QueryShapes
<1>9. QueryStamps' BY DEF QueryInv, QueryStamps
<1>10. QueryNative'
  <2>1. /\ NativeOf(n)' = id
        /\ \A m \in Objects(q.query) : m # n => NativeOf(m)' = NativeOf(m)
    BY <1>3, <1>5 DEF NativeOf
  <2>2. /\ \A m \in Objects(q.query) :
             /\ NativeOf(m) # 0 /\ NativeOf(m) \in DOMAIN native.ends
             /\ native.ends[NativeOf(m)] = told.query[m]
        /\ \A m, l \in Objects(q.query) : NativeOf(m) = NativeOf(l) => m = l
        /\ \A i \in DOMAIN native.ends : \E m \in Objects(q.query) : NativeOf(m) = i
        /\ native.ends = [i \in DOMAIN native.ends |-> native.ends[i]]
        /\ \A m \in QNames \ Objects(q.query) : told.query[m] = 0
    BY DEF QueryInv, QueryNative
  <2>5. q'.active # 0 /\ q'.active \in Objects(q'.query) /\ native'.active = NativeOf(q.active)'
    <3>1. n # 0 BY QueryLimits DEF QNames
    <3> QED BY <3>1, <1>3, <1>4, <1>5 DEF NativeOf
  <2>3. CASE e.object /\ id = e.native /\ native'.ends = native.ends
    <3>1. n \in Objects(q.query) /\ id = NativeOf(n) BY <2>3, <1>6, <1>7 DEF NativeOf
    <3>2. Objects(q'.query) = Objects(q.query) /\ \A m \in Objects(q.query) : NativeOf(m)' = NativeOf(m)
      BY <3>1, <1>5, <2>1
    <3>3. \A m \in Objects(q'.query) :
            /\ NativeOf(m)' # 0 /\ NativeOf(m)' \in DOMAIN native'.ends
            /\ native'.ends[NativeOf(m)'] = told'.query[m]
      BY <3>2, <2>2, <2>3
    <3>4. \A m, l \in Objects(q'.query) : NativeOf(m)' = NativeOf(l)' => m = l BY <3>2, <2>2
    <3>5. \A i \in DOMAIN native'.ends : \E m \in Objects(q'.query) : NativeOf(m)' = i
      BY <3>2, <2>2, <2>3
    <3>6. \A m \in QNames \ Objects(q'.query) : told'.query[m] = 0 BY <3>2, <2>2
    <3> QED BY <3>3, <3>4, <3>5, <3>6, <2>2, <2>3, <2>5 DEF QueryNative
  <2>4. CASE ~e.object /\ id \notin DOMAIN native.ends /\ native'.ends = WithName(native.ends, id, 0)
    <3>1. n \notin Objects(q.query) /\ told.query[n] = 0 BY <2>4, <1>6, <2>2
    <3>2. /\ DOMAIN native'.ends = DOMAIN native.ends \union {id}
          /\ native'.ends[id] = 0
          /\ \A i \in DOMAIN native.ends : native'.ends[i] = native.ends[i]
          /\ native'.ends = [i \in DOMAIN native'.ends |-> native'.ends[i]]
      BY <2>4 DEF WithName
    <3>3. \A m \in Objects(q.query) : NativeOf(m)' = NativeOf(m) /\ NativeOf(m)' # id
      BY <3>1, <2>1, <2>2, <2>4
    <3>4. \A m \in Objects(q'.query) :
            /\ NativeOf(m)' # 0 /\ NativeOf(m)' \in DOMAIN native'.ends
            /\ native'.ends[NativeOf(m)'] = told'.query[m]
      BY <3>1, <3>2, <3>3, <1>5, <2>1, <2>2
    <3>5. \A m, l \in Objects(q'.query) : NativeOf(m)' = NativeOf(l)' => m = l
      BY <3>3, <1>5, <2>1, <2>2
    <3>6. \A i \in DOMAIN native'.ends : \E m \in Objects(q'.query) : NativeOf(m)' = i
      BY <3>2, <3>3, <1>5, <2>1, <2>2
    <3>7. \A m \in QNames \ Objects(q'.query) : told'.query[m] = 0 BY <1>5, <2>2
    <3> QED BY <3>2, <3>4, <3>5, <3>6, <3>7, <2>5 DEF QueryNative
  <2> QED BY <2>3, <2>4
<1>11. QueryQueue'
  <2>1. told.query \in [QNames -> Nat] /\ q.ended \in Queues(told.query)
    BY DEF QueryInv, QueryStamps, QueryQueue
  <2>2. /\ Retired(q.ended, n) \in Queues(told.query)
        /\ \A m : Holds(Retired(q.ended, n), m) <=> Holds(q.ended, m) /\ m # n
    BY <2>1, RetiredKeeps
  <2>3. \A m \in QNames : Holds(q.ended, m) =>
          m \in Objects(q.query) /\ told.query[m] # 0 /\ told.query[m] \notin told.delivered
    BY DEF QueryInv, QueryQueue
  <2>4. Queues(told.query)' = Queues(told.query) BY DEF Queues
  <2>5. \A m : Holds(q'.ended, m) <=> Holds(q.ended, m) /\ m # n BY <2>2, <1>4
  <2>6. \A m \in QNames : Holds(q.ended, m)' <=> Holds(q'.ended, m) BY DEF Holds
  <2> QED BY <2>2, <2>3, <2>4, <2>5, <2>6, <1>4, <1>5 DEF QueryQueue
<1>12. FenceStamps'
  <2>1. Objects(q'.fence) = Objects(q.fence)
        /\ \A m \in Objects(q.fence) : q'.fence.names[m] = q.fence.names[m]
    BY <1>1, <1>4 DEF SameTable
  <2> QED BY <2>1 DEF QueryInv, FenceStamps
<1> QED BY <1>8, <1>9, <1>10, <1>11, <1>12, SilentStep DEF QueryStep, QueryInv

LEMMA BeginStep == ASSUME QueryInv, UNCHANGED kind, BeginQuery PROVE QueryStep
<1>1. PICK n \in 0..QueryNames, refused \in QueryRefusals :
        LET s == Ensured(q, refused)
            t == Tabled(s, "query", refused)
            o == Obtained(t, "query", n)
            e == o.query.names[n]
            id == CHOOSE i \in 1..(MaxQueries + 1) : i \notin DOMAIN native.ends
            begun(name) == [o EXCEPT !.query.names[n] = [e EXCEPT !.object = TRUE, !.native = name],
                                     !.charged = IF e.object THEN @ ELSE @ + 1,
                                     !.ended = Retired(@, n), !.active = n]
        IN /\ \/ /\ ~s.there \/ s.active # 0 \/ n = 0
                 /\ q' = s /\ UNCHANGED native
              \/ /\ s.there /\ s.active = 0 /\ n # 0
                 /\ IF n \notin DOMAIN o.query.names THEN q' = t /\ UNCHANGED native
                    ELSE IF e.object
                      THEN /\ q' = begun(e.native)
                           /\ native' = [native EXCEPT !.active = e.native,
                                                       !.misused = @ \/ native.active # 0]
                    ELSE IF CanCharge(o) /\ "native" \notin refused
                      THEN /\ q' = begun(id)
                           /\ native' = [native EXCEPT !.active = id, !.ends = WithName(@, id, 0),
                                                       !.misused = @ \/ native.active # 0]
                    ELSE q' = t /\ UNCHANGED native
           /\ answer' = Silent
           /\ UNCHANGED <<gpu, told>>
  BY DEF BeginQuery
<1> DEFINE s == Ensured(q, refused)
           t == Tabled(s, "query", refused)
           o == Obtained(t, "query", n)
           e == o.query.names[n]
           id == CHOOSE i \in 1..(MaxQueries + 1) : i \notin DOMAIN native.ends
           c == IF e.object THEN o.charged ELSE o.charged + 1
           begun(name) == [o EXCEPT !.query.names[n] = [e EXCEPT !.object = TRUE, !.native = name],
                                    !.charged = c, !.ended = Retired(@, n), !.active = n]
<1>2. answer' = Silent /\ UNCHANGED <<kind, gpu, told>> BY <1>1
<1>3. Alike(s) BY EnsuredIs
<1>4. Alike(t) BY TabledIs
<1>5. Alike(o)
  <2> HIDE DEF t
  <2> QED BY <1>4, ObtainedIs
<1>6. s.active = q.active BY <1>3 DEF Alike
<1>7. DOMAIN native = {"ends", "active", "misused"} /\ native.misused = FALSE
  BY DEF QueryInv, QueryShapes, QueryNative
<1>8. id \in 1..(MaxQueries + 1) /\ id \notin DOMAIN native.ends BY NativeFree
<1>9. \/ (q' = s \/ q' = t) /\ UNCHANGED native
      \/ /\ s.active = 0 /\ n # 0 /\ n \in DOMAIN o.query.names
         /\ \/ /\ e.object /\ q' = begun(e.native)
               /\ native' = [native EXCEPT !.active = e.native, !.misused = @ \/ native.active # 0]
            \/ /\ ~e.object /\ q' = begun(id)
               /\ native' = [native EXCEPT !.active = id, !.ends = WithName(@, id, 0),
                                           !.misused = @ \/ native.active # 0]
  BY <1>1
<1> HIDE DEF s, t, o, id
<1>10. CASE (q' = s \/ q' = t) /\ UNCHANGED native
  BY <1>2, <1>3, <1>4, <1>10, AlikeStep
<1>11. ASSUME s.active = 0, n # 0, n \in DOMAIN o.query.names PROVE n \in QNames /\ q.active = 0 /\ native.active = 0
  BY <1>6, <1>11 DEF QNames, QueryInv, QueryNative
<1>12. CASE /\ s.active = 0 /\ n # 0 /\ n \in DOMAIN o.query.names /\ e.object
            /\ q' = begun(e.native)
            /\ native' = [native EXCEPT !.active = e.native, !.misused = @ \/ native.active # 0]
  <2>1. e.native \in Nat \ {0}
    <3>1. TableIs(o.query) /\ SameTable(o.query, q.query) BY <1>5 DEF Alike, StateIs
    <3>2. e \in Entries BY <3>1, <1>12 DEF TableIs
    <3>3. n \in Objects(q.query) /\ e = q.query.names[n]
      BY <3>1, <1>12 DEF Objects, SameTable
    <3>4. e.native # 0 BY <3>3 DEF QueryInv, QueryNative, NativeOf
    <3>5. e.native \in Nat BY <3>2 DEF Entries
    <3> QED BY <3>4, <3>5
  <2>2. /\ DOMAIN native' = DOMAIN native /\ native'.active = e.native
        /\ native'.misused = FALSE /\ native'.ends = native.ends
    BY <1>7, <1>11, <1>12
  <2>3. n \in QNames /\ q.active = 0 BY <1>11, <1>12
  <2> HIDE DEF c
  <2> QED BY <1>2, <1>5, <1>12, <2>1, <2>2, <2>3, BegunKeeps
<1>13. CASE /\ s.active = 0 /\ n # 0 /\ n \in DOMAIN o.query.names /\ ~e.object
            /\ q' = begun(id)
            /\ native' = [native EXCEPT !.active = id, !.ends = WithName(@, id, 0),
                                        !.misused = @ \/ native.active # 0]
  <2>1. id \in Nat \ {0} BY <1>8
  <2>2. /\ DOMAIN native' = DOMAIN native /\ native'.active = id
        /\ native'.misused = FALSE /\ native'.ends = WithName(native.ends, id, 0)
    BY <1>7, <1>11, <1>13
  <2>3. n \in QNames /\ q.active = 0 BY <1>11, <1>13
  <2> HIDE DEF c
  <2> QED BY <1>2, <1>5, <1>8, <1>13, <2>1, <2>2, <2>3, BegunKeeps
<1> QED BY <1>9, <1>10, <1>12, <1>13

(* Queued behind the others, for one of them when the queue is full.         *)
LEMMA QueuedIs ==
    ASSUME NEW w \in [QNames -> Nat], NEW u \in Queues(w), NEW a \in QNames, ~Holds(u, a),
           NEW v \in [QNames -> Nat], \A m \in QNames : m # a => v[m] = w[m] /\ w[m] < v[a]
    PROVE  /\ Queued(u, a) \in Queues(v)
           /\ \A m : Holds(Queued(u, a), m) => Holds(u, m) \/ m = a
<1> DEFINE full == Len(u) = Ended
           d == IF full THEN 1 ELSE 0
           t == IF full THEN Tail(u) ELSE u
           r == Queued(u, a)
<1>1. u \in Seq(QNames) /\ Len(u) \in Nat /\ \A i, j \in 1..Len(u) : i < j => w[u[i]] < w[u[j]]
  BY DEF Queues
<1>2. t \in Seq(QNames) /\ Len(t) = Len(u) - d /\ \A k \in 1..Len(t) : t[k] = u[k + d] /\ k + d \in 1..Len(u)
  <2>1. CASE full
    <3>1. u # <<>> BY <2>1, QueryLimits
    <3>2. Tail(u) \in Seq(QNames) /\ Len(Tail(u)) = Len(u) - 1
          /\ \A k \in 1..(Len(u) - 1) : Tail(u)[k] = u[k + 1]
      BY <1>1, <3>1
    <3> QED BY <1>1, <2>1, <3>2
  <2>2. CASE ~full BY <1>1, <2>2
  <2> QED BY <2>1, <2>2
<1>3. r = Append(t, a) BY DEF Queued
<1>4. d \in Nat OBVIOUS
<1> HIDE DEF t, d, r, full
<1>5. /\ r \in Seq(QNames) /\ Len(r) = Len(t) + 1 /\ r[Len(t) + 1] = a
      /\ \A k \in 1..Len(t) : r[k] = t[k]
  BY <1>2, <1>3
<1>6. \A k \in 1..Len(t) : r[k] \in QNames /\ r[k] # a /\ r[k] = u[k + d]
  <2>1. \A i \in 1..Len(u) : u[i] # a /\ u[i] \in QNames BY <1>1 DEF Holds
  <2>2. \A k \in 1..Len(t) : r[k] = u[k + d] /\ k + d \in 1..Len(u) BY <1>2, <1>5
  <2> QED BY <2>1, <2>2
<1>7. Len(t) \in Nat BY <1>2
<1>8. ASSUME NEW i \in 1..Len(r), NEW j \in 1..Len(r), i < j PROVE v[r[i]] < v[r[j]]
  <2>1. i \in 1..Len(t) BY <1>5, <1>7, <1>8
  <2>2. CASE j = Len(t) + 1 BY <1>5, <1>6, <2>1, <2>2
  <2>3. CASE j # Len(t) + 1
    <3>1. j \in 1..Len(t) BY <1>5, <1>7, <2>3
    <3>2. w[u[i + d]] < w[u[j + d]]
      <4>1. i + d \in 1..Len(u) /\ j + d \in 1..Len(u) BY <1>2, <2>1, <3>1
      <4>2. i + d < j + d BY <1>4, <1>8
      <4> QED BY <1>1, <4>1, <4>2
    <3> QED BY <1>6, <2>1, <3>1, <3>2
  <2> QED BY <2>2, <2>3
<1>9. ASSUME NEW m, Holds(r, m) PROVE Holds(u, m) \/ m = a
  <2>1. PICK k \in 1..Len(r) : r[k] = m BY <1>9 DEF Holds
  <2>2. k = Len(t) + 1 \/ k \in 1..Len(t) BY <1>5, <1>7
  <2> QED BY <1>2, <1>5, <1>6, <2>1, <2>2 DEF Holds
<1> QED BY <1>5, <1>8, <1>9 DEF Queues, r

LEMMA EndStep == ASSUME QueryInv, UNCHANGED kind, EndQuery PROVE QueryStep
<1> DEFINE a == q.active
           g == gpu.given + 1
<1>1. answer' = Silent BY DEF EndQuery
<1>2. CASE a = 0
  <2>1. UNCHANGED <<q, native, gpu, told>> BY <1>2 DEF EndQuery
  <2> QED BY <1>1, <2>1, AlikeSelf, AlikeStep
<1>3. CASE a # 0
  <2>1. /\ q' = [q EXCEPT !.ended = Queued(@, a), !.active = 0]
        /\ gpu' = [gpu EXCEPT !.given = @ + 1]
        /\ native' = [native EXCEPT !.ends[native.active] = g, !.active = 0]
        /\ told' = [told EXCEPT !.query[a] = g]
    BY <1>3 DEF EndQuery
  <2>2. /\ DOMAIN q = {"there", "query", "fence", "active", "ended", "charged"}
        /\ DOMAIN native = {"ends", "active", "misused"} /\ DOMAIN gpu = {"given", "done"}
        /\ DOMAIN told = {"query", "fence", "delivered"}
        /\ TableIs(q.query) /\ TableIs(q.fence) /\ kind \in {"query", "fence"}
    BY DEF QueryInv, QueryShapes, StateIs
  <2>3. QueryStamps BY DEF QueryInv
  <2>4. /\ q'.query = q.query /\ q'.fence = q.fence /\ q'.active = 0 /\ q'.ended = Queued(q.ended, a)
        /\ DOMAIN q' = DOMAIN q
    BY <2>1, <2>2
  <2>5. gpu'.given = g /\ gpu'.done = gpu.done /\ DOMAIN gpu' = DOMAIN gpu BY <2>1, <2>2
  <2>6. a \in Objects(q.query) /\ native.active = NativeOf(a) BY <1>3 DEF QueryInv, QueryNative
  <2>7. a \in QNames BY <2>2, <2>6 DEF TableIs
  <2>8. /\ told'.fence = told.fence /\ told'.delivered = told.delivered
        /\ told'.query = [told.query EXCEPT ![a] = g] /\ DOMAIN told' = DOMAIN told
    BY <2>1, <2>2
  <2>9. /\ DOMAIN native' = DOMAIN native /\ native'.active = 0 /\ native'.misused = native.misused
        /\ native'.ends = [native.ends EXCEPT ![native.active] = g]
    BY <2>1, <2>2
  <2> HIDE DEF a
  <2>10. /\ g \in Nat /\ g > 0 /\ gpu.given \in Nat /\ told.query \in [QNames -> Nat]
         /\ \A m \in QNames : told.query[m] < g /\ told.fence[m] < g
         /\ gpu.done \in 0..gpu.given /\ gpu.done \in 0..g
         /\ told.delivered \subseteq 0..gpu.given
    BY <2>3 DEF QueryStamps
  <2>11. /\ told'.query \in [QNames -> Nat] /\ told'.query[a] = g
         /\ \A m \in QNames : m # a => told'.query[m] = told.query[m]
    BY <2>7, <2>8, <2>10
  <2>12. QueryShapes' BY <2>2, <2>4, <2>5, <2>8, <2>9 DEF QueryShapes, StateIs
  <2>13. QueryStamps'
    <3>1. \A m \in QNames : told'.query[m] <= g /\ told'.fence[m] <= g
      BY <2>8, <2>10, <2>11, <2>3 DEF QueryStamps
    <3>2. \A x \in 0..gpu.given : x \in 0..g BY <2>10
    <3>3. \A m, n \in QNames : told'.query[m] = told'.query[n] /\ told'.query[m] # 0 => m = n
      <4>1. \A m \in QNames : m # a => told'.query[m] # g BY <2>10, <2>11
      <4> QED BY <4>1, <2>11, <2>3 DEF QueryStamps
    <3>4. told'.fence \in [QNames -> Nat] BY <2>8, <2>3 DEF QueryStamps
    <3> HIDE DEF g
    <3> QED BY <3>1, <3>2, <3>3, <3>4, <2>5, <2>8, <2>10, <2>11 DEF QueryStamps
  <2>14. QueryNative'
    <3>1. /\ Objects(q'.query) = Objects(q.query)
          /\ \A m \in Objects(q.query) : NativeOf(m)' = NativeOf(m)
      BY <2>4 DEF NativeOf
    <3>2. /\ \A m \in Objects(q.query) :
               /\ NativeOf(m) # 0 /\ NativeOf(m) \in DOMAIN native.ends
               /\ native.ends[NativeOf(m)] = told.query[m]
          /\ \A m, l \in Objects(q.query) : NativeOf(m) = NativeOf(l) => m = l
          /\ \A i \in DOMAIN native.ends : \E m \in Objects(q.query) : NativeOf(m) = i
          /\ \A m \in QNames \ Objects(q.query) : told.query[m] = 0
          /\ native.misused = FALSE
      BY DEF QueryInv, QueryNative
    <3>3. /\ DOMAIN native'.ends = DOMAIN native.ends
          /\ native'.ends[NativeOf(a)] = g
          /\ \A i \in DOMAIN native.ends : i # NativeOf(a) => native'.ends[i] = native.ends[i]
          /\ native'.ends = [i \in DOMAIN native'.ends |-> native'.ends[i]]
      BY <2>6, <2>9, <3>2
    <3>4. \A m \in Objects(q.query) : m \in QNames BY <2>2 DEF TableIs
    <3>5. \A m \in Objects(q.query) : native'.ends[NativeOf(m)] = told'.query[m]
      BY <2>6, <2>11, <3>2, <3>3, <3>4
    <3>6. \A m \in QNames \ Objects(q.query) : told'.query[m] = 0 BY <2>6, <2>11, <3>2
    <3> QED BY <2>4, <2>9, <3>1, <3>2, <3>3, <3>5, <3>6 DEF QueryNative
  <2>15. QueryQueue'
    <3>1. /\ q.ended \in Queues(told.query) /\ ~Holds(q.ended, a)
          /\ \A m \in QNames : Holds(q.ended, m) =>
               /\ m \in Objects(q.query) /\ m # a
               /\ told.query[m] # 0 /\ told.query[m] \notin told.delivered
      BY <2>7 DEF QueryInv, QueryQueue, a
    <3>2. /\ Queued(q.ended, a) \in Queues(told'.query)
          /\ \A m : Holds(Queued(q.ended, a), m) => Holds(q.ended, m) \/ m = a
      BY <2>7, <2>10, <2>11, <3>1, QueuedIs
    <3>3. g \notin told.delivered BY <2>10
    <3>4. Queues(told.query)' = Queues(told'.query) BY DEF Queues
    <3>5. \A m : Holds(q.ended, m)' <=> Holds(q'.ended, m) BY DEF Holds
    <3>6. \A m \in QNames : m # 0 BY DEF QNames
    <3>7. \A m \in QNames : Holds(q'.ended, m) =>
            /\ m \in Objects(q'.query) /\ m # q'.active
            /\ told'.query[m] # 0 /\ told'.query[m] \notin told'.delivered
      BY <2>4, <2>6, <2>7, <2>8, <2>10, <2>11, <3>1, <3>2, <3>3, <3>6
    <3> QED BY <2>4, <3>2, <3>4, <3>5, <3>7 DEF QueryQueue
  <2>16. FenceStamps' BY <2>4, <2>5, <2>8 DEF QueryInv, FenceStamps
  <2> QED BY <1>1, <2>12, <2>13, <2>14, <2>15, <2>16, SilentStep DEF QueryStep, QueryInv
<1> QED BY <1>2, <1>3

(* The reports are of the first ones queued, up to the barrier.              *)
FirstQueued(u, n, done, count) ==
    LET all == Reportable(u, n, done)
    IN SubSeq(all, 1, IF Len(all) < count THEN Len(all) ELSE count)

LEMMA ReportableIs ==
    ASSUME NEW u \in Seq(QNames), NEW n, NEW done, NEW count \in Nat
    PROVE  LET more == FirstQueued(u, n, done, count)
           IN \E l \in 0..Len(u) :
                /\ DOMAIN more = 1..l /\ Len(more) = l
                /\ \A k \in 1..l : more[k] = u[k] /\ Available(u[k], done)
<1> DEFINE barriers == {k \in DOMAIN u : u[k] = n \/ ~Available(u[k], done)}
           all == Reportable(u, n, done)
           c == IF Len(all) < count THEN Len(all) ELSE count
           more == SubSeq(all, 1, c)
<1>1. Len(u) \in Nat /\ DOMAIN u = 1..Len(u) OBVIOUS
<1>2. \E p \in 0..Len(u) : /\ all \in Seq(QNames) /\ Len(all) = p
                           /\ \A k \in 1..p : all[k] = u[k] /\ Available(u[k], done)
  <2>1. CASE barriers = {}
    <3>1. all = u BY <2>1 DEF Reportable
    <3>2. \A k \in 1..Len(u) : Available(u[k], done) BY <1>1, <2>1
    <3>3. Len(u) \in 0..Len(u) BY <1>1
    <3> HIDE DEF all
    <3> QED BY <3>1, <3>2, <3>3
  <2>2. CASE barriers # {}
    <3> DEFINE b == CHOOSE k \in barriers : \A j \in barriers : k <= j
    <3>1. barriers \in SUBSET Nat BY <1>1
    <3>2. b \in barriers /\ \A j \in barriers : b <= j
      <4>1. \E k \in barriers : \A j \in barriers : k <= j
        <5> HIDE DEF barriers
        <5> QED BY <2>2, <3>1, LeastNat
      <4> HIDE DEF barriers
      <4> QED BY <4>1
    <3>3. all = SubSeq(u, 1, b - 1) BY <2>2 DEF Reportable
    <3>4. b \in 1..Len(u) BY <3>2, <1>1
    <3>5. \A k \in 1..(b - 1) : Available(u[k], done)
      <4>1. ASSUME NEW k \in 1..(b - 1) PROVE k \in DOMAIN u /\ k \notin barriers
        <5>1. k \in DOMAIN u /\ ~(b <= k) BY <1>1, <3>4
        <5> HIDE DEF b, barriers
        <5> QED BY <5>1, <3>2
      <4> QED BY <4>1
    <3> HIDE DEF b, all
    <3>6. all \in Seq(QNames) /\ Len(all) = b - 1 /\ \A k \in 1..(b - 1) : all[k] = u[k]
      BY <1>1, <3>3, <3>4
    <3>7. b - 1 \in 0..Len(u) BY <1>1, <3>4
    <3> QED BY <3>5, <3>6, <3>7
  <2> QED BY <2>1, <2>2
<1> HIDE DEF all
<1>3. PICK p \in 0..Len(u) : /\ all \in Seq(QNames) /\ Len(all) = p
                             /\ \A k \in 1..p : all[k] = u[k] /\ Available(u[k], done)
  BY <1>2
<1>4. c \in 0..p BY <1>3
<1> HIDE DEF c
<1>5. Len(more) = c /\ DOMAIN more = 1..c /\ \A k \in 1..c : more[k] = all[k]
  BY <1>3, <1>4
<1>6. c \in 0..Len(u) /\ \A k \in 1..c : k \in 1..p BY <1>1, <1>3, <1>4
<1> QED BY <1>3, <1>5, <1>6 DEF c, all, FirstQueued

Asked(n, wait, count) ==
    LET stamp == native.ends[q.query.names[n].native]
        ready == wait \/ Available(n, gpu.done)
        done == IF ready /\ gpu.done < stamp THEN stamp ELSE gpu.done
        ended == IF ready THEN Retired(q.ended, n) ELSE q.ended
        all == Reportable(ended, n, done)
        more == SubSeq(all, 1, IF Len(all) < count THEN Len(all) ELSE count)
        left == RetiredAll(ended, more)
        results == [k \in DOMAIN more |-> Result(more[k])]
    IN /\ q' = [q EXCEPT !.ended = left]
       /\ gpu' = [gpu EXCEPT !.done = done]
       /\ answer' = [Silent EXCEPT !.kind = "result",
                                   !.names = IF ready THEN Result(n) ELSE <<>>,
                                   !.reports = results]
       /\ told' = [told EXCEPT !.delivered = @
                     \union (IF ready THEN {stamp} ELSE {}) \union {r[2] : r \in Range(results)}]
       /\ native' = [native EXCEPT !.misused = @ \/ native.active = q.query.names[n].native]

LEMMA AskedKeeps ==
    ASSUME QueryInv, UNCHANGED kind, NEW n \in QNames, Askable(n), NEW wait \in BOOLEAN,
           NEW count \in Nat, Asked(n, wait, count)
    PROVE  QueryStep
<1> DEFINE stamp == native.ends[NativeOf(n)]
           ready == wait \/ Available(n, gpu.done)
           done == IF ready /\ gpu.done < stamp THEN stamp ELSE gpu.done
           ended == IF ready THEN Retired(q.ended, n) ELSE q.ended
           more == FirstQueued(ended, n, done, count)
           results == [k \in DOMAIN more |-> Result(more[k])]
           new == told.delivered \union (IF ready THEN {stamp} ELSE {})
                    \union {r[2] : r \in Range(results)}
           w == told.query
<1>1. QueryStamps /\ QueryNative /\ QueryShapes /\ n \in Objects(q.query) /\ q.active # n
  BY DEF QueryInv, Askable
<1>2. /\ DOMAIN q = {"there", "query", "fence", "active", "ended", "charged"}
      /\ DOMAIN native = {"ends", "active", "misused"} /\ DOMAIN gpu = {"given", "done"}
      /\ DOMAIN told = {"query", "fence", "delivered"}
      /\ TableIs(q.query) /\ TableIs(q.fence) /\ kind \in {"query", "fence"}
  BY <1>1 DEF QueryShapes, StateIs
<1>3. \A m \in Objects(q.query) : native.ends[NativeOf(m)] = w[m] BY <1>1 DEF QueryNative
<1>4. /\ w \in [QNames -> Nat] /\ gpu.given \in Nat /\ gpu.done \in 0..gpu.given
      /\ \A m \in QNames : w[m] <= gpu.given
      /\ \A m, l \in QNames : w[m] = w[l] /\ w[m] # 0 => m = l
      /\ told.delivered \subseteq 0..gpu.given
  BY <1>1 DEF QueryStamps
<1>5. stamp = w[n] /\ stamp \in 0..gpu.given BY <1>1, <1>3, <1>4
<1>6. done \in 0..gpu.given /\ done >= gpu.done BY <1>4, <1>5
<1>7. /\ q.ended \in Queues(w)
      /\ \A m \in QNames : Holds(q.ended, m) =>
           /\ m \in Objects(q.query) /\ m # q.active
           /\ w[m] # 0 /\ w[m] \notin told.delivered
  BY DEF QueryInv, QueryQueue
<1>8. /\ ended \in Queues(w)
      /\ \A m : Holds(ended, m) => Holds(q.ended, m) /\ (ready => m # n)
  BY <1>4, <1>7, RetiredKeeps
<1> HIDE DEF stamp, done, ended, ready
<1>9. PICK l \in 0..Len(ended) :
        /\ DOMAIN more = 1..l /\ Len(more) = l
        /\ \A k \in 1..l : more[k] = ended[k] /\ Available(ended[k], done)
  <2>1. ended \in Seq(QNames) BY <1>8 DEF Queues
  <2> QED BY <2>1, ReportableIs
<1> HIDE DEF more
<1>10. /\ ended \in Seq(QNames) /\ Len(ended) \in Nat
       /\ \A i, j \in 1..Len(ended) : i < j => w[ended[i]] < w[ended[j]]
  BY <1>8 DEF Queues
<1>11. \A k \in 1..l : k \in 1..Len(ended) BY <1>9, <1>10
<1>12. \A k \in 1..l :
         /\ more[k] = ended[k] /\ more[k] \in QNames /\ more[k] \in Objects(q.query)
         /\ w[more[k]] # 0 /\ w[more[k]] \notin told.delivered
         /\ results[k] = <<more[k], w[more[k]]>> /\ w[more[k]] <= done
  <2> TAKE k \in 1..l
  <2>1. more[k] = ended[k] /\ more[k] \in QNames /\ Holds(ended, more[k])
    BY <1>9, <1>10, <1>11 DEF Holds
  <2>2. /\ more[k] \in Objects(q.query) /\ w[more[k]] # 0 /\ w[more[k]] \notin told.delivered
    BY <2>1, <1>7, <1>8
  <2>3. results[k] = <<more[k], w[more[k]]>> BY <1>3, <1>9, <2>2 DEF Result, NativeOf
  <2>4. w[more[k]] <= done BY <1>3, <1>9, <2>1, <2>2 DEF Available, NativeOf
  <2> QED BY <2>1, <2>2, <2>3, <2>4
<1>13. DOMAIN results = 1..l BY <1>9
<1> HIDE DEF results
<1>14. \A r \in Range(results) : \E k \in 1..l : r = results[k] BY <1>13 DEF Range
<1>15. /\ RetiredAll(ended, more) \in Queues(w)
       /\ \A x : Holds(RetiredAll(ended, more), x) <=> Holds(ended, x) /\ \A k \in 1..l : more[k] # x
  <2>1. l \in Nat BY <1>10
  <2> QED BY <2>1, <1>4, <1>8, <1>9, RetiredAllKeeps
<1>16. /\ q' = [q EXCEPT !.ended = RetiredAll(ended, more)]
       /\ gpu' = [gpu EXCEPT !.done = done]
       /\ answer' = [Silent EXCEPT !.kind = "result",
                                   !.names = IF ready THEN Result(n) ELSE <<>>,
                                   !.reports = results]
       /\ told' = [told EXCEPT !.delivered = new]
       /\ native' = [native EXCEPT !.misused = @ \/ native.active = NativeOf(n)]
  BY DEF Asked, FirstQueued, NativeOf, stamp, ready, done, ended, more, results
<1>17. /\ DOMAIN q' = DOMAIN q /\ q'.query = q.query /\ q'.fence = q.fence /\ q'.active = q.active
       /\ q'.ended = RetiredAll(ended, more)
       /\ DOMAIN gpu' = DOMAIN gpu /\ gpu'.given = gpu.given /\ gpu'.done = done
       /\ DOMAIN told' = DOMAIN told /\ told'.query = w /\ told'.fence = told.fence
       /\ told'.delivered = new
       /\ DOMAIN native' = DOMAIN native /\ native'.ends = native.ends
       /\ native'.active = native.active
  <2> HIDE DEF new
  <2> QED BY <1>2, <1>16
<1>18. native'.misused = FALSE
  <2>1. native.active # NativeOf(n)
    <3>1. CASE q.active = 0 BY <1>1, <3>1 DEF QueryNative
    <3>2. CASE q.active # 0 BY <1>1, <3>2 DEF QueryNative
    <3> QED BY <3>1, <3>2
  <2>2. native.misused = FALSE BY <1>1 DEF QueryNative
  <2> QED BY <1>2, <1>16, <2>1, <2>2
<1>19. answer'.kind = "result" /\ answer'.reports = results BY <1>16, SilentIs
<1>20. QueryShapes' BY <1>2, <1>17 DEF QueryShapes, StateIs
<1>21. QueryStamps'
  <2>1. new \subseteq 0..gpu.given
    <3>1. \A r \in Range(results) : r[2] \in 0..gpu.given
      <4> TAKE r \in Range(results)
      <4>1. PICK k \in 1..l : r = results[k] BY <1>14
      <4>2. r[2] = w[more[k]] /\ more[k] \in QNames BY <4>1, <1>12
      <4> QED BY <4>2, <1>4
    <3> QED BY <3>1, <1>4, <1>5
  <2> HIDE DEF new
  <2>2. /\ gpu'.given = gpu.given /\ gpu'.done \in 0..gpu.given /\ told'.query = told.query
        /\ told'.fence = told.fence /\ told'.delivered \subseteq 0..gpu.given
    BY <2>1, <1>6, <1>17
  <2> QED BY <2>2, <1>1 DEF QueryStamps
<1>22. QueryNative'
  <2>1. /\ Objects(q'.query) = Objects(q.query)
        /\ \A m : NativeOf(m)' = NativeOf(m)
        /\ NativeOf(q.active)' = NativeOf(q.active)
    BY <1>17 DEF NativeOf
  <2> QED BY <2>1, <1>1, <1>17, <1>18 DEF QueryNative
<1>23. QueryQueue'
  <2>1. ASSUME NEW m \in QNames, Holds(q'.ended, m)
        PROVE  /\ m \in Objects(q'.query) /\ m # q'.active
               /\ told'.query[m] # 0 /\ told'.query[m] \notin told'.delivered
    <3>1. /\ Holds(ended, m) /\ Holds(q.ended, m) /\ (ready => m # n)
          /\ \A k \in 1..l : more[k] # m
      BY <2>1, <1>8, <1>15, <1>17
    <3>2. /\ m \in Objects(q.query) /\ m # q.active /\ w[m] # 0 /\ w[m] \notin told.delivered
      BY <3>1, <1>7
    <3>3. ready => w[m] # stamp BY <3>1, <3>2, <1>4, <1>5
    <3>4. ASSUME NEW r \in Range(results) PROVE r[2] # w[m]
      <4>1. PICK k \in 1..l : r = results[k] BY <1>14
      <4>2. r[2] = w[more[k]] /\ more[k] \in QNames /\ more[k] # m BY <4>1, <1>12, <3>1
      <4> QED BY <4>2, <3>2, <1>4
    <3>5. w[m] \notin new BY <3>2, <3>3, <3>4
    <3> QED BY <3>2, <3>5, <1>17
  <2>2. Queues(told.query)' = Queues(told'.query) BY DEF Queues
  <2>3. \A m : Holds(q.ended, m)' <=> Holds(q'.ended, m) BY DEF Holds
  <2> QED BY <1>15, <1>17, <2>1, <2>2, <2>3 DEF QueryQueue
<1>24. FenceStamps'
  <2>1. \A m \in Objects(q.fence) : m \in QNames BY <1>2 DEF TableIs
  <2>2. \A m \in QNames : told.fence[m] \in Nat BY <1>1 DEF QueryStamps
  <2>3. FenceStamps BY DEF QueryInv
  <2> QED BY <2>1, <2>2, <2>3, <1>4, <1>6, <1>17 DEF FenceStamps
<1>25. AnswerInv'
  <2>1. ASSUME NEW r \in Range(results)
        PROVE  r[2] = told'.query[r[1]] /\ r[2] \in 1..gpu'.done
    <3>1. PICK k \in 1..l : r = results[k] BY <1>14
    <3>2. /\ r[1] = more[k] /\ r[2] = w[more[k]] /\ more[k] \in QNames
          /\ r[2] # 0 /\ r[2] <= done
      BY <3>1, <1>12
    <3>3. r[2] \in Nat BY <3>2, <1>4
    <3> QED BY <3>2, <3>3, <1>6, <1>17
  <2>2. ReportsCurrent' BY <2>1, <1>19 DEF ReportsCurrent
  <2> QED BY <2>2, <1>19 DEF AnswerInv, FenceHonest
<1>26. Delivers
  <2>1. ASSUME NEW k \in 1..l, NEW j \in 1..l, j < k PROVE results[j][2] < results[k][2]
    <3>1. w[ended[j]] < w[ended[k]] BY <2>1, <1>10, <1>11
    <3>2. results[j][2] = w[ended[j]] /\ results[k][2] = w[ended[k]] BY <1>12
    <3> QED BY <3>1, <3>2
  <2>2. \A k \in 1..l : results[k][2] \notin told.delivered BY <1>12
  <2> QED BY <2>1, <2>2, <1>13, <1>19 DEF Delivers
<1>27. Generates BY <1>19 DEF Generates
<1> QED BY <1>20, <1>21, <1>22, <1>23, <1>24, <1>25, <1>26, <1>27 DEF QueryStep, QueryInv

LEMMA AskStep == ASSUME QueryInv, UNCHANGED kind, GetQueryObject PROVE QueryStep
<1>1. PICK n \in QNames, wait \in BOOLEAN, count \in 0..(Ended - 1) :
        IF ~Askable(n) THEN UNCHANGED <<q, native, gpu, told>> /\ answer' = Silent
        ELSE Asked(n, wait, count)
  BY DEF GetQueryObject, Asked, QNames
<1>2. CASE ~Askable(n) BY <1>1, <1>2, AlikeSelf, AlikeStep
<1>3. CASE Askable(n)
  <2>1. count \in Nat BY QueryLimits
  <2> QED BY <1>1, <1>3, <2>1, AskedKeeps
<1> QED BY <1>2, <1>3

(* What fences do leaves the queries alone.                                  *)
LEMMA FenceKeeps ==
    ASSUME QueryInv, UNCHANGED <<kind, native>>, StateIs(q'), SameTable(q'.query, q.query),
           q'.active = q.active, q'.ended = q.ended,
           DOMAIN gpu' = DOMAIN gpu, gpu'.given \in Nat, gpu.given <= gpu'.given,
           gpu'.done \in 0..gpu'.given,
           DOMAIN told' = DOMAIN told, told'.query = told.query, told'.delivered = told.delivered,
           told'.fence \in [QNames -> Nat], \A n \in QNames : told'.fence[n] <= gpu'.given,
           FenceStamps', AnswerInv'
    PROVE  QueryInv'
<1>1. QueryShapes' BY DEF QueryInv, QueryShapes
<1>2. QueryStamps'
  <2>1. QueryStamps BY DEF QueryInv
  <2>2. \A x \in 0..gpu.given : x \in 0..gpu'.given BY <2>1 DEF QueryStamps
  <2>3. told.delivered \subseteq 0..gpu'.given BY <2>1, <2>2 DEF QueryStamps
  <2>4. \A n \in QNames : told.query[n] <= gpu'.given BY <2>1 DEF QueryStamps
  <2> QED BY <2>1, <2>3, <2>4 DEF QueryStamps
<1>3. QueryNative'
  <2>1. QueryNative BY DEF QueryInv
  <2>2. /\ Objects(q'.query) = Objects(q.query)
        /\ \A m \in Objects(q.query) : NativeOf(m)' = NativeOf(m)
    BY DEF SameTable, NativeOf
  <2>3. q.active # 0 => q.active \in Objects(q.query) /\ NativeOf(q.active)' = NativeOf(q.active)
    BY <2>1 DEF SameTable, NativeOf, QueryNative
  <2> QED BY <2>1, <2>2, <2>3 DEF QueryNative
<1>4. QueryQueue'
  <2>1. QueryQueue BY DEF QueryInv
  <2>2. Queues(told.query)' = Queues(told.query) BY DEF Queues
  <2>3. \A m : Holds(q.ended, m)' <=> Holds(q.ended, m) BY DEF Holds
  <2> QED BY <2>1, <2>2, <2>3 DEF QueryQueue, SameTable
<1> QED BY <1>1, <1>2, <1>3, <1>4 DEF QueryInv

LEMMA SetKeeps ==
    ASSUME QueryInv, UNCHANGED <<kind, native>>, answer' = Silent,
           NEW o, Alike(o), NEW n \in QNames, n \in DOMAIN o.fence.names,
           NEW e, e = o.fence.names[n], NEW made \in BOOLEAN, NEW c,
           q' = [o EXCEPT !.fence.names[n] = SetAgain(e, IF made THEN gpu.given + 1 ELSE 0),
                          !.charged = c],
           gpu' = [given |-> gpu.given + 1, done |-> IF made THEN gpu.done ELSE gpu.given + 1],
           told' = [told EXCEPT !.fence[n] = gpu.given + 1]
    PROVE  QueryStep
<1> DEFINE stamp == gpu.given + 1
           sync == IF made THEN stamp ELSE 0
           f == SetAgain(e, sync)
<1>1. /\ StateIs(o) /\ SameTable(o.query, q.query) /\ SameTable(o.fence, q.fence)
      /\ o.ended = q.ended /\ o.active = q.active
      /\ TableIs(o.query) /\ TableIs(o.fence)
      /\ DOMAIN o = {"there", "query", "fence", "active", "ended", "charged"}
  BY DEF Alike, StateIs
<1>2. QueryStamps BY DEF QueryInv
<1>3. DOMAIN gpu = {"given", "done"} /\ DOMAIN told = {"query", "fence", "delivered"}
  BY DEF QueryInv, QueryShapes
<1>4. e \in Entries BY <1>1 DEF TableIs
<1>5. /\ gpu.given \in Nat /\ stamp \in Nat \ {0} /\ gpu.done \in 0..gpu.given
      /\ told.fence \in [QNames -> Nat] /\ \A m \in QNames : told.fence[m] <= gpu.given
  BY <1>2 DEF QueryStamps
<1>6. sync \in Nat BY <1>5
<1>7. /\ f \in Entries /\ f.object = TRUE
      /\ IF made THEN f.signaled = FALSE /\ f.sync = stamp ELSE f.signaled = TRUE
  <2>1. f \in Entries /\ f.object = TRUE /\ f.sync = sync /\ f.signaled = (sync = 0)
    <3> HIDE DEF sync
    <3> QED BY <1>4, <1>6 DEF SetAgain, Entries
  <2> QED BY <1>5, <2>1
<1>8. /\ DOMAIN q' = DOMAIN o /\ q'.query = o.query /\ q'.ended = o.ended /\ q'.active = o.active
      /\ DOMAIN q'.fence = {"there", "names", "next"}
      /\ q'.fence.names = [o.fence.names EXCEPT ![n] = f]
  <2> HIDE DEF sync
  <2>1. q' = [o EXCEPT !.fence.names[n] = f, !.charged = c] BY DEF sync
  <2> HIDE DEF f
  <2> QED BY <1>1, <2>1 DEF TableIs
<1> HIDE DEF f, sync
<1>9. /\ TableIs(q'.fence) /\ Objects(q'.fence) = Objects(q.fence) \union {n}
      /\ q'.fence.names[n] = f
      /\ \A m \in Objects(q.fence) : m # n => q'.fence.names[m] = q.fence.names[m]
  <2>1. EntryMade(q'.fence, o.fence, n, f) BY <1>7, <1>8 DEF EntryMade
  <2> QED BY <2>1, <1>1, EntryChange
<1>10. StateIs(q') BY <1>1, <1>8, <1>9 DEF StateIs
<1>11. SameTable(q'.query, q.query) BY <1>1, <1>8
<1>12. /\ DOMAIN gpu' = DOMAIN gpu /\ gpu'.given = stamp
       /\ gpu'.done = IF made THEN gpu.done ELSE stamp
  BY <1>3
<1>13. gpu'.given \in Nat /\ gpu.given <= gpu'.given /\ gpu'.done \in 0..gpu'.given
       /\ gpu.done <= gpu'.done
  BY <1>5, <1>12
<1>14. /\ DOMAIN told' = DOMAIN told /\ told'.query = told.query /\ told'.delivered = told.delivered
       /\ told'.fence = [told.fence EXCEPT ![n] = stamp]
  BY <1>3
<1> HIDE DEF stamp
<1>15. /\ told'.fence \in [QNames -> Nat] /\ told'.fence[n] = stamp
       /\ \A m \in QNames : m # n => told'.fence[m] = told.fence[m]
       /\ \A m \in QNames : told'.fence[m] <= gpu'.given
  BY <1>5, <1>12, <1>14 DEF stamp
<1>16. FenceStamps'
  <2>1. ASSUME NEW m \in Objects(q'.fence)
        PROVE  IF q'.fence.names[m].signaled THEN told'.fence[m] <= gpu'.done
               ELSE q'.fence.names[m].sync = told'.fence[m]
    <3>1. CASE m = n
      <4>1. q'.fence.names[m] = f /\ told'.fence[m] = stamp BY <1>9, <1>15, <3>1
      <4>2. CASE made BY <1>7, <4>1, <4>2
      <4>3. CASE ~made
        <5>1. gpu'.done = stamp /\ stamp \in Nat BY <1>5, <1>12, <4>3
        <5> QED BY <1>7, <4>1, <4>3, <5>1
      <4> QED BY <4>2, <4>3
    <3>2. CASE m # n
      <4>1. m \in Objects(q.fence) /\ q'.fence.names[m] = q.fence.names[m] BY <1>9, <3>2
      <4>2. m \in QNames BY <1>9 DEF TableIs
      <4>3. told'.fence[m] = told.fence[m] /\ told.fence[m] \in Nat BY <1>5, <1>15, <3>2, <4>2
      <4>4. CASE q.fence.names[m].signaled
        <5>1. told.fence[m] <= gpu.done BY <4>1, <4>4 DEF QueryInv, FenceStamps
        <5> QED BY <1>5, <1>13, <4>1, <4>3, <4>4, <5>1
      <4>5. CASE ~q.fence.names[m].signaled
        BY <4>1, <4>3, <4>5 DEF QueryInv, FenceStamps
      <4> QED BY <4>4, <4>5
    <3> QED BY <3>1, <3>2
  <2> QED BY <2>1 DEF FenceStamps
<1>17. AnswerInv' /\ Delivers /\ Generates BY SilentStep
<1>18. QueryInv' BY <1>1, <1>8, <1>10, <1>11, <1>12, <1>13, <1>14, <1>15, <1>16, <1>17, FenceKeeps
<1> QED BY <1>17, <1>18 DEF QueryStep

LEMMA SetStep == ASSUME QueryInv, UNCHANGED kind, SetFence PROVE QueryStep
<1>1. PICK n \in 0..QueryNames, refused \in QueryRefusals :
        LET t == Tabled(Ensured(q, refused), "fence", refused)
            o == Obtained(t, "fence", n)
            e == o.fence.names[n]
            stamp == gpu.given + 1
            made == "native" \notin refused
        IN /\ gpu.given < MaxStamps
           /\ IF n = 0 THEN UNCHANGED <<q, gpu, told>>
              ELSE IF n \notin DOMAIN o.fence.names \/ (~e.object /\ ~CanCharge(o))
                THEN q' = t /\ UNCHANGED <<gpu, told>>
              ELSE /\ q' = [o EXCEPT !.fence.names[n] = SetAgain(e, IF made THEN stamp ELSE 0),
                                     !.charged = IF e.object THEN @ ELSE @ + 1]
                   /\ gpu' = [given |-> stamp, done |-> IF made THEN gpu.done ELSE stamp]
                   /\ told' = [told EXCEPT !.fence[n] = stamp]
           /\ answer' = Silent /\ UNCHANGED native
  BY DEF SetFence
<1> DEFINE t == Tabled(Ensured(q, refused), "fence", refused)
           o == Obtained(t, "fence", n)
           e == o.fence.names[n]
           made == "native" \notin refused
           c == IF e.object THEN o.charged ELSE o.charged + 1
<1>2. answer' = Silent /\ UNCHANGED <<kind, native>> BY <1>1
<1>3. Alike(t) BY TabledIs
<1>4. Alike(o)
  <2> HIDE DEF t
  <2> QED BY <1>3, ObtainedIs
<1>5. \/ (q' = q \/ q' = t) /\ UNCHANGED <<gpu, told>>
      \/ /\ n # 0 /\ n \in DOMAIN o.fence.names
         /\ q' = [o EXCEPT !.fence.names[n] = SetAgain(e, IF made THEN gpu.given + 1 ELSE 0),
                           !.charged = c]
         /\ gpu' = [given |-> gpu.given + 1, done |-> IF made THEN gpu.done ELSE gpu.given + 1]
         /\ told' = [told EXCEPT !.fence[n] = gpu.given + 1]
  BY <1>1
<1> HIDE DEF t, o
<1>6. CASE (q' = q \/ q' = t) /\ UNCHANGED <<gpu, told>>
  BY <1>2, <1>3, <1>6, AlikeSelf, AlikeStep
<1>7. CASE /\ n # 0 /\ n \in DOMAIN o.fence.names
           /\ q' = [o EXCEPT !.fence.names[n] = SetAgain(e, IF made THEN gpu.given + 1 ELSE 0),
                             !.charged = c]
           /\ gpu' = [given |-> gpu.given + 1, done |-> IF made THEN gpu.done ELSE gpu.given + 1]
           /\ told' = [told EXCEPT !.fence[n] = gpu.given + 1]
  <2>1. n \in QNames BY <1>7 DEF QNames
  <2>2. made \in BOOLEAN OBVIOUS
  <2> HIDE DEF c, made
  <2> QED BY <1>2, <1>4, <1>7, <2>1, <2>2, SetKeeps
<1> QED BY <1>5, <1>6, <1>7

LEMMA TestStep == ASSUME QueryInv, UNCHANGED kind, TestFence PROVE QueryStep
<1>1. PICK n \in QNames, wait \in BOOLEAN :
        IF ~(q.there /\ n \in Objects(q.fence)) THEN UNCHANGED <<q, gpu>> /\ answer' = Silent
        ELSE LET e == q.fence.names[n]
                 ready == wait \/ e.signaled \/ e.sync <= gpu.done
             IN /\ q' = IF ready THEN [q EXCEPT !.fence.names[n] = Signal(e)] ELSE q
                /\ gpu' = IF ready /\ ~e.signaled /\ gpu.done < e.sync
                            THEN [gpu EXCEPT !.done = e.sync] ELSE gpu
                /\ answer' = IF ready THEN [Silent EXCEPT !.kind = "signaled", !.names = <<n>>]
                             ELSE Silent
  BY DEF TestFence, QNames
<1>2. UNCHANGED <<kind, native, told>> BY DEF TestFence
<1> DEFINE e == q.fence.names[n]
           f == Signal(e)
<1>3. \/ answer' = Silent /\ UNCHANGED <<q, gpu>>
      \/ /\ n \in Objects(q.fence) /\ q' = [q EXCEPT !.fence.names[n] = f]
         /\ gpu' = IF ~e.signaled /\ gpu.done < e.sync THEN [gpu EXCEPT !.done = e.sync] ELSE gpu
         /\ answer' = [Silent EXCEPT !.kind = "signaled", !.names = <<n>>]
  BY <1>1
<1>4. CASE answer' = Silent /\ UNCHANGED <<q, gpu>>
  BY <1>2, <1>4, AlikeSelf, AlikeStep
<1>5. CASE /\ n \in Objects(q.fence) /\ q' = [q EXCEPT !.fence.names[n] = f]
           /\ gpu' = IF ~e.signaled /\ gpu.done < e.sync THEN [gpu EXCEPT !.done = e.sync] ELSE gpu
           /\ answer' = [Silent EXCEPT !.kind = "signaled", !.names = <<n>>]
  <2>1. /\ DOMAIN q = {"there", "query", "fence", "active", "ended", "charged"}
        /\ TableIs(q.query) /\ TableIs(q.fence) /\ DOMAIN gpu = {"given", "done"}
    BY DEF QueryInv, QueryShapes, StateIs
  <2>2. n \in DOMAIN q.fence.names /\ e.object BY <1>5 DEF Objects
  <2>3. e \in Entries BY <2>1, <2>2 DEF TableIs
  <2>4. f \in Entries /\ f.object = TRUE /\ f.signaled = TRUE BY <2>2, <2>3 DEF Signal, Entries
  <2> HIDE DEF f
  <2>5. /\ DOMAIN q' = DOMAIN q /\ q'.query = q.query /\ q'.ended = q.ended /\ q'.active = q.active
        /\ DOMAIN q'.fence = {"there", "names", "next"}
        /\ q'.fence.names = [q.fence.names EXCEPT ![n] = f]
    BY <1>5, <2>1 DEF TableIs
  <2>6. /\ TableIs(q'.fence) /\ Objects(q'.fence) = Objects(q.fence) \union {n}
        /\ q'.fence.names[n] = f
        /\ \A m \in Objects(q.fence) : m # n => q'.fence.names[m] = q.fence.names[m]
    <3>1. EntryMade(q'.fence, q.fence, n, f) BY <2>2, <2>4, <2>5 DEF EntryMade
    <3>2. SameTable(q.fence, q.fence) BY DEF SameTable
    <3> QED BY <3>1, <3>2, <2>1, EntryChange
  <2>7. StateIs(q') BY <2>1, <2>5, <2>6 DEF StateIs
  <2>8. QueryStamps /\ FenceStamps BY DEF QueryInv
  <2>9. /\ gpu.given \in Nat /\ gpu.done \in 0..gpu.given
        /\ told.fence \in [QNames -> Nat] /\ \A m \in QNames : told.fence[m] <= gpu.given
    BY <2>8 DEF QueryStamps
  <2>10. /\ DOMAIN gpu' = DOMAIN gpu /\ gpu'.given = gpu.given /\ gpu'.done \in 0..gpu.given
         /\ gpu.done <= gpu'.done /\ told.fence[n] <= gpu'.done
    <3>1. CASE e.signaled
      <4>1. gpu' = gpu /\ told.fence[n] <= gpu.done BY <1>5, <2>8, <3>1 DEF FenceStamps
      <4> QED BY <2>9, <4>1
    <3>2. CASE ~e.signaled
      <4>1. e.sync = told.fence[n] BY <1>5, <2>8, <3>2 DEF FenceStamps
      <4>2. told.fence[n] \in 0..gpu.given BY <2>9
      <4>3. CASE gpu.done < e.sync
        <5>1. gpu' = [gpu EXCEPT !.done = e.sync] BY <1>5, <3>2, <4>3
        <5> HIDE DEF e
        <5> QED BY <2>1, <2>9, <4>1, <4>2, <4>3, <5>1
      <4>4. CASE ~(gpu.done < e.sync)
        <5>1. gpu' = gpu BY <1>5, <3>2, <4>4
        <5> HIDE DEF e
        <5> QED BY <2>9, <4>1, <4>2, <4>4, <5>1
      <4> QED BY <4>3, <4>4
    <3> QED BY <3>1, <3>2
  <2>11. FenceStamps'
    <3>1. ASSUME NEW m \in Objects(q'.fence)
          PROVE  IF q'.fence.names[m].signaled THEN told'.fence[m] <= gpu'.done
                 ELSE q'.fence.names[m].sync = told'.fence[m]
      <4>1. CASE m = n BY <1>2, <2>4, <2>6, <2>10, <4>1
      <4>2. CASE m # n
        <5>1. m \in Objects(q.fence) /\ q'.fence.names[m] = q.fence.names[m] BY <2>6, <4>2
        <5>2. told.fence[m] \in Nat BY <2>6, <2>9 DEF TableIs
        <5> QED BY <1>2, <2>8, <2>9, <2>10, <5>1, <5>2 DEF FenceStamps
      <4> QED BY <4>1, <4>2
    <3> QED BY <3>1 DEF FenceStamps
  <2>12. answer'.kind = "signaled" /\ answer'.names = <<n>> /\ answer'.reports = <<>>
    BY <1>5, SilentIs
  <2>13. Range(answer'.names) = {n} /\ Range(answer'.reports) = {} /\ DOMAIN answer'.reports = {}
    BY <2>12 DEF Range
  <2>14. AnswerInv'
    BY <1>2, <2>10, <2>12, <2>13 DEF AnswerInv, ReportsCurrent, FenceHonest
  <2>15. Delivers /\ Generates BY <2>12, <2>13 DEF Delivers, Generates
  <2>16. SameTable(q'.query, q.query) BY <2>5 DEF SameTable
  <2>17. QueryInv'
    BY <1>2, <2>5, <2>7, <2>9, <2>10, <2>11, <2>14, <2>16, FenceKeeps
  <2> QED BY <2>15, <2>17 DEF QueryStep
<1> QED BY <1>3, <1>4, <1>5

LEMMA NamesFinite == ASSUME NEW gone \in SUBSET QNames PROVE IsFiniteSet(gone)
<1>1. QueryNames \in Int /\ 1 \in Int BY QueryLimits
<1>2. IsFiniteSet(QNames) BY <1>1, FS_Interval DEF QNames
<1> QED BY <1>2, FS_Subset

(* Names deleted.                                                            *)
TableLeft(t, u, gone) ==
    DOMAIN t = {"there", "names", "next"} /\ t.names = [n \in DOMAIN u.names \ gone |-> u.names[n]]

LEMMA TableLess ==
    ASSUME NEW u, TableIs(u), NEW gone, NEW t, TableLeft(t, u, gone)
    PROVE  /\ TableIs(t) /\ Objects(t) = Objects(u) \ gone
           /\ \A n \in Objects(t) : t.names[n] = u.names[n]
<1>1. /\ DOMAIN t.names = DOMAIN u.names \ gone
      /\ \A n \in DOMAIN t.names : t.names[n] = u.names[n]
      /\ t.names = [n \in DOMAIN t.names |-> t.names[n]]
  BY DEF TableLeft
<1>2. IsFiniteSet(DOMAIN u.names) /\ Cardinality(DOMAIN u.names) <= MaxQueries BY DEF TableIs
<1>3. IsFiniteSet(DOMAIN t.names) /\ Cardinality(DOMAIN t.names) <= Cardinality(DOMAIN u.names)
  <2>1. DOMAIN t.names \in SUBSET DOMAIN u.names BY <1>1
  <2> QED BY <1>2, <2>1, FS_Subset
<1>4. Cardinality(DOMAIN t.names) \in Nat /\ Cardinality(DOMAIN u.names) \in Nat
  BY <1>2, <1>3, FS_CardinalityType
<1>5. Objects(t) = Objects(u) \ gone BY <1>1 DEF Objects
<1>6. \A n \in Objects(t) : t.names[n] = u.names[n] BY <1>1 DEF Objects
<1>7. Cardinality(DOMAIN t.names) <= MaxQueries BY <1>2, <1>3, <1>4, QueryLimits
<1> QED BY <1>1, <1>3, <1>5, <1>6, <1>7 DEF TableIs, TableLeft

LEMMA DeleteQueryKeeps ==
    ASSUME QueryInv, UNCHANGED <<kind, gpu>>, answer' = Silent, q.active = 0,
           NEW gone \in SUBSET QNames,
           DOMAIN q' = DOMAIN q, q'.fence = q.fence, q'.active = q.active,
           q'.ended = RetiredAll(q.ended, SetToSeq(gone)), TableLeft(q'.query, q.query, gone),
           told' = [told EXCEPT !.query = [n \in QNames |-> IF n \in gone THEN 0 ELSE told.query[n]]],
           LET dead == {NativeOf(n) : n \in Objects(q.query) \intersect gone}
           IN native' = [native EXCEPT
                           !.ends = [i \in DOMAIN native.ends \ dead |-> native.ends[i]],
                           !.misused = @ \/ native.active \in dead]
    PROVE  QueryStep
<1> DEFINE dead == {NativeOf(n) : n \in Objects(q.query) \intersect gone}
           left == RetiredAll(q.ended, SetToSeq(gone))
           w == told.query
           v == [n \in QNames |-> IF n \in gone THEN 0 ELSE w[n]]
<1>1. QueryStamps /\ QueryNative /\ QueryQueue BY DEF QueryInv
<1>2. /\ DOMAIN q = {"there", "query", "fence", "active", "ended", "charged"}
      /\ DOMAIN native = {"ends", "active", "misused"} /\ DOMAIN gpu = {"given", "done"}
      /\ DOMAIN told = {"query", "fence", "delivered"}
      /\ TableIs(q.query) /\ TableIs(q.fence) /\ kind \in {"query", "fence"}
  BY DEF QueryInv, QueryShapes, StateIs
<1> HIDE DEF left, v
<1>3. /\ DOMAIN q' = DOMAIN q /\ q'.fence = q.fence /\ q'.active = 0 /\ q'.ended = left
      /\ DOMAIN q'.query = {"there", "names", "next"}
      /\ q'.query.names = [n \in DOMAIN q.query.names \ gone |-> q.query.names[n]]
  BY <1>2 DEF TableLeft, left
<1>4. /\ TableIs(q'.query) /\ Objects(q'.query) = Objects(q.query) \ gone
      /\ \A n \in Objects(q'.query) : q'.query.names[n] = q.query.names[n]
  <2>1. TableLeft(q'.query, q.query, gone) BY <1>3 DEF TableLeft
  <2> QED BY <1>2, <2>1, TableLess
<1>5. /\ DOMAIN told' = DOMAIN told /\ told'.query = v /\ told'.fence = told.fence
      /\ told'.delivered = told.delivered
  BY <1>2 DEF v
<1>6. /\ w \in [QNames -> Nat] /\ \A n \in QNames : w[n] <= gpu.given
      /\ \A m, n \in QNames : w[m] = w[n] /\ w[m] # 0 => m = n
      /\ gpu.given \in Nat
  BY <1>1 DEF QueryStamps
<1>7. v \in [QNames -> Nat] /\ \A n \in QNames : v[n] = IF n \in gone THEN 0 ELSE w[n]
  BY <1>6 DEF v
<1>8. QueryShapes'
  <2>1. native.active \in dead \/ native.active \notin dead OBVIOUS
  <2>2. DOMAIN native' = DOMAIN native BY <1>2
  <2> QED BY <1>2, <1>3, <1>4, <1>5, <2>2 DEF QueryShapes, StateIs
<1>9. QueryStamps'
  <2>1. \A n \in QNames : v[n] <= gpu.given BY <1>6, <1>7
  <2>2. \A m, n \in QNames : v[m] = v[n] /\ v[m] # 0 => m = n BY <1>6, <1>7
  <2> QED BY <2>1, <2>2, <1>1, <1>5, <1>7 DEF QueryStamps
<1>10. QueryNative'
  <2>1. /\ \A n \in Objects(q.query) :
             /\ NativeOf(n) # 0 /\ NativeOf(n) \in DOMAIN native.ends
             /\ native.ends[NativeOf(n)] = w[n]
        /\ \A m, n \in Objects(q.query) : NativeOf(m) = NativeOf(n) => m = n
        /\ \A i \in DOMAIN native.ends : \E n \in Objects(q.query) : NativeOf(n) = i
        /\ \A n \in QNames \ Objects(q.query) : w[n] = 0
        /\ native.active = 0 /\ native.misused = FALSE
    BY <1>1 DEF QueryNative
  <2>2. 0 \notin dead BY <2>1
  <2>3. /\ native'.ends = [i \in DOMAIN native.ends \ dead |-> native.ends[i]]
        /\ native'.active = 0 /\ native'.misused = FALSE
    <3> HIDE DEF dead
    <3>1. native' = [native EXCEPT
                       !.ends = [i \in DOMAIN native.ends \ dead |-> native.ends[i]],
                       !.misused = @ \/ native.active \in dead]
      BY DEF dead
    <3> QED BY <1>2, <2>1, <2>2, <3>1
  <2>4. /\ DOMAIN native'.ends = DOMAIN native.ends \ dead
        /\ \A i \in DOMAIN native'.ends : native'.ends[i] = native.ends[i]
        /\ native'.ends = [i \in DOMAIN native'.ends |-> native'.ends[i]]
    <3> HIDE DEF dead
    <3> QED BY <2>3
  <2>5. \A n \in Objects(q'.query) : n \in Objects(q.query) /\ n \notin gone /\ NativeOf(n)' = NativeOf(n)
    BY <1>4 DEF NativeOf
  <2>6. \A n \in Objects(q'.query) : NativeOf(n) \notin dead BY <2>1, <2>5
  <2>7. Objects(q'.query) \subseteq QNames BY <1>4 DEF TableIs
  <2>8. \A n \in Objects(q'.query) :
          /\ NativeOf(n)' # 0 /\ NativeOf(n)' \in DOMAIN native'.ends
          /\ native'.ends[NativeOf(n)'] = told'.query[n]
    <3> TAKE n \in Objects(q'.query)
    <3>1. NativeOf(n) \in DOMAIN native'.ends
      <4> HIDE DEF dead
      <4> QED BY <2>1, <2>4, <2>5, <2>6
    <3>2. told'.query[n] = w[n] BY <1>5, <1>7, <2>5, <2>7
    <3> QED BY <2>1, <2>4, <2>5, <3>1, <3>2
  <2>9. \A m, n \in Objects(q'.query) : NativeOf(m)' = NativeOf(n)' => m = n BY <2>1, <2>5
  <2>10. \A i \in DOMAIN native'.ends : \E n \in Objects(q'.query) : NativeOf(n)' = i
    <3> TAKE i \in DOMAIN native'.ends
    <3>1. i \in DOMAIN native.ends /\ i \notin dead
      <4> HIDE DEF dead
      <4> QED BY <2>4
    <3>2. PICK n \in Objects(q.query) : NativeOf(n) = i BY <2>1, <3>1
    <3>3. n \in Objects(q'.query) BY <1>4, <3>1, <3>2
    <3> QED BY <2>5, <3>2, <3>3
  <2>11. \A n \in QNames \ Objects(q'.query) : told'.query[n] = 0 BY <1>4, <1>5, <1>7, <2>1
  <2> HIDE DEF dead
  <2> QED BY <1>3, <2>3, <2>4, <2>8, <2>9, <2>10, <2>11 DEF QueryNative
<1>11. QueryQueue'
  <2>1. IsFiniteSet(gone) BY NamesFinite
  <2>2. /\ Cardinality(gone) \in Nat /\ DOMAIN SetToSeq(gone) = 1..Cardinality(gone)
        /\ \A x : x \in gone <=> \E k \in 1..Cardinality(gone) : SetToSeq(gone)[k] = x
    BY <2>1, SeqOfSet
  <2>3. q.ended \in Queues(w) BY <1>1 DEF QueryQueue
  <2>4. /\ left \in Queues(w)
        /\ \A x : Holds(left, x) <=> Holds(q.ended, x) /\ \A k \in 1..Cardinality(gone) : SetToSeq(gone)[k] # x
    BY <1>6, <2>2, <2>3, RetiredAllKeeps DEF left
  <2>5. \A x : Holds(left, x) => Holds(q.ended, x) /\ x \notin gone BY <2>2, <2>4
  <2>6. \A i \in 1..Len(left) : left[i] \in QNames /\ v[left[i]] = w[left[i]]
    <3>1. left \in Seq(QNames) BY <2>4 DEF Queues
    <3>2. \A i \in 1..Len(left) : left[i] \in QNames /\ left[i] \notin gone
      BY <2>5, <3>1 DEF Holds
    <3> QED BY <1>7, <3>2
  <2>7. left \in Queues(v) BY <2>4, <2>6 DEF Queues
  <2>8. \A m \in QNames : Holds(left, m) =>
          m \in Objects(q'.query) /\ m # 0 /\ v[m] # 0 /\ v[m] \notin told.delivered
    BY <1>1, <1>4, <1>7, <2>5, QueryLimits DEF QueryQueue, QNames
  <2>9. Queues(told.query)' = Queues(told'.query) BY DEF Queues
  <2>10. \A m : Holds(q.ended, m)' <=> Holds(q'.ended, m) BY DEF Holds
  <2> QED BY <1>3, <1>5, <2>7, <2>8, <2>9, <2>10 DEF QueryQueue
<1>12. FenceStamps' BY <1>3, <1>5 DEF QueryInv, FenceStamps
<1> QED BY <1>8, <1>9, <1>10, <1>11, <1>12, SilentStep DEF QueryStep, QueryInv

LEMMA DeleteFenceKeeps ==
    ASSUME QueryInv, UNCHANGED <<kind, gpu, native>>, answer' = Silent,
           NEW gone \in SUBSET QNames,
           DOMAIN q' = DOMAIN q, q'.query = q.query, q'.active = q.active, q'.ended = q.ended,
           TableLeft(q'.fence, q.fence, gone),
           told' = [told EXCEPT !.fence = [n \in QNames |-> IF n \in gone THEN 0 ELSE told.fence[n]]]
    PROVE  QueryStep
<1> DEFINE v == [n \in QNames |-> IF n \in gone THEN 0 ELSE told.fence[n]]
<1>1. QueryStamps /\ FenceStamps BY DEF QueryInv
<1>2. /\ DOMAIN q = {"there", "query", "fence", "active", "ended", "charged"}
      /\ DOMAIN told = {"query", "fence", "delivered"}
      /\ TableIs(q.query) /\ TableIs(q.fence)
  BY DEF QueryInv, QueryShapes, StateIs
<1>3. /\ DOMAIN q' = DOMAIN q /\ q'.query = q.query /\ q'.active = q.active /\ q'.ended = q.ended
      /\ DOMAIN q'.fence = {"there", "names", "next"}
      /\ q'.fence.names = [n \in DOMAIN q.fence.names \ gone |-> q.fence.names[n]]
  BY <1>2 DEF TableLeft
<1>4. /\ TableIs(q'.fence) /\ Objects(q'.fence) = Objects(q.fence) \ gone
      /\ \A n \in Objects(q'.fence) : q'.fence.names[n] = q.fence.names[n]
  <2>1. TableLeft(q'.fence, q.fence, gone) BY <1>3 DEF TableLeft
  <2> QED BY <1>2, <2>1, TableLess
<1> HIDE DEF v
<1>5. /\ DOMAIN told' = DOMAIN told /\ told'.fence = v /\ told'.query = told.query
      /\ told'.delivered = told.delivered
  BY <1>2 DEF v
<1>6. /\ gpu.given \in Nat /\ gpu.done \in 0..gpu.given
      /\ told.fence \in [QNames -> Nat] /\ \A n \in QNames : told.fence[n] <= gpu.given
  BY <1>1 DEF QueryStamps
<1>7. v \in [QNames -> Nat] /\ \A n \in QNames : v[n] = IF n \in gone THEN 0 ELSE told.fence[n]
  BY <1>6 DEF v
<1>8. \A n \in QNames : v[n] <= gpu.given BY <1>6, <1>7
<1>9. FenceStamps'
  <2>1. \A n \in Objects(q'.fence) : n \in QNames /\ n \in Objects(q.fence) /\ told'.fence[n] = told.fence[n]
    BY <1>4, <1>5, <1>7 DEF TableIs
  <2> QED BY <2>1, <1>1, <1>4 DEF FenceStamps
<1>10. AnswerInv' /\ Delivers /\ Generates BY SilentStep
<1>11. StateIs(q') BY <1>2, <1>3, <1>4 DEF StateIs
<1>12. SameTable(q'.query, q.query) BY <1>3 DEF SameTable
<1>13. QueryInv'
  BY <1>3, <1>5, <1>6, <1>7, <1>8, <1>9, <1>10, <1>11, <1>12, FenceKeeps
<1> QED BY <1>10, <1>13 DEF QueryStep

LEMMA DeleteStep == ASSUME QueryInv, UNCHANGED kind, Delete PROVE QueryStep
<1>1. PICK gone \in SUBSET QNames :
        IF ~Deletes THEN UNCHANGED <<q, native, told>>
        ELSE LET dead == {q[kind].names[n].native : n \in Objects(q[kind]) \intersect gone}
             IN /\ q' = Deleting(q, kind, gone)
                /\ told' = [told EXCEPT ![kind] = [n \in QNames |->
                                                     IF n \in gone THEN 0 ELSE @[n]]]
                /\ native' = IF kind = "fence" THEN native
                             ELSE [native EXCEPT
                                    !.ends = [i \in DOMAIN @ \ dead |-> @[i]],
                                    !.misused = @ \/ native.active \in dead]
  BY DEF Delete, QNames
<1>2. answer' = Silent /\ UNCHANGED gpu BY DEF Delete
<1>3. CASE ~Deletes BY <1>1, <1>2, <1>3, AlikeSelf, AlikeStep
<1>4. /\ DOMAIN q = {"there", "query", "fence", "active", "ended", "charged"}
      /\ DOMAIN told = {"query", "fence", "delivered"}
      /\ TableIs(q.query) /\ TableIs(q.fence) /\ kind \in {"query", "fence"}
  BY DEF QueryInv, QueryShapes, StateIs
<1>5. CASE Deletes /\ kind = "query"
  <2>0. q' = Deleting(q, "query", gone) BY <1>1, <1>5
  <2>1. /\ DOMAIN q' = DOMAIN q /\ q'.fence = q.fence /\ q'.active = q.active
        /\ q'.ended = RetiredAll(q.ended, SetToSeq(gone)) /\ TableLeft(q'.query, q.query, gone)
    BY <1>4, <2>0 DEF Deleting, TableIs, TableLeft
  <2>2. told' = [told EXCEPT !.query = [n \in QNames |-> IF n \in gone THEN 0 ELSE told.query[n]]]
    BY <1>1, <1>4, <1>5
  <2>3. LET dead == {NativeOf(n) : n \in Objects(q.query) \intersect gone}
        IN native' = [native EXCEPT
                        !.ends = [i \in DOMAIN native.ends \ dead |-> native.ends[i]],
                        !.misused = @ \/ native.active \in dead]
    BY <1>1, <1>5 DEF NativeOf, QueryInv, QueryShapes
  <2>4. q.active = 0 BY <1>5 DEF Deletes
  <2> QED BY <1>2, <2>1, <2>2, <2>3, <2>4, DeleteQueryKeeps
<1>6. CASE Deletes /\ kind = "fence"
  <2>0. q' = Deleting(q, "fence", gone) BY <1>1, <1>6
  <2>1. /\ DOMAIN q' = DOMAIN q /\ q'.query = q.query /\ q'.active = q.active
        /\ q'.ended = q.ended /\ TableLeft(q'.fence, q.fence, gone)
    BY <1>4, <2>0 DEF Deleting, TableIs, TableLeft
  <2>2. told' = [told EXCEPT !.fence = [n \in QNames |-> IF n \in gone THEN 0 ELSE told.fence[n]]]
    BY <1>1, <1>4, <1>6
  <2>3. UNCHANGED native BY <1>1, <1>6
  <2> QED BY <1>2, <2>1, <2>2, <2>3, DeleteFenceKeeps
<1> QED BY <1>3, <1>4, <1>5, <1>6

(* As many candidates as asked for, and names nobody has.                    *)
LEMMA FreshIs ==
    ASSUME NEW mine, NEW count \in Nat \ {0}
    PROVE  LET names == {Candidates(mine)[k] : k \in Fresh(mine, count)}
           IN /\ IsFiniteSet(names) /\ Cardinality(names) <= count /\ Cardinality(names) \in Nat
              /\ names \intersect DOMAIN mine.names = {}
<1> DEFINE ks == {k \in 1..(QueryNames + 1) : Free(mine, Candidates(mine)[k])}
           taken == Fresh(mine, count)
           names == {Candidates(mine)[k] : k \in taken}
           f == [k \in taken |-> Candidates(mine)[k]]
<1>1. taken = {k \in ks : Cardinality({j \in ks : j < k}) < count} BY DEF Fresh
<1>2. ks \in SUBSET (1..(QueryNames + 1)) /\ IsFiniteSet(ks)
  <2>1. QueryNames + 1 \in Int /\ 1 \in Int BY QueryLimits
  <2>2. IsFiniteSet(1..(QueryNames + 1)) BY <2>1, FS_Interval
  <2>3. ks \in SUBSET (1..(QueryNames + 1)) OBVIOUS
  <2> HIDE DEF ks
  <2> QED BY <2>2, <2>3, FS_Subset
<1>3. names \intersect DOMAIN mine.names = {}
  <2>1. \A k \in taken : Candidates(mine)[k] \notin DOMAIN mine.names BY <1>1 DEF Free
  <2> QED BY <2>1
<1> HIDE DEF ks, taken
<1>4. taken \in SUBSET ks /\ IsFiniteSet(taken)
  <2>1. taken \in SUBSET ks BY <1>1
  <2> QED BY <1>2, <2>1, FS_Subset
<1>5. Cardinality(taken) \in Nat BY <1>4, FS_CardinalityType
<1>6. Cardinality(taken) <= count
  <2>1. CASE taken = {} BY <2>1, FS_EmptySet
  <2>2. CASE taken # {}
    <3> DEFINE m == Max(taken)
               less == {j \in ks : j < m}
    <3>1. taken \in SUBSET (1..(QueryNames + 1)) BY <1>2, <1>4
    <3>2. m \in taken /\ \A x \in taken : x <= m
      <4>1. QueryNames + 1 \in Nat BY QueryLimits
      <4> HIDE DEF m
      <4>2. Max(taken) \in taken /\ \A x \in taken : x <= Max(taken) BY <2>2, <3>1, <4>1, MaxOf
      <4> QED BY <4>2 DEF m
    <3>3. Cardinality(less) < count BY <1>1, <3>2
    <3>4. IsFiniteSet(less)
      <4>1. less \in SUBSET ks OBVIOUS
      <4> QED BY <1>2, <4>1, FS_Subset
    <3>5. taken \in SUBSET (less \union {m})
      <4>1. \A x \in taken : x \in ks /\ x \in Nat /\ x <= m BY <1>4, <3>1, <3>2
      <4>2. m \in Nat BY <3>2, <4>1
      <4> HIDE DEF m
      <4> QED BY <4>1, <4>2
    <3> HIDE DEF less, m
    <3>6. /\ IsFiniteSet(less \union {m})
          /\ Cardinality(less \union {m}) = IF m \in less THEN Cardinality(less) ELSE Cardinality(less) + 1
      BY <3>4, FS_AddElement
    <3>7. Cardinality(less) \in Nat BY <3>4, FS_CardinalityType
    <3>8. Cardinality(taken) <= Cardinality(less \union {m}) BY <3>5, <3>6, FS_Subset
    <3> QED BY <1>5, <3>3, <3>6, <3>7, <3>8
  <2> QED BY <2>1, <2>2
<1>7. f \in Surjection(taken, names)
  <2>1. \A x \in names : \E k \in taken : f[k] = x OBVIOUS
  <2> QED BY <2>1 DEF Surjection
<1> HIDE DEF f, names
<1>8. IsFiniteSet(names) /\ Cardinality(names) <= Cardinality(taken) BY <1>4, <1>7, FS_Surjection
<1>9. Cardinality(names) \in Nat BY <1>8, FS_CardinalityType
<1> QED BY <1>3, <1>5, <1>6, <1>8, <1>9 DEF names, taken

LEMMA GenerateStep == ASSUME QueryInv, UNCHANGED kind, Generate PROVE QueryStep
<1>1. PICK count \in 1..2, refused \in QueryRefusals :
        LET t == Tabled(Ensured(q, refused), kind, refused)
            mine == t[kind]
            ks == Fresh(mine, count)
            names == {Candidates(mine)[k] : k \in ks}
            last == CHOOSE k \in ks : \A j \in ks : j <= k
        IN /\ IF kind = "query" /\ q.there /\ q.active # 0 THEN UNCHANGED <<q, answer>>
              ELSE IF ~mine.there \/ count > MaxQueries - Cardinality(DOMAIN mine.names)
                THEN q' = t /\ answer' = Silent
              ELSE /\ q' = [t EXCEPT
                        ![kind].names = [n \in DOMAIN @ \union names |->
                                           IF n \in names THEN Reserved ELSE @[n]],
                        ![kind].next = Candidates(mine)[last + 1]]
                   /\ answer' = [Silent EXCEPT !.kind = kind, !.names = SetToSeq(names)]
           /\ UNCHANGED <<native, gpu, told>>
  BY DEF Generate
<1> DEFINE t == Tabled(Ensured(q, refused), kind, refused)
           mine == t[kind]
           ks == Fresh(mine, count)
           names == {Candidates(mine)[k] : k \in ks}
           last == CHOOSE k \in ks : \A j \in ks : j <= k
           next == Candidates(mine)[last + 1]
<1>2. UNCHANGED <<kind, native, gpu, told>> BY <1>1
<1>3. kind \in {"query", "fence"} BY DEF QueryInv, QueryShapes
<1>4. Alike(t) /\ t.query.names = q.query.names /\ t.fence.names = q.fence.names
  BY <1>3, TabledIs
<1>5. \/ UNCHANGED <<q, answer>>
      \/ q' = t /\ answer' = Silent
      \/ /\ ~(count > MaxQueries - Cardinality(DOMAIN mine.names))
         /\ q' = [t EXCEPT
                    ![kind].names = [n \in DOMAIN @ \union names |->
                                       IF n \in names THEN Reserved ELSE @[n]],
                    ![kind].next = next]
         /\ answer' = [Silent EXCEPT !.kind = kind, !.names = SetToSeq(names)]
  BY <1>1
<1> HIDE DEF t, ks, last, next
<1>6. CASE UNCHANGED <<q, answer>>
  <2>1. gpu.done \in Nat /\ told.fence \in [QNames -> Nat] BY DEF QueryInv, QueryStamps
  <2>2. AnswerInv' /\ Delivers /\ Generates
    <3>1. AnswerInv BY DEF QueryInv
    <3>2. gpu'.done \in Nat /\ gpu'.done >= gpu.done BY <1>2, <2>1
    <3> QED BY <1>2, <1>6, <2>1, <3>1, <3>2, SameAnswer
  <2>3. Alike(q') BY <1>6, AlikeSelf DEF Alike
  <2>4. QueryInv' BY <1>2, <2>2, <2>3, AlikeKeeps
  <2> QED BY <2>2, <2>4 DEF QueryStep
<1>7. CASE q' = t /\ answer' = Silent BY <1>2, <1>4, <1>7, AlikeStep
<1>8. CASE /\ ~(count > MaxQueries - Cardinality(DOMAIN mine.names))
           /\ q' = [t EXCEPT
                      ![kind].names = [n \in DOMAIN @ \union names |->
                                         IF n \in names THEN Reserved ELSE @[n]],
                      ![kind].next = next]
           /\ answer' = [Silent EXCEPT !.kind = kind, !.names = SetToSeq(names)]
  <2>1. StateIs(t) /\ TableIs(mine) BY <1>3, <1>4 DEF Alike, StateIs
  <2>2. /\ IsFiniteSet(names) /\ Cardinality(names) <= count /\ Cardinality(names) \in Nat
        /\ names \intersect DOMAIN mine.names = {}
    <3>1. count \in Nat \ {0} OBVIOUS
    <3> HIDE DEF mine
    <3> QED BY <3>1, FreshIs DEF ks
  <2> HIDE DEF names
  <2>3. /\ DOMAIN q' = DOMAIN t /\ q'.active = t.active /\ q'.ended = t.ended
        /\ DOMAIN q'[kind] = {"there", "names", "next"}
        /\ q'[kind].names = [n \in DOMAIN mine.names \union names |->
                               IF n \in names THEN Reserved ELSE mine.names[n]]
        /\ \A l \in {"query", "fence"} : l # kind => q'[l] = t[l]
    <3>1. CASE kind = "query" BY <3>1, <1>8, <2>1 DEF StateIs, TableIs
    <3>2. CASE kind = "fence" BY <3>2, <1>8, <2>1 DEF StateIs, TableIs
    <3> QED BY <1>3, <3>1, <3>2
  <2>4. Cardinality(DOMAIN mine.names) + Cardinality(names) <= MaxQueries
    <3>1. Cardinality(DOMAIN mine.names) \in Nat BY <2>1, FS_CardinalityType DEF TableIs
    <3> HIDE DEF mine
    <3> QED BY <1>8, <2>2, <3>1, QueryLimits
  <2>5. TableIs(q'[kind]) /\ SameTable(q'[kind], mine)
    <3> HIDE DEF mine
    <3> QED BY <2>1, <2>2, <2>3, <2>4, ReserveIs
  <2>6. Alike(q')
    <3>1. /\ TableIs(q'.query) /\ SameTable(q'.query, t.query)
          /\ TableIs(q'.fence) /\ SameTable(q'.fence, t.fence)
      <4>1. CASE kind = "query"
        <5>1. q'.fence = t.fence BY <2>3, <4>1
        <5> QED BY <2>1, <2>5, <4>1, <5>1 DEF StateIs, SameTable
      <4>2. CASE kind = "fence"
        <5>1. q'.query = t.query BY <2>3, <4>2
        <5> QED BY <2>1, <2>5, <4>2, <5>1 DEF StateIs, SameTable
      <4> QED BY <1>3, <4>1, <4>2
    <3>2. StateIs(q') BY <2>1, <2>3, <3>1 DEF StateIs
    <3>3. SameTable(q'.query, q.query) /\ SameTable(q'.fence, q.fence)
      BY <1>4, <3>1 DEF Alike, SameTable
    <3>4. q'.active = q.active /\ q'.ended = q.ended BY <1>4, <2>3 DEF Alike
    <3> QED BY <3>2, <3>3, <3>4 DEF Alike
  <2>7. answer'.kind = kind /\ answer'.names = SetToSeq(names) /\ answer'.reports = <<>>
    BY <1>8, SilentIs
  <2>8. Range(answer'.reports) = {} /\ DOMAIN answer'.reports = {} BY <2>7 DEF Range
  <2>9. AnswerInv' BY <1>3, <2>7, <2>8 DEF AnswerInv, ReportsCurrent, FenceHonest
  <2>10. Generates
    <3>1. \A n \in Range(SetToSeq(names)) : n \in names BY <2>2, SeqOfSet DEF Range
    <3>2. DOMAIN mine.names = DOMAIN q[kind].names BY <1>3, <1>4
    <3> QED BY <2>2, <2>7, <3>1, <3>2 DEF Generates
  <2>11. Delivers BY <2>8 DEF Delivers
  <2>12. QueryInv' BY <1>2, <2>6, <2>9, AlikeKeeps
  <2> QED BY <2>10, <2>11, <2>12 DEF QueryStep
<1> QED BY <1>5, <1>6, <1>7, <1>8

LEMMA ReleaseStep == ASSUME QueryInv, UNCHANGED kind, ReleaseQueries PROVE QueryStep
<1> DEFINE c == q.charged - (Cardinality(Objects(q.query)) + Cardinality(Objects(q.fence)))
                - Cardinality({k \in {"query", "fence"} : q[k].there}) - 1
           dead == {NativeOf(n) : n \in Objects(q.query)}
<1>1. /\ answer' = Silent /\ UNCHANGED gpu
      /\ q' = [NoQueries EXCEPT !.charged = c]
      /\ native' = [native EXCEPT !.ends = [i \in DOMAIN native.ends \ dead |-> native.ends[i]],
                                  !.active = 0]
      /\ told' = [NothingTold EXCEPT !.delivered = told.delivered]
  BY DEF ReleaseQueries, NativeOf
<1> HIDE DEF c
<1>2. /\ DOMAIN NoTable = {"there", "names", "next"} /\ NoTable.names = <<>>
      /\ NoTable.names = [n \in DOMAIN NoTable.names |-> NoTable.names[n]]
  BY DEF NoTable
<1>3. DOMAIN NoTable.names = {} /\ Objects(NoTable) = {}
  BY <1>2 DEF Objects
<1>4. TableIs(NoTable) BY <1>2, <1>3, FS_EmptySet, QueryLimits DEF TableIs
<1>5. /\ DOMAIN q' = {"there", "query", "fence", "active", "ended", "charged"}
      /\ q'.query = NoTable /\ q'.fence = NoTable /\ q'.active = 0 /\ q'.ended = <<>>
  BY <1>1 DEF NoQueries
<1>6. /\ DOMAIN told' = {"query", "fence", "delivered"} /\ told'.delivered = told.delivered
      /\ told'.query = [n \in QNames |-> 0] /\ told'.fence = [n \in QNames |-> 0]
  BY <1>1 DEF NothingTold, QNames
<1>7. DOMAIN native = {"ends", "active", "misused"} /\ DOMAIN gpu = {"given", "done"}
      /\ kind \in {"query", "fence"}
  BY DEF QueryInv, QueryShapes
<1>8. QueryStamps /\ QueryNative BY DEF QueryInv
<1>9. QueryShapes'
  <2>1. DOMAIN native' = DOMAIN native BY <1>1, <1>7
  <2> QED BY <1>1, <1>4, <1>5, <1>6, <1>7, <2>1 DEF QueryShapes, StateIs
<1>10. QueryStamps' BY <1>1, <1>6, <1>8 DEF QueryStamps
<1>11. QueryNative'
  <2>1. \A i \in DOMAIN native.ends : i \in dead BY <1>8 DEF QueryNative
  <2>2. DOMAIN native.ends \ dead = {} BY <2>1
  <2> HIDE DEF dead
  <2>3. /\ DOMAIN native'.ends = {} /\ native'.active = 0 /\ native'.misused = FALSE
        /\ native'.ends = [i \in DOMAIN native'.ends |-> native'.ends[i]]
    <3>1. native'.ends = [i \in DOMAIN native.ends \ dead |-> native.ends[i]] /\ native'.active = 0
          /\ native'.misused = native.misused
      BY <1>1, <1>7
    <3> QED BY <2>2, <3>1, <1>8 DEF QueryNative
  <2>4. Objects(q'.query) = {} /\ \A n \in QNames : told'.query[n] = 0 BY <1>3, <1>5, <1>6
  <2> QED BY <1>5, <2>3, <2>4 DEF QueryNative
<1>12. QueryQueue'
  <2>1. \A w : <<>> \in Queues(w) BY DEF Queues
  <2>2. \A m : ~Holds(<<>>, m) BY DEF Holds
  <2>3. q'.ended \in Queues(told.query)'
    <3>1. Queues(told.query)' = Queues(told'.query) BY DEF Queues
    <3> QED BY <1>5, <2>1, <3>1
  <2>4. \A m : Holds(q.ended, m)' <=> Holds(q'.ended, m) BY DEF Holds
  <2> QED BY <1>5, <2>2, <2>3, <2>4 DEF QueryQueue
<1>13. FenceStamps' BY <1>3, <1>5 DEF FenceStamps
<1> QED BY <1>1, <1>9, <1>10, <1>11, <1>12, <1>13, SilentStep DEF QueryStep, QueryInv

LEMMA CompleteStep == ASSUME QueryInv, UNCHANGED kind, NativeCompletes PROVE QueryStep
<1>1. /\ gpu.done < gpu.given /\ gpu' = [gpu EXCEPT !.done = @ + 1]
      /\ UNCHANGED <<q, native, told, answer>>
  BY DEF NativeCompletes
<1>2. QueryStamps /\ FenceStamps /\ AnswerInv /\ StateIs(q) BY DEF QueryInv, QueryShapes
<1>3. /\ gpu.given \in Nat /\ gpu.done \in 0..gpu.given
      /\ told.fence \in [QNames -> Nat] /\ \A n \in QNames : told.fence[n] <= gpu.given
  BY <1>2 DEF QueryStamps
<1>4. DOMAIN gpu' = DOMAIN gpu /\ gpu'.given = gpu.given /\ gpu'.done = gpu.done + 1
  BY <1>1 DEF QueryInv, QueryShapes
<1>5. gpu'.done \in 0..gpu'.given /\ gpu'.done >= gpu.done /\ gpu.done \in Nat /\ gpu'.done \in Nat
  BY <1>1, <1>3, <1>4
<1>6. AnswerInv' /\ Delivers /\ Generates BY <1>1, <1>2, <1>3, <1>5, SameAnswer
<1>7. FenceStamps'
  <2>1. \A n \in Objects(q.fence) : told.fence[n] \in Nat
    BY <1>2, <1>3 DEF StateIs, TableIs
  <2> QED BY <2>1, <1>1, <1>2, <1>5 DEF FenceStamps
<1>8. SameTable(q'.query, q.query) /\ StateIs(q') BY <1>1, <1>2 DEF SameTable
<1>9. QueryInv' BY <1>1, <1>3, <1>4, <1>5, <1>6, <1>7, <1>8, FenceKeeps
<1> QED BY <1>6, <1>9 DEF QueryStep

LEMMA QueriesStart == QueriesInit => QueryInv
<1> SUFFICES ASSUME QueriesInit PROVE QueryInv OBVIOUS
<1>1. /\ DOMAIN NoTable = {"there", "names", "next"} /\ NoTable.names = <<>>
      /\ NoTable.names = [n \in DOMAIN NoTable.names |-> NoTable.names[n]]
  BY DEF NoTable
<1>2. DOMAIN NoTable.names = {} /\ Objects(NoTable) = {} BY <1>1 DEF Objects
<1>3. TableIs(NoTable) BY <1>1, <1>2, FS_EmptySet, QueryLimits DEF TableIs
<1>4. /\ DOMAIN q = {"there", "query", "fence", "active", "ended", "charged"}
      /\ q.query = NoTable /\ q.fence = NoTable /\ q.active = 0 /\ q.ended = <<>>
  BY DEF QueriesInit, NoQueries
<1>5. /\ DOMAIN told = {"query", "fence", "delivered"} /\ told.delivered = {}
      /\ told.query = [n \in QNames |-> 0] /\ told.fence = [n \in QNames |-> 0]
  BY DEF QueriesInit, NothingTold, QNames
<1>6. /\ DOMAIN native = {"ends", "active", "misused"} /\ native.ends = <<>> /\ native.active = 0
      /\ native.misused = FALSE
      /\ DOMAIN gpu = {"given", "done"} /\ gpu.given = 0 /\ gpu.done = 0
      /\ kind \in {"query", "fence"} /\ answer = Silent
  BY DEF QueriesInit
<1>7. QueryShapes BY <1>3, <1>4, <1>5, <1>6 DEF QueryShapes, StateIs
<1>8. QueryStamps BY <1>5, <1>6 DEF QueryStamps
<1>9. QueryNative
  <2>1. DOMAIN native.ends = {} /\ native.ends = [i \in DOMAIN native.ends |-> native.ends[i]]
    BY <1>6
  <2> QED BY <1>2, <1>4, <1>5, <1>6, <2>1 DEF QueryNative
<1>10. QueryQueue
  <2>1. <<>> \in Queues(told.query) BY DEF Queues
  <2>2. \A m : ~Holds(<<>>, m) BY DEF Holds
  <2> QED BY <1>4, <2>1, <2>2 DEF QueryQueue
<1>11. FenceStamps BY <1>2, <1>4 DEF FenceStamps
<1>12. AnswerInv BY <1>6, SilentIs DEF AnswerInv, ReportsCurrent, FenceHonest
<1> QED BY <1>7, <1>8, <1>9, <1>10, <1>11, <1>12 DEF QueryInv

LEMMA QueriesKeep == ASSUME QueryInv, [QueriesNext]_queriesVars PROVE QueryStep \/ UNCHANGED queriesVars
<1>1. CASE UNCHANGED queriesVars BY <1>1
<1>2. CASE QueriesNext
  <2>1. UNCHANGED kind BY <1>2 DEF QueriesNext
  <2> QED BY <1>2, <2>1, BeginStep, EndStep, AskStep, SetStep, TestStep, DeleteStep, GenerateStep,
             ReleaseStep, CompleteStep DEF QueriesNext
<1> QED BY <1>1, <1>2

(* The store alone keeps its promises.                                       *)
THEOREM QueriesHold == QueriesSpec => QueriesSound
<1>1. ASSUME QueryInv, [QueriesNext]_queriesVars PROVE QueryInv'
  <2>1. CASE QueryStep BY <2>1 DEF QueryStep
  <2>2. CASE UNCHANGED queriesVars
    <3>1. q' = q /\ kind' = kind /\ native' = native /\ gpu' = gpu /\ told' = told /\ answer' = answer
      BY <2>2 DEF queriesVars
    <3>2. Alike(q)
      <4>1. QueryInv BY <1>1
      <4> QED BY <4>1, AlikeSelf
    <3>3. Alike(q') BY <3>1, <3>2 DEF Alike
    <3>4. AnswerInv' BY <1>1, <3>1 DEF QueryInv, AnswerInv, ReportsCurrent, FenceHonest
    <3> QED BY <1>1, <3>1, <3>3, <3>4, AlikeKeeps
  <2> QED BY <1>1, <2>1, <2>2, QueriesKeep
<1>2. ASSUME QueryInv, [QueriesNext]_queriesVars PROVE [Delivers]_queriesVars /\ [Generates]_queriesVars
  BY <1>2, QueriesKeep DEF QueryStep
<1>3. QueryInv => ReportsCurrent /\ NativeUnharmed /\ FenceHonest
  BY DEF QueryInv, AnswerInv, QueryNative, NativeUnharmed
<1>4. QueriesSpec => []QueryInv BY <1>1, QueriesStart, PTL DEF QueriesSpec
<1>5. QueriesSpec => [][Delivers]_queriesVars /\ [][Generates]_queriesVars
  BY <1>2, <1>4, PTL DEF QueriesSpec
<1>6. [][Delivers]_queriesVars => ReportedOnce BY PTL DEF Delivers, ReportedOnce
<1>7. [][Generates]_queriesVars => GeneratedUnused BY PTL DEF Generates, GeneratedUnused
<1> QED BY <1>3, <1>4, <1>5, <1>6, <1>7, PTL DEF QueriesSound

-----------------------------------------------------------------------------
(* The stores of the render thread.  Each step of HostStores is a step of    *)
(* one store and leaves the others alone, so what holds of a store by itself *)
(* holds of it there.                                                        *)

LEMMA SpecBuffers == Spec => BuffersSpec
<1>1. Init => BuffersInit BY DEF Init
<1>2. [Next]_storeVars => [BuffersNext]_bufferVars
  <2> SUFFICES ASSUME [Next]_storeVars PROVE [BuffersNext]_bufferVars OBVIOUS
  <2>1. CASE BuffersStep BY <2>1 DEF BuffersStep
  <2>2. CASE RegistryStep BY <2>2 DEF RegistryStep
  <2>3. CASE TableStep BY <2>3 DEF TableStep
  <2>4. CASE QueriesStep BY <2>4 DEF QueriesStep
  <2>5. CASE ListsStep BY <2>5 DEF ListsStep
  <2>6. CASE TwoDStep BY <2>6 DEF TwoDStep
  <2>7. CASE DesktopStep BY <2>7 DEF DesktopStep
  <2>8. CASE UNCHANGED storeVars BY <2>8 DEF storeVars
  <2> QED BY <2>1, <2>2, <2>3, <2>4, <2>5, <2>6, <2>7, <2>8 DEF Next
<1> QED BY <1>1, <1>2, PTL DEF Spec, BuffersSpec

LEMMA SpecRegistry == Spec => RegistrySpec
<1>1. Init => RegistryInit BY DEF Init
<1>2. [Next]_storeVars => [RegistryNext]_registryVars
  <2> SUFFICES ASSUME [Next]_storeVars PROVE [RegistryNext]_registryVars OBVIOUS
  <2>1. CASE RegistryStep BY <2>1 DEF RegistryStep
  <2>2. CASE BuffersStep BY <2>2 DEF BuffersStep
  <2>3. CASE TableStep BY <2>3 DEF TableStep
  <2>4. CASE QueriesStep BY <2>4 DEF QueriesStep
  <2>5. CASE ListsStep BY <2>5 DEF ListsStep
  <2>6. CASE TwoDStep BY <2>6 DEF TwoDStep
  <2>7. CASE DesktopStep BY <2>7 DEF DesktopStep
  <2>8. CASE UNCHANGED storeVars BY <2>8 DEF storeVars
  <2> QED BY <2>1, <2>2, <2>3, <2>4, <2>5, <2>6, <2>7, <2>8 DEF Next
<1> QED BY <1>1, <1>2, PTL DEF Spec, RegistrySpec

LEMMA SpecTable == Spec => TableSpec
<1>1. Init => TableInit BY DEF Init
<1>2. [Next]_storeVars => [TableNext]_tableVars
  <2> SUFFICES ASSUME [Next]_storeVars PROVE [TableNext]_tableVars OBVIOUS
  <2>1. CASE TableStep BY <2>1 DEF TableStep
  <2>2. CASE RegistryStep BY <2>2 DEF RegistryStep
  <2>3. CASE BuffersStep BY <2>3 DEF BuffersStep
  <2>4. CASE QueriesStep BY <2>4 DEF QueriesStep
  <2>5. CASE ListsStep BY <2>5 DEF ListsStep
  <2>6. CASE TwoDStep BY <2>6 DEF TwoDStep
  <2>7. CASE DesktopStep BY <2>7 DEF DesktopStep
  <2>8. CASE UNCHANGED storeVars BY <2>8 DEF storeVars
  <2> QED BY <2>1, <2>2, <2>3, <2>4, <2>5, <2>6, <2>7, <2>8 DEF Next
<1> QED BY <1>1, <1>2, PTL DEF Spec, TableSpec

LEMMA SpecTwoD == Spec => TwoDSpec
<1>1. Init => TwoDInit BY DEF Init
<1>2. [Next]_storeVars => [TwoDNext]_twoDVars
  <2> SUFFICES ASSUME [Next]_storeVars PROVE [TwoDNext]_twoDVars OBVIOUS
  <2>1. CASE TableStep BY <2>1 DEF TableStep
  <2>2. CASE RegistryStep BY <2>2 DEF RegistryStep
  <2>3. CASE BuffersStep BY <2>3 DEF BuffersStep
  <2>4. CASE QueriesStep BY <2>4 DEF QueriesStep
  <2>5. CASE ListsStep BY <2>5 DEF ListsStep
  <2>6. CASE TwoDStep BY <2>6 DEF TwoDStep
  <2>7. CASE DesktopStep BY <2>7 DEF DesktopStep
  <2>8. CASE UNCHANGED storeVars BY <2>8 DEF storeVars
  <2> QED BY <2>1, <2>2, <2>3, <2>4, <2>5, <2>6, <2>7, <2>8 DEF Next
<1> QED BY <1>1, <1>2, PTL DEF Spec, TwoDSpec

LEMMA SpecDesk == Spec => DeskSpec
<1>1. Init => CompositionInit BY DEF Init
<1>2. [Next]_storeVars => [CompositionNext]_compositionVars
  <2> SUFFICES ASSUME [Next]_storeVars PROVE [CompositionNext]_compositionVars OBVIOUS
  <2>1. CASE TableStep BY <2>1 DEF TableStep
  <2>2. CASE RegistryStep BY <2>2 DEF RegistryStep
  <2>3. CASE BuffersStep BY <2>3 DEF BuffersStep
  <2>4. CASE QueriesStep BY <2>4 DEF QueriesStep
  <2>5. CASE ListsStep BY <2>5 DEF ListsStep
  <2>6. CASE TwoDStep BY <2>6 DEF TwoDStep
  <2>7. CASE DesktopStep BY <2>7 DEF DesktopStep
  <2>8. CASE UNCHANGED storeVars BY <2>8 DEF storeVars
  <2> QED BY <2>1, <2>2, <2>3, <2>4, <2>5, <2>6, <2>7, <2>8 DEF Next
<1> QED BY <1>1, <1>2, PTL DEF Spec, DeskSpec

LEMMA SpecQueries == Spec => QueriesSpec
<1>1. Init => QueriesInit BY DEF Init
<1>2. [Next]_storeVars => [QueriesNext]_queriesVars
  <2> SUFFICES ASSUME [Next]_storeVars PROVE [QueriesNext]_queriesVars OBVIOUS
  <2>1. CASE TableStep BY <2>1 DEF TableStep
  <2>2. CASE RegistryStep BY <2>2 DEF RegistryStep
  <2>3. CASE BuffersStep BY <2>3 DEF BuffersStep
  <2>4. CASE QueriesStep BY <2>4 DEF QueriesStep
  <2>5. CASE ListsStep BY <2>5 DEF ListsStep
  <2>6. CASE TwoDStep BY <2>6 DEF TwoDStep
  <2>7. CASE DesktopStep BY <2>7 DEF DesktopStep
  <2>8. CASE UNCHANGED storeVars BY <2>8 DEF storeVars
  <2> QED BY <2>1, <2>2, <2>3, <2>4, <2>5, <2>6, <2>7, <2>8 DEF Next
<1> QED BY <1>1, <1>2, PTL DEF Spec, QueriesSpec

(* The index bounds kept with a buffer cover every index in it, and no draw  *)
(* is let through that reads past the buffer, whichever uploads, partial     *)
(* writes and deletions came before (buffer.rs, arrays/raw.rs): for every    *)
(* number of buffers and every size.                                         *)
THEOREM BoundsCorrect == Spec => []BoundsSound
BY SpecBuffers, BuffersBounded, PTL

(* Each native object and each name belongs to one record, the bytes charged *)
(* are the bytes of the drawables that live, within the limit, and the       *)
(* lookup kept for the next batch is the record a search would find          *)
(* (resource.rs, gl.rs): for every number of clients, slots and sizes.       *)
THEOREM RegistryCorrect == Spec => []RegistrySound
BY SpecRegistry, RegistryHolds, PTL

(* Whatever slots the names hash to, and in whatever order names come and    *)
(* go, one by one or a range at a time: the table holds exactly the names    *)
(* put in and not taken out, each in one slot, and a search from its home    *)
(* slot finds every one of them, so the shift behind a deletion never leaves *)
(* a gap before a name (the name tables of textures, buffers, programs,      *)
(* lists, queries and fences).                                               *)
THEOREM NamesCorrect == Spec => []NamesFound
BY SpecTable, TableHolds, PTL

(* Whatever the budgets of its slices, a batch of 2D commands leaves in VRAM *)
(* what its commands leave done one after the other, each at once, copies    *)
(* that overlap themselves included, and between two slices the progress is  *)
(* one that execute and restore accept (lib.rs 179-260): for one or two      *)
(* commands on rectangles of up to three rows, and every size of VRAM,       *)
(* stride, quantum and set of budgets.                                       *)
THEOREM SlicesCorrect == Spec => []SlicesSound
BY SpecTwoD, SlicesHold, PTL

(* Whichever captures, draws and readbacks are refused or go stale, and      *)
(* whenever the domain is reset: a desktop that calls itself coherent has no *)
(* pixels that only the GPU has, and the wire has the numbers of an epoch    *)
(* once and in order (composition.rs): for every set of regions and modes.   *)
THEOREM DesktopCorrect == Spec => DesktopSound
BY SpecDesk, DeskHolds, PTL

(* Whatever order queries and fences are begun, ended, set, asked for and    *)
(* deleted in, and however late the native OpenGL completes them: a native   *)
(* query or fence has one record and is taken back with it, at most one      *)
(* query counts and it is the one the context remembers, an ended query      *)
(* waits to be reported once and in the order of the ends, and the guest is  *)
(* told a result only of a query that has one (occlusion.rs): for every      *)
(* number of names and every length of the queue of ended queries.           *)
THEOREM QueriesCorrect == Spec => QueriesSound
BY SpecQueries, QueriesHold, PTL

==============================================================================
