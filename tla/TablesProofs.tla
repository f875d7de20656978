---------------------------- MODULE TablesProofs ----------------------------
(***************************************************************************)
(* A component's three vectors agree and are a map; the ids of entities    *)
(* and handles are accounted for; a cookie finds its item in a jar: for    *)
(* any number of threads, entities, ids and values.                        *)
(***************************************************************************)
EXTENDS Tables, SequenceTheorems, FiniteSetTheorems, TLAPS

----------------------------------------------------------------------------
(* A component                                                             *)

\* Vectors that agree, as a whole.  Where null_entity leads is needed for
\* the type of the indices only: nothing looks its record up.
Dense(d, e, r) ==
  /\ TablesOK(d, e, r)
  /\ \A i \in DOMAIN e : e[i] # NullEntity => r[e[i]] = i
  /\ \A y \in Ids : r[y] # Invalid => r[y] \in DOMAIN e /\ e[r[y]] = y

IInv == Dense(data, entities, reverse) /\ Dense(snap.data, snap.entities, snap.reverse)

\* Another record at the end, with its entity or without one.
LEMMA AppendDense ==
  ASSUME NEW d, NEW e, NEW r, Dense(d, e, r), NEW x \in Entities, NEW v \in Values,
         r[x] = Invalid
  PROVE  /\ Dense(Append(d, v), Append(e, x), [r EXCEPT ![x] = Len(d) + 1])
         /\ Dense(Append(d, v), Append(e, NullEntity), r)
BY ComponentAssumption DEF Dense, TablesOK, LeadsBack, Ids, Invalid

\* The last element takes the place of the one that is erased.
LEMMA SwapPopType ==
  ASSUME NEW S, NEW s \in Seq(S), NEW i \in 1 .. Len(s)
  PROVE  /\ SwapPop(s, i) \in Seq(S)
         /\ Len(SwapPop(s, i)) = Len(s) - 1
         /\ \A j \in 1 .. Len(s) - 1 : SwapPop(s, i)[j] = IF j = i THEN s[Len(s)] ELSE s[j]
BY DEF SwapPop

\* Swapped with the last record and removed.
LEMMA RemoveDense ==
  ASSUME NEW t, Dense(t.data, t.entities, t.reverse),
         NEW x \in Entities, t.reverse[x] # Invalid
  PROVE  Dense(Removed(t, x).data, Removed(t, x).entities, Removed(t, x).reverse)
<1> DEFINE d == t.data  e == t.entities  r == t.reverse
           n == Len(e)  i == r[x]
           nd == SwapPop(d, i)  ne == SwapPop(e, i)  nr == Relinked(e, r, x)
<1>1. /\ d \in Seq(Values) /\ e \in Seq(Ids) /\ Len(d) = n /\ n \in Nat
      /\ r \in [Ids -> 0 .. n] /\ x \in Ids
  BY DEF Dense, TablesOK, Ids
<1>2. i \in 1 .. n /\ e[i] = x /\ r[x] = i
  BY <1>1 DEF Dense, Invalid
<1>3. e[n] \in Ids
  BY <1>1, <1>2
<1>4. /\ nd \in Seq(Values) /\ Len(nd) = n - 1
      /\ ne \in Seq(Ids) /\ Len(ne) = n - 1
      /\ \A j \in 1 .. n - 1 : ne[j] = IF j = i THEN e[n] ELSE e[j]
  <2>1. i \in 1 .. Len(d)
    BY <1>1, <1>2
  <2>2. /\ nd \in Seq(Values) /\ Len(nd) = Len(d) - 1
    BY <1>1, <2>1, SwapPopType
  <2>3. /\ ne \in Seq(Ids) /\ Len(ne) = n - 1
        /\ \A j \in 1 .. n - 1 : ne[j] = IF j = i THEN e[n] ELSE e[j]
    BY <1>1, <1>2, SwapPopType
  <2> QED
    BY <2>2, <2>3, <1>1
<1>5. /\ DOMAIN nr = Ids /\ nr[x] = 0
      /\ e[n] # x => nr[e[n]] = i
      /\ \A y \in Ids \ {x, e[n]} : nr[y] = r[y]
  BY <1>1, <1>3 DEF Relinked, Invalid
<1>6. nr = [y \in Ids |-> nr[y]]
  BY <1>1 DEF Relinked
<1>7. e[n] = x <=> i = n
  <2>1. e[n] = x => r[x] = n
    BY <1>1, <1>2, ComponentAssumption DEF Dense
  <2> QED
    BY <2>1, <1>2
<1>8. \A y \in Ids \ {x, e[n]} : r[y] # n
  BY <1>1, <1>2 DEF Dense, Invalid
<1>a. \A k \in 1 .. n : e[k] \in Ids /\ (e[k] # NullEntity => r[e[k]] = k)
  BY <1>1 DEF Dense
<1>b. \A y \in Ids : r[y] # 0 => r[y] \in 1 .. n /\ e[r[y]] = y
  BY <1>1 DEF Dense, Invalid
<1> HIDE DEF d, e, r, n, i, nd, ne, nr
<1>9. \A y \in Ids : nr[y] \in 0 .. n - 1
  <2> SUFFICES ASSUME NEW y \in Ids PROVE nr[y] \in 0 .. n - 1
    OBVIOUS
  <2>1. CASE y = x
    BY <2>1, <1>1, <1>2, <1>5
  <2>2. CASE y # x /\ y = e[n]
    BY <2>2, <1>1, <1>2, <1>5, <1>7
  <2>3. CASE y # x /\ y # e[n]
    <3>1. nr[y] = r[y] /\ r[y] # n /\ r[y] \in 0 .. n
      BY <2>3, <1>1, <1>5, <1>8
    <3> QED
      BY <3>1, <1>1
  <2> QED
    BY <2>1, <2>2, <2>3
<1>10. TablesOK(nd, ne, nr)
  <2>1. nr \in [Ids -> 0 .. Len(ne)]
    BY <1>4, <1>6, <1>9
  <2> QED
    BY <1>4, <2>1 DEF TablesOK
<1>11. ASSUME NEW j \in DOMAIN ne, ne[j] # NullEntity PROVE nr[ne[j]] = j
  <2>1. j \in 1 .. n - 1
    BY <1>1, <1>4
  <2>2. CASE j = i
    <3>1. e[n] # x /\ ne[j] = e[n] /\ nr[e[n]] = i
      BY <2>1, <2>2, <1>1, <1>4, <1>5, <1>7
    <3> QED
      BY <3>1, <2>2
  <2>3. CASE j # i
    <3>1. ne[j] = e[j] /\ e[j] \in Ids /\ r[e[j]] = j
      BY <2>1, <2>3, <1>1, <1>4, <1>11, <1>a
    <3>2. e[j] # x
      BY <3>1, <2>3, <1>2
    <3>3. e[j] # e[n]
      BY <3>1, <2>1, <1>1, <1>2, <1>4, <1>11, <1>a
    <3> QED
      BY <3>1, <3>2, <3>3, <1>5
  <2> QED
    BY <2>2, <2>3
<1>12. ASSUME NEW y \in Ids, nr[y] # Invalid
       PROVE  nr[y] \in DOMAIN ne /\ ne[nr[y]] = y
  <2>1. y # x /\ nr[y] \in 1 .. n - 1 /\ DOMAIN ne = 1 .. n - 1
    <3>1. y # x /\ nr[y] \in 0 .. n - 1 /\ nr[y] # 0
      BY <1>5, <1>9, <1>12 DEF Invalid
    <3>2. DOMAIN ne = 1 .. n - 1
      BY <1>1, <1>4
    <3> QED
      BY <3>1, <3>2, <1>1
  <2>2. CASE y = e[n]
    BY <2>1, <2>2, <1>4, <1>5
  <2>3. CASE y # e[n]
    <3>1. nr[y] = r[y] /\ e[r[y]] = y
      BY <2>1, <2>3, <1>1, <1>5, <1>b
    <3>2. r[y] # i
      BY <3>1, <2>1, <1>2
    <3> QED
      BY <3>1, <3>2, <2>1, <1>4
  <2> QED
    BY <2>2, <2>3
<1>13. Dense(nd, ne, nr)
  BY <1>10, <1>11, <1>12 DEF Dense
<1> QED
  BY <1>13 DEF Removed, nd, ne, nr, d, e, r, i

\* Two records and their entities swapped.
LEMMA SwapDense ==
  ASSUME NEW d, NEW e, NEW r, Dense(d, e, r), NEW i \in DOMAIN d, NEW j \in DOMAIN d, i # j
  PROVE  Dense(Swapped(d, i, j), Swapped(e, i, j), [r EXCEPT ![e[j]] = i, ![e[i]] = j])
<1> DEFINE n == Len(e)  ne == Swapped(e, i, j)  nr == [r EXCEPT ![e[j]] = i, ![e[i]] = j]
<1>1. /\ d \in Seq(Values) /\ e \in Seq(Ids) /\ Len(d) = n /\ n \in Nat
      /\ r \in [Ids -> 0 .. n] /\ i \in 1 .. n /\ j \in 1 .. n
  BY DEF Dense, TablesOK
<1>2. \A k \in 1 .. n : e[k] \in Ids /\ (e[k] # NullEntity => r[e[k]] = k)
  BY <1>1 DEF Dense
<1>3. \A y \in Ids : r[y] # 0 => r[y] \in 1 .. n /\ e[r[y]] = y
  BY <1>1 DEF Dense, Invalid
<1>4. /\ Swapped(d, i, j) \in Seq(Values) /\ Len(Swapped(d, i, j)) = n
  BY <1>1 DEF Swapped
<1>5. /\ ne \in Seq(Ids) /\ Len(ne) = n
      /\ ne[i] = e[j] /\ ne[j] = e[i] /\ \A k \in (1 .. n) \ {i, j} : ne[k] = e[k]
  BY <1>1, <1>2 DEF Swapped
<1>6. /\ nr \in [Ids -> 0 .. n] /\ nr[e[i]] = j
      /\ e[i] # e[j] => nr[e[j]] = i
      /\ \A y \in Ids \ {e[i], e[j]} : nr[y] = r[y]
  BY <1>1, <1>2
<1> HIDE DEF n, ne, nr
<1>7. ASSUME NEW k \in 1 .. n, ne[k] # NullEntity PROVE nr[ne[k]] = k
  <2>1. CASE k = j
    BY <2>1, <1>5, <1>6
  <2>2. CASE k = i
    <3>1. e[i] # e[j]
      BY <2>2, <1>1, <1>2, <1>5, <1>7
    <3> QED
      BY <3>1, <2>2, <1>5, <1>6
  <2>3. CASE k # i /\ k # j
    <3>1. ne[k] = e[k] /\ e[k] \in Ids /\ r[e[k]] = k
      BY <2>3, <1>2, <1>5, <1>7
    <3>2. e[k] # e[i] /\ e[k] # e[j]
      BY <3>1, <2>3, <1>1, <1>2, <1>5, <1>7
    <3> QED
      BY <3>1, <3>2, <1>6
  <2> QED
    BY <2>1, <2>2, <2>3
<1>8. ASSUME NEW y \in Ids, nr[y] # 0 PROVE nr[y] \in 1 .. n /\ ne[nr[y]] = y
  <2>1. CASE y = e[i]
    BY <2>1, <1>1, <1>5, <1>6
  <2>2. CASE y = e[j] /\ e[j] # e[i]
    BY <2>2, <1>1, <1>5, <1>6
  <2>3. CASE y # e[i] /\ y # e[j]
    <3>1. nr[y] = r[y] /\ r[y] \in 1 .. n /\ e[r[y]] = y
      BY <2>3, <1>3, <1>6, <1>8
    <3>2. r[y] # i /\ r[y] # j
      BY <3>1, <2>3
    <3> QED
      BY <3>1, <3>2, <1>5
  <2> QED
    BY <2>1, <2>2, <2>3
<1>9. DOMAIN ne = 1 .. n
  BY <1>5
<1> QED
  BY <1>1, <1>4, <1>5, <1>6, <1>7, <1>8, <1>9 DEF Dense, TablesOK, Invalid, ne, nr

\* An array with no components is dense.
LEMMA EmptyDense == Dense(<<>>, <<>>, [x \in Ids |-> Invalid])
BY DEF Dense, TablesOK, Invalid

\* In a dense array the index of each entity leads to it.
LEMMA DenseLeadsBack ==
  ASSUME NEW d, NEW e, NEW r, Dense(d, e, r)
  PROVE  LeadsBack(e, r)
BY DEF Dense, LeadsBack, Ids

\* Each operation on a component's array leaves it dense.
LEMMA Inductive == IInv /\ [Next]_vars => IInv'
<1> SUFFICES ASSUME IInv, [Next]_vars PROVE IInv'
  OBVIOUS
<1> USE DEF IInv
<1>1. ASSUME NEW x \in Entities, NEW v \in Values, Add(x, v) \/ AddFails(x, v) PROVE IInv'
  <2>1. Dense(data', entities', reverse')
    <3>1. CASE Add(x, v)
      BY <3>1, AppendDense DEF Add
    <3>2. CASE AddFails(x, v)
      BY <3>2, AppendDense DEF AddFails
    <3> QED
      BY <1>1, <3>1, <3>2
  <2>2. UNCHANGED snap
    BY <1>1 DEF Add, AddFails
  <2> QED
    BY <2>1, <2>2
<1>2. ASSUME NEW x \in Entities, NEW v \in Values, Update(x, v) PROVE IInv'
  <2>1. data' \in Seq(Values) /\ Len(data') = Len(data)
    <3>1. data \in Seq(Values) /\ data' = [data EXCEPT ![reverse[x]] = v]
      BY <1>2 DEF Update, Dense, TablesOK
    <3>2. /\ DOMAIN data' = 1 .. Len(data) /\ Len(data) \in Nat
          /\ \A k \in 1 .. Len(data) : data'[k] \in Values
      BY <3>1
    <3>3. data' = [k \in 1 .. Len(data) |-> data'[k]]
      BY <3>1, <3>2
    <3>4. data' \in Seq(Values)
      BY <3>2, <3>3
    <3> QED
      BY <3>2, <3>4
  <2>2. UNCHANGED <<entities, reverse, snap>>
    BY <1>2 DEF Update
  <2>3. Dense(data', entities, reverse)
    BY <2>1 DEF Dense, TablesOK
  <2> QED
    BY <2>2, <2>3
<1>3. ASSUME NEW x \in Entities, Destroy(x) PROVE IInv'
  <2> DEFINE t == [data |-> data, entities |-> entities, reverse |-> reverse]
  <2>1. Dense(data', entities', reverse')
    <3>1. Dense(t.data, t.entities, t.reverse) /\ t.reverse[x] # Invalid
      BY <1>3 DEF Destroy
    <3>2. Dense(Removed(t, x).data, Removed(t, x).entities, Removed(t, x).reverse)
      BY <3>1, RemoveDense
    <3> QED
      BY <3>2, <1>3 DEF Destroy
  <2>2. Dense(snap'.data, snap'.entities, snap'.reverse)
    BY <1>3, RemoveDense DEF Destroy, Unsnapped
  <2> QED
    BY <2>1, <2>2
<1>4. CASE TakeSnapshot
  <2>1. /\ snap'.data = data /\ snap'.entities = entities /\ snap'.reverse = reverse
        /\ UNCHANGED <<data, entities, reverse>>
    BY <1>4 DEF TakeSnapshot, table
  <2> QED
    BY <2>1
<1>5. CASE UseSnapshot \/ LeaveSnapshot
  BY <1>5 DEF UseSnapshot, LeaveSnapshot, table
<1>6. ASSUME NEW i \in DOMAIN data, NEW j \in DOMAIN data, i # j, SortSwap(i, j) PROVE IInv'
  BY <1>6, SwapDense DEF SortSwap
<1>7. CASE UNCHANGED vars
  BY <1>7 DEF vars, table
<1> QED
  BY <1>1, <1>2, <1>3, <1>4, <1>5, <1>6, <1>7 DEF Next

\* What is found under an entity when another is removed
LEMMA RemoveLookup ==
  ASSUME NEW t, Dense(t.data, t.entities, t.reverse),
         NEW x \in Entities, t.reverse[x] # Invalid, NEW y \in Entities
  PROVE  /\ Removed(t, x).reverse[y] = Invalid <=> (y = x \/ t.reverse[y] = Invalid)
         /\ Removed(t, x).reverse[y] # Invalid =>
              Removed(t, x).data[Removed(t, x).reverse[y]] = t.data[t.reverse[y]]
<1> DEFINE d == t.data  e == t.entities  r == t.reverse  n == Len(e)  i == r[x]
           nd == SwapPop(d, i)  nr == Relinked(e, r, x)
<1>1. /\ d \in Seq(Values) /\ e \in Seq(Ids) /\ Len(d) = n /\ n \in Nat
      /\ r \in [Ids -> 0 .. n] /\ x \in Ids /\ y \in Ids /\ y # NullEntity
  BY ComponentAssumption DEF Dense, TablesOK, Ids
<1>2. i \in 1 .. n /\ e[i] = x
  BY <1>1 DEF Dense, Invalid
<1>3. \A j \in 1 .. n - 1 : nd[j] = IF j = i THEN d[n] ELSE d[j]
  <2>1. i \in 1 .. Len(d)
    BY <1>1, <1>2
  <2>2. \A j \in 1 .. Len(d) - 1 : nd[j] = IF j = i THEN d[Len(d)] ELSE d[j]
    BY <1>1, <2>1, SwapPopType
  <2> QED
    BY <1>1, <2>2
<1>4. nr[x] = 0 /\ \A z \in Ids \ {x} : nr[z] = IF z = e[n] THEN i ELSE r[z]
  BY <1>1, <1>2 DEF Relinked, Invalid
<1>5. r[y] # 0 => r[y] \in 1 .. n /\ e[r[y]] = y
  BY <1>1 DEF Dense, Invalid
<1>6. y = e[n] => r[y] = n
  BY <1>1, <1>2 DEF Dense
<1>7. Removed(t, x).reverse = nr /\ Removed(t, x).data = nd
  BY DEF Removed
<1> HIDE DEF d, e, r, n, i, nd, nr
<1>8. CASE y = x
  BY <1>8, <1>4, <1>7 DEF Invalid
<1>9. CASE y # x /\ y = e[n]
  <2>1. nr[y] = i /\ i # n /\ nd[i] = d[n] /\ r[y] = n
    BY <1>9, <1>1, <1>2, <1>3, <1>4, <1>6
  <2> QED
    BY <2>1, <1>9, <1>1, <1>2, <1>7 DEF Invalid, d, r
<1>10. CASE y # x /\ y # e[n]
  <2>1. nr[y] = r[y]
    BY <1>10, <1>1, <1>4
  <2>2. r[y] # 0 => r[y] \in 1 .. n - 1 /\ r[y] # i
    BY <1>10, <1>1, <1>2, <1>5
  <2> QED
    BY <2>1, <2>2, <1>10, <1>3, <1>7 DEF Invalid, d, r
<1> QED
  BY <1>8, <1>9, <1>10

\* Whatever was added, half added, removed, sorted and copied, the entity of
\* a record leads back to it and an entity to its own record (component.hpp,
\* destroy_entity_record() and do_populate()).
THEOREM VectorsAgree == Spec => []IndicesAgree
<1>1. Init => IInv
  BY EmptyDense DEF Init, IInv, Empty
<1>2. IInv => IndicesAgree
  BY DenseLeadsBack DEF IInv, IndicesAgree
<1> QED
  BY <1>1, <1>2, Inductive, PTL DEF Spec

\* The rest of a component's state: there is nothing in the snapshot before one
\* was taken.
StateInv ==
  /\ IInv /\ have \in BOOLEAN /\ users \in 0 .. MaxUsers /\ failures \in 0 .. MaxFailures
  /\ ~have => snap = Empty

\* ... with the entities' records as they were given.
LEMMA StateInductive == StateInv /\ [Next]_vars => StateInv'
<1> SUFFICES ASSUME StateInv, [Next]_vars PROVE StateInv'
  OBVIOUS
<1>1. IInv'
  BY Inductive DEF StateInv
<1>2. /\ have' \in BOOLEAN /\ users' \in 0 .. MaxUsers /\ failures' \in 0 .. MaxFailures
  <2>1. CASE UseSnapshot \/ LeaveSnapshot
    BY <2>1, ComponentAssumption DEF StateInv, UseSnapshot, LeaveSnapshot
  <2>2. ASSUME NEW x \in Entities, NEW v \in Values, AddFails(x, v)
        PROVE  have' = have /\ users' = users /\ failures' \in 0 .. MaxFailures
    BY <2>2, ComponentAssumption DEF StateInv, AddFails
  <2>3. ASSUME ~(UseSnapshot \/ LeaveSnapshot), ~\E x \in Entities, v \in Values : AddFails(x, v)
        PROVE  have' \in BOOLEAN /\ users' = users /\ failures' = failures
    BY <2>3 DEF StateInv, Next, vars, Add, Update, Destroy, TakeSnapshot, SortSwap
  <2> QED
    BY <2>1, <2>2, <2>3 DEF StateInv
<1>3. ~have' => snap' = Empty
  BY DEF StateInv, Next, vars, Add, AddFails, Update, Destroy, Unsnapped, TakeSnapshot, UseSnapshot,
    LeaveSnapshot, SortSwap
<1> QED
  BY <1>1, <1>2, <1>3 DEF StateInv

\* The records of a component are a map; each operation is one of the map, or
\* leaves it as it is.
LEMMA StepImplements ==
  ASSUME StateInv, [Next]_vars
  PROVE  [AbstractMap!Next]_AbstractMap!vars
<1> DEFINE map == Lookup(data, reverse)  snapshot == Lookup(snap.data, snap.reverse)
<1> USE ComponentAssumption DEF Invalid
<1>0. /\ data \in Seq(Values) /\ entities \in Seq(Ids) /\ Len(data) = Len(entities)
      /\ reverse \in [Ids -> 0 .. Len(entities)] /\ Entities \subseteq Ids
      /\ \A y \in Entities : reverse[y] # 0 => reverse[y] \in 1 .. Len(data) /\ entities[reverse[y]] = y
      /\ \A y \in Entities : reverse[y] # 0 => data[reverse[y]] \in Values
  BY DEF StateInv, IInv, Dense, TablesOK, Ids
<1>1. ASSUME NEW x \in Entities, NEW v \in Values, Add(x, v)
      PROVE  AbstractMap!Populate(x, v)
  <2>1. /\ data' = Append(data, v) /\ reverse' = [reverse EXCEPT ![x] = Len(data) + 1] /\ snap' = snap
    BY <1>1 DEF Add
  <2>2. \A y \in Entities : Lookup(data', reverse')[y] = IF y = x THEN v ELSE map[y]
    BY <1>0, <2>1 DEF Lookup
  <2>3. Lookup(data', reverse') = [map EXCEPT ![x] = v]
    BY <2>2 DEF Lookup
  <2> QED
    BY <2>1, <2>3 DEF AbstractMap!Populate
<1>2. ASSUME NEW x \in Entities, NEW v \in Values, AddFails(x, v)
      PROVE  UNCHANGED AbstractMap!vars
  <2>1. data' = Append(data, v) /\ reverse' = reverse /\ snap' = snap
    BY <1>2 DEF AddFails
  <2>2. \A y \in Entities : Lookup(data', reverse')[y] = map[y]
    BY <1>0, <2>1 DEF Lookup
  <2>3. Lookup(data', reverse') = map
    BY <2>2 DEF Lookup
  <2> QED
    BY <2>1, <2>3 DEF AbstractMap!vars
<1>3. ASSUME NEW x \in Entities, NEW v \in Values, Update(x, v)
      PROVE  AbstractMap!Populate(x, v)
  <2>1. data' = [data EXCEPT ![reverse[x]] = v] /\ reverse' = reverse /\ snap' = snap /\ reverse[x] # 0
    BY <1>3 DEF Update
  <2>2. \A y \in Entities \ {x} : reverse[y] # 0 => reverse[y] # reverse[x]
    BY <1>0, <2>1
  <2>3. \A y \in Entities : Lookup(data', reverse')[y] = IF y = x THEN v ELSE map[y]
    BY <1>0, <2>1, <2>2 DEF Lookup
  <2>4. Lookup(data', reverse') = [map EXCEPT ![x] = v]
    BY <2>3 DEF Lookup
  <2> QED
    BY <2>1, <2>4 DEF AbstractMap!Populate
<1>4. ASSUME NEW x \in Entities, Destroy(x)
      PROVE  AbstractMap!Destroy(x)
  <2> DEFINE t == [data |-> data, entities |-> entities, reverse |-> reverse]
  <2>1. /\ data' = Removed(t, x).data /\ reverse' = Removed(t, x).reverse /\ reverse[x] # 0
        /\ snap' = Unsnapped(x)
    BY <1>4 DEF Destroy
  <2>2. Dense(t.data, t.entities, t.reverse) /\ Dense(snap.data, snap.entities, snap.reverse)
    BY DEF StateInv, IInv
  <2>3. map[x] # Absent
    BY <1>0, <2>1 DEF Lookup
  <2>4. \A y \in Entities : Lookup(data', reverse')[y] = IF y = x THEN Absent ELSE map[y]
    <3> TAKE y \in Entities
    <3>1. /\ reverse'[y] = 0 <=> (y = x \/ reverse[y] = 0)
          /\ reverse'[y] # 0 => data'[reverse'[y]] = data[reverse[y]]
      BY <2>1, <2>2, RemoveLookup
    <3> QED
      BY <3>1 DEF Lookup
  <2>5. Lookup(data', reverse') = [map EXCEPT ![x] = Absent]
    BY <2>4 DEF Lookup
  <2>6. \A y \in Entities : Lookup(snap'.data, snap'.reverse)[y] = IF y = x THEN Absent ELSE snapshot[y]
    <3> TAKE y \in Entities
    <3>1. CASE have /\ snap.reverse[x] # 0
      <4>1. snap' = Removed(snap, x)
        BY <2>1, <3>1 DEF Unsnapped
      <4>2. /\ snap'.reverse[y] = 0 <=> (y = x \/ snap.reverse[y] = 0)
            /\ snap'.reverse[y] # 0 => snap'.data[snap'.reverse[y]] = snap.data[snap.reverse[y]]
        BY <2>2, <3>1, <4>1, RemoveLookup
      <4> QED
        BY <4>2 DEF Lookup
    <3>2. CASE ~(have /\ snap.reverse[x] # 0)
      <4>1. snap' = snap /\ snap.reverse[x] = 0
        BY <2>1, <3>2 DEF Unsnapped, StateInv, Empty, Ids
      <4> QED
        BY <4>1 DEF Lookup
    <3> QED
      BY <3>1, <3>2
  <2>7. Lookup(snap'.data, snap'.reverse) = [snapshot EXCEPT ![x] = Absent]
    BY <2>6 DEF Lookup
  <2> QED
    BY <2>3, <2>5, <2>7 DEF AbstractMap!Destroy
<1>5. CASE TakeSnapshot
  <2>1. AbstractMap!TakeSnapshot
    BY <1>5 DEF TakeSnapshot, table, AbstractMap!TakeSnapshot
  <2> QED
    BY <2>1 DEF AbstractMap!Next
<1>6. CASE UseSnapshot \/ LeaveSnapshot \/ UNCHANGED vars
  BY <1>6 DEF UseSnapshot, LeaveSnapshot, table, vars, AbstractMap!vars
<1>7. ASSUME NEW i \in DOMAIN data, NEW j \in DOMAIN data, i # j, SortSwap(i, j)
      PROVE  UNCHANGED AbstractMap!vars
  <2>1. /\ data' = Swapped(data, i, j) /\ snap' = snap
        /\ reverse' = [reverse EXCEPT ![entities[j]] = i, ![entities[i]] = j]
    BY <1>7 DEF SortSwap
  <2>2. /\ i \in 1 .. Len(data) /\ j \in 1 .. Len(data) /\ entities[i] \in Ids /\ entities[j] \in Ids
        /\ entities[i] # NullEntity => reverse[entities[i]] = i
        /\ entities[j] # NullEntity => reverse[entities[j]] = j
    BY <1>0 DEF StateInv, IInv, Dense
  <2>3. data'[i] = data[j] /\ data'[j] = data[i] /\ \A k \in 1 .. Len(data) \ {i, j} : data'[k] = data[k]
    BY <1>0, <2>1, <2>2, <1>7 DEF Swapped
  <2>4. ASSUME NEW y \in Entities PROVE Lookup(data', reverse')[y] = map[y]
    <3>1. CASE y = entities[i]
      <4>1. reverse[y] = i /\ reverse'[y] = j
        BY <3>1, <1>0, <2>1, <2>2
      <4> QED
        BY <4>1, <2>2, <2>3 DEF Lookup
    <3>2. CASE y = entities[j] /\ y # entities[i]
      <4>1. reverse[y] = j /\ reverse'[y] = i
        BY <3>2, <1>0, <2>1, <2>2
      <4> QED
        BY <4>1, <2>2, <2>3 DEF Lookup
    <3>3. CASE y # entities[j] /\ y # entities[i]
      <4>1. reverse'[y] = reverse[y] /\ reverse[y] # i /\ reverse[y] # j
        BY <3>3, <1>0, <2>1, <2>2
      <4> QED
        BY <4>1, <1>0, <2>3 DEF Lookup
    <3> QED
      BY <3>1, <3>2, <3>3
  <2>5. Lookup(data', reverse') = map
    BY <2>4 DEF Lookup
  <2> QED
    BY <2>1, <2>5 DEF AbstractMap!vars
<1> QED
  BY <1>1, <1>2, <1>3, <1>4, <1>5, <1>6, <1>7 DEF Next, AbstractMap!Next

\* Only Destroy changes a snapshot that is used, and it only takes away.
LEMMA StepHolds ==
  ASSUME StateInv, [Next]_vars, users > 0, NEW x \in Entities, snap'.reverse[x] # Invalid
  PROVE  /\ snap.reverse[x] # Invalid
         /\ snap'.data[snap'.reverse[x]] = snap.data[snap.reverse[x]]
<1>1. ASSUME NEW y \in Entities, Destroy(y)
      PROVE  /\ snap.reverse[x] # Invalid
             /\ snap'.data[snap'.reverse[x]] = snap.data[snap.reverse[x]]
  <2>1. CASE have /\ snap.reverse[y] # Invalid
    <3>1. snap' = Removed(snap, y) /\ Dense(snap.data, snap.entities, snap.reverse)
      BY <1>1, <2>1 DEF Destroy, Unsnapped, StateInv, IInv
    <3> QED
      BY <3>1, <2>1, RemoveLookup
  <2>2. CASE ~(have /\ snap.reverse[y] # Invalid)
    BY <1>1, <2>2 DEF Destroy, Unsnapped
  <2> QED
    BY <2>1, <2>2
<1>2. ASSUME ~\E y \in Entities : Destroy(y) PROVE snap' = snap
  BY <1>2, ComponentAssumption DEF StateInv, Next, vars, Add, AddFails, Update, TakeSnapshot, UseSnapshot,
    LeaveSnapshot, SortSwap, Free
<1> QED
  BY <1>1, <1>2

\* A component implements a map, and its snapshot a copy of one that only loses
\* the entities destroyed since, and that nobody exchanges while it is used
\* (component.hpp, do_populate(), destroy_entity_record(), sort(), snapshot()).
THEOREM ComponentIsMap == Spec => ComponentSafe
<1>1. Init => StateInv
  <2>1. Init => IInv
    BY EmptyDense DEF Init, IInv, Empty
  <2>2. Init => users \in 0 .. MaxUsers /\ failures \in 0 .. MaxFailures
    BY ComponentAssumption DEF Init
  <2>3. Init => have \in BOOLEAN /\ snap = Empty
    BY DEF Init
  <2> QED
    BY <2>1, <2>2, <2>3 DEF StateInv
<1>2. StateInv => TypeOK
  BY DEF StateInv, IInv, Dense, TypeOK
<1>3. Init => AbstractMap!Init
  BY DEF Init, AbstractMap!Init, Lookup, Empty, Ids
<1>4. StateInv /\ [Next]_vars =>
        (users > 0 => \A x \in Entities : snap'.reverse[x] # Invalid =>
           /\ snap.reverse[x] # Invalid
           /\ snap'.data[snap'.reverse[x]] = snap.data[snap.reverse[x]])
  BY StepHolds
<1>5. Spec => []StateInv
  BY <1>1, StateInductive, PTL DEF Spec
<1>6. Spec => ComponentMapSpec
  BY <1>3, <1>5, StepImplements, PTL DEF Spec, ComponentMapSpec, AbstractMap!Spec
<1>7. Spec => SnapshotHeld
  BY <1>4, <1>5, PTL DEF Spec, SnapshotHeld
<1> QED
  BY <1>2, <1>5, <1>6, <1>7, PTL DEF ComponentSafe

----------------------------------------------------------------------------
(* Sequences                                                               *)

\* What a sequence without its last element is, and one with another.
LEMMA SeqFront ==
  ASSUME NEW S, NEW s \in Seq(S), s # <<>>
  PROVE  /\ Len(s) \in Nat \ {0} /\ s[Len(s)] \in S
         /\ SubSeq(s, 1, Len(s) - 1) \in Seq(S) /\ Len(SubSeq(s, 1, Len(s) - 1)) = Len(s) - 1
         /\ \A k \in 1 .. Len(s) - 1 : SubSeq(s, 1, Len(s) - 1)[k] = s[k]
<1>1. Len(s) \in Nat \ {0} /\ \A k \in 1 .. Len(s) : s[k] \in S
  OBVIOUS
<1> DEFINE m == Len(s) - 1  f == SubSeq(s, 1, m)
<1>2. m \in Nat /\ m = Len(s) - 1 /\ \A k \in 1 .. m : s[k] \in S
  BY <1>1
<1> HIDE DEF m
<1>3. /\ f \in Seq(S) /\ Len(f) = (IF 1 <= m THEN m - 1 + 1 ELSE 0)
      /\ \A k \in 1 .. m - 1 + 1 : f[k] = s[1 + k - 1]
  BY <1>2, SubSeqProperties
<1> HIDE DEF f
<1>4. Len(f) = m /\ \A k \in 1 .. m : f[k] = s[k]
  BY <1>2, <1>3
<1>5. f \in Seq(S) /\ Len(f) = Len(s) - 1 /\ \A k \in 1 .. Len(s) - 1 : f[k] = s[k]
  BY <1>2, <1>3, <1>4
<1> QED
  BY <1>1, <1>5 DEF f, m

\* What Append does, element by element.
LEMMA SeqAppend ==
  ASSUME NEW S, NEW s \in Seq(S), NEW x \in S
  PROVE  /\ Append(s, x) \in Seq(S) /\ Len(s) \in Nat /\ Len(Append(s, x)) = Len(s) + 1
         /\ Append(s, x)[Len(s) + 1] = x
         /\ \A k \in 1 .. Len(s) : Append(s, x)[k] = s[k] /\ s[k] \in S
OBVIOUS

----------------------------------------------------------------------------
(* The ids of entities                                                     *)

Doing(t) == pc[t][1]
Its(t) == pc[t][2]
Requests == {"remove", "free", "queue"}
OnIt(t, e) == Doing(t) \in Requests /\ Its(t) = e
Listed(s, e) == \E k \in 1 .. Len(s) : s[k] = e
Once(s, e) == \A j, k \in 1 .. Len(s) : s[j] = e /\ s[k] = e => j = k

\* Entities are numbered as they are created, and threads, lists and records
\* know created ones only.
IdTypes ==
  /\ nextId \in 0 .. MaxEntityId /\ freedIds \in Seq(1 .. MaxEntityId)
  /\ record \in [1 .. MaxEntityId -> {0} \cup I!AllEntities]
  /\ queue \in Seq(I!AllEntities) /\ list \in Seq(I!AllEntities)
  /\ pc \in [I!EcsThreads ->
       {"idle", "populate", "remove", "free", "queue"} \X ({0} \cup I!AllEntities)]
  /\ id \in [I!AllEntities -> 0 .. MaxEntityId]
  /\ marked \cup gone \cup lost \subseteq I!AllEntities /\ asked \in [I!AllEntities -> 0 .. MaxAsked]
  /\ throws \in 0 .. MaxThrows
IdControl ==
  /\ \E n \in 0 .. MaxEntities : \A e \in I!AllEntities : id[e] # 0 <=> e <= n
  /\ \A t \in I!EcsThreads : pc[t] = I!Idle \/ (Doing(t) # "idle" /\ Its(t) \in I!Created)
  /\ Doing(I!Timer) \in {"idle", "remove", "free"}
  /\ \A k \in 1 .. Len(queue) : queue[k] \in I!Created
  /\ \A k \in 1 .. Len(list) : list[k] \in I!Created
  /\ \A i \in 1 .. MaxEntityId : record[i] # 0 => id[record[i]] = i
  /\ marked \subseteq I!Created /\ gone \subseteq I!Created
  /\ \A e \in I!AllEntities : asked[e] # 0 => e \in I!Created

\* Nobody knows an entity that is still being created.
IdPopulating ==
  \A t \in I!EcsThreads : Doing(t) = "populate" =>
    /\ asked[Its(t)] = 0 /\ Its(t) \notin marked
    /\ \A i \in 1 .. MaxEntityId : record[i] # Its(t)
    /\ \A u \in I!EcsThreads : pc[u] = pc[t] => u = t

\* A request to destroy an entity is in one place: in a list, with the thread
\* that carries it out, or done.
IdPlace(e) ==
  /\ Once(queue, e) /\ Once(list, e)
  /\ \A t, u \in I!EcsThreads : OnIt(t, e) /\ OnIt(u, e) => t = u
  /\ Listed(queue, e) => asked[e] = 1 /\ ~Listed(list, e) /\ e \notin gone
  /\ Listed(list, e) => asked[e] = 1 /\ e \notin gone
  /\ \A t \in I!EcsThreads : OnIt(t, e) =>
       asked[e] = 1 /\ e \notin gone /\ ~Listed(queue, e) /\ ~Listed(list, e)
  /\ e \in gone => asked[e] = 1
IdPlaces == \A e \in I!AllEntities : asked[e] <= 1 => IdPlace(e)

\* An id of which nobody was destroyed twice has one holder, or is free.
IdAccount(i) ==
  /\ \A e, f \in I!Holders(i) : e = f
  /\ I!Holders(i) # {} => ~Listed(freedIds, i)
  /\ Once(freedIds, i)
  /\ i <= nextId => I!Holders(i) # {} \/ Listed(freedIds, i)
IdAccounts ==
  /\ \A e \in I!Created : id[e] <= nextId
  /\ \A k \in 1 .. Len(freedIds) : freedIds[k] <= nextId
  /\ \A i \in 1 .. MaxEntityId \ I!Twice : IdAccount(i)
IdRecords == \A e \in I!Known : asked[e] = 0 /\ id[e] \notin I!Twice => record[id[e]] = e
IdMarks ==
  \A e \in marked \ (gone \cup lost) : id[e] \notin I!Twice =>
    Listed(queue, e) \/ Listed(list, e) \/ \E t \in I!EcsThreads : Its(t) = e

IdStructure == IdTypes /\ IdControl /\ IdPopulating /\ IdPlaces
IdRest == IdAccounts /\ IdRecords /\ IdMarks
IdInv ==
  /\ IdStructure
  /\ exhausted \in BOOLEAN
  /\ ~exhausted => IdRest

\* What the assumptions say of the constants.
LEMMA IdConstants ==
  /\ MaxEntityId \in Nat \ {0} /\ MaxEntities \in Nat /\ MaxAsked \in Nat /\ MaxThrows \in Nat
  /\ I!Timer \in I!EcsThreads /\ I!AllEntities = 1 .. MaxEntities
BY TablesAssumption DEF TablesAssumption, I!EntityIdsAssumption, I!EcsThreads, I!AllEntities

\* What is listed, and how often, when one more is.
LEMMA ListedAppend ==
  ASSUME NEW S, NEW s \in Seq(S), NEW x \in S, NEW e
  PROVE  /\ Listed(Append(s, x), e) <=> Listed(s, e) \/ e = x
         /\ Once(s, e) /\ (e = x => ~Listed(s, e)) => Once(Append(s, x), e)
<1> DEFINE a == Append(s, x)  n == Len(s)
<1>1. /\ n \in Nat /\ Len(a) = n + 1 /\ a[n + 1] = x
      /\ \A k \in 1 .. n : a[k] = s[k]
  BY SeqAppend
<1> HIDE DEF a, n
<1>2. \A k \in 1 .. n + 1 : k = n + 1 \/ k \in 1 .. n
  BY <1>1
<1>3. Listed(a, e) <=> Listed(s, e) \/ e = x
  BY <1>1, <1>2 DEF Listed, n
<1>4. Once(s, e) /\ (e = x => ~Listed(s, e)) => Once(a, e)
  BY <1>1, <1>2 DEF Listed, Once, n
<1> QED
  BY <1>3, <1>4 DEF a

\* ... and when the last is taken off.
LEMMA ListedFront ==
  ASSUME NEW S, NEW s \in Seq(S), s # <<>>, NEW e
  PROVE  /\ Listed(s, e) <=> Listed(SubSeq(s, 1, Len(s) - 1), e) \/ e = s[Len(s)]
         /\ Once(s, e) => /\ Once(SubSeq(s, 1, Len(s) - 1), e)
                          /\ e = s[Len(s)] => ~Listed(SubSeq(s, 1, Len(s) - 1), e)
<1> DEFINE f == SubSeq(s, 1, Len(s) - 1)  n == Len(s)
<1>1. /\ n \in Nat \ {0} /\ Len(f) = n - 1
      /\ \A k \in 1 .. n - 1 : f[k] = s[k]
  BY SeqFront
<1> HIDE DEF f, n
<1>2. /\ \A k \in 1 .. n : k = n \/ k \in 1 .. n - 1
      /\ \A k \in 1 .. n - 1 : k \in 1 .. n /\ k # n
      /\ n \in 1 .. n
  BY <1>1
<1>3. Listed(s, e) <=> Listed(f, e) \/ e = s[n]
  BY <1>1, <1>2 DEF Listed, n
<1>4. Once(s, e) => Once(f, e) /\ (e = s[n] => ~Listed(f, e))
  BY <1>1, <1>2 DEF Listed, Once, n
<1> QED
  BY <1>3, <1>4 DEF f, n

\* A thread that works on an entity works on one that exists.
LEMMA IdDoing ==
  ASSUME IdTypes, IdControl, NEW u \in I!EcsThreads
  PROVE  /\ pc[u] = <<pc[u][1], pc[u][2]>>
         /\ pc[u][1] # "idle" => /\ pc[u][2] \in I!AllEntities /\ pc[u][2] \in I!Created
                                /\ id[pc[u][2]] \in 1 .. MaxEntityId
         /\ pc[u][1] = "idle" => pc[u][2] = 0
<1>1. pc[u] = <<pc[u][1], pc[u][2]>>
  BY DEF IdTypes
<1>2. pc[u][1] # "idle" => pc[u][2] \in I!Created
  BY DEF IdControl, Doing, Its, I!Idle
<1>3. pc[u][1] = "idle" => pc[u][2] = 0
  BY DEF IdControl, Doing, Its, I!Idle
<1>4. \A e \in I!Created : e \in I!AllEntities /\ id[e] \in 1 .. MaxEntityId
  BY IdConstants DEF I!Created, IdTypes
<1> QED
  BY <1>1, <1>2, <1>3, <1>4

\* A thread that asks for the destruction of an entity has it in hand.
LEMMA IdAsks ==
  ASSUME IdStructure, NEW t \in I!EcsThreads, t # I!Timer, pc[t] = I!Idle,
         NEW e \in I!Known, I!Ask(e), NEW what \in {"remove", "queue"}, I!Become(t, what, e),
         marked' \subseteq marked \cup {record[id[e]]}, marked \subseteq marked', record[id[e]] # 0 \/ marked' = marked,
         UNCHANGED <<nextId, freedIds, record, queue, list, id, throws, gone, lost>>
  PROVE  /\ IdStructure' /\ (IdAccounts => IdAccounts') /\ (IdRecords => IdRecords')
         /\ IdMarks => \A x \in marked \ (gone \cup lost) : id[x] \notin I!Twice' =>
              Listed(queue, x) \/ Listed(list, x) \/ \E u \in I!EcsThreads : pc'[u][2] = x
         /\ I!Twice \subseteq I!Twice' /\ pc'[t] = <<what, e>> /\ id[e] \in 1 .. MaxEntityId /\ e \in I!AllEntities
<1> USE IdConstants
<1>1. /\ pc' = [pc EXCEPT ![t] = <<what, e>>] /\ e \in I!AllEntities /\ id[e] # 0 /\ e # 0
      /\ asked' = [asked EXCEPT ![e] = asked[e] + 1] /\ asked[e] < MaxAsked
      /\ \A u \in I!EcsThreads : pc[u] # <<"populate", e>>
  BY DEF I!Become, I!Ask, I!Known, I!Created
<1>2. IdTypes /\ IdControl /\ IdPopulating /\ IdPlaces
  BY DEF IdStructure
<1>3. id[e] \in 1 .. MaxEntityId /\ record[id[e]] \in {0} \cup I!AllEntities
  BY <1>1, <1>2 DEF IdTypes
<1>4. IdTypes'
  <2>1. pc' \in [I!EcsThreads ->
               {"idle", "populate", "remove", "free", "queue"} \X ({0} \cup I!AllEntities)]
    BY <1>1, <1>2 DEF IdTypes
  <2>2. asked' \in [I!AllEntities -> 0 .. MaxAsked]
    BY <1>1, <1>2 DEF IdTypes
  <2>3. marked' \cup gone' \cup lost' \subseteq I!AllEntities
    BY <1>2, <1>3 DEF IdTypes
  <2> QED
    BY <1>2, <2>1, <2>2, <2>3 DEF IdTypes, I!AllEntities
<1>5. \A u \in I!EcsThreads \ {t} : pc'[u] = pc[u]
  BY <1>1, <1>2 DEF IdTypes
<1>6. pc'[t] = <<what, e>>
  BY <1>1, <1>2 DEF IdTypes
<1>7. \A f \in I!AllEntities : asked'[f] = IF f = e THEN asked[e] + 1 ELSE asked[f]
  BY <1>1, <1>2 DEF IdTypes
<1>8. I!Created' = I!Created
  BY DEF I!Created, I!AllEntities
<1>9. marked' \subseteq I!Created
  BY <1>1, <1>2, <1>3 DEF IdControl, I!Created
<1>10. IdControl'
  <2>1. e \in I!Created
    BY DEF I!Known
  <2>2. \A u \in I!EcsThreads : pc'[u] = I!Idle \/ (pc'[u][1] # "idle" /\ pc'[u][2] \in I!Created)
    BY <1>2, <1>5, <1>6, <2>1 DEF IdControl, Doing, Its
  <2>3. pc'[I!Timer][1] \in {"idle", "remove", "free"}
    BY <1>2, <1>5 DEF IdControl, Doing
  <2>4. \A f \in I!AllEntities : asked'[f] # 0 => f \in I!Created
    BY <1>2, <1>7, <2>1 DEF IdControl
  <2> QED
    BY <1>2, <1>8, <1>9, <2>2, <2>3, <2>4 DEF IdControl, Doing, Its, I!AllEntities
<1>11. IdPopulating'
  <2> SUFFICES ASSUME NEW u \in I!EcsThreads, pc'[u][1] = "populate"
               PROVE  /\ asked'[pc'[u][2]] = 0 /\ pc'[u][2] \notin marked'
                      /\ \A i \in 1 .. MaxEntityId : record[i] # pc'[u][2]
                      /\ \A v \in I!EcsThreads : pc'[v] = pc'[u] => v = u
    BY DEF IdPopulating, Doing, Its
  <2>1. u # t /\ pc'[u] = pc[u]
    BY <1>5, <1>6
  <2>2. /\ asked[pc[u][2]] = 0 /\ pc[u][2] \notin marked
        /\ \A i \in 1 .. MaxEntityId : record[i] # pc[u][2]
        /\ \A v \in I!EcsThreads : pc[v] = pc[u] => v = u
    BY <1>2, <2>1 DEF IdPopulating, Doing, Its
  <2>3. pc[u][2] # e /\ pc[u][2] \in I!AllEntities
    BY <1>1, <1>2, <2>1, IdDoing
  <2> QED
    BY <1>3, <1>5, <1>6, <1>7, <2>1, <2>2, <2>3
<1>12. IdPlaces'
  <2>1. \A f \in I!AllEntities \ {e} : \A u \in I!EcsThreads : OnIt(u, f)' <=> OnIt(u, f)
    BY <1>5, <1>6 DEF OnIt, Doing, Its, I!Idle, Requests
  <2>2. ASSUME NEW f \in I!AllEntities \ {e}, asked'[f] <= 1 PROVE IdPlace(f)'
    <3>1. IdPlace(f) /\ asked'[f] = asked[f]
      BY <1>2, <1>7, <2>2 DEF IdPlaces
    <3> QED
      BY <3>1, <2>1 DEF IdPlace
  <2>3. ASSUME asked'[e] <= 1 PROVE IdPlace(e)'
    <3>1. asked[e] = 0 /\ asked'[e] = 1
      BY <1>1, <1>2, <1>7, <2>3 DEF IdTypes
    <3>2. /\ IdPlace(e) /\ ~Listed(queue, e) /\ ~Listed(list, e) /\ e \notin gone
          /\ \A u \in I!EcsThreads : ~OnIt(u, e)
      BY <1>1, <1>2, <3>1 DEF IdPlaces, IdPlace
    <3>3. \A u \in I!EcsThreads : OnIt(u, e)' => u = t
      BY <3>2, <1>5 DEF OnIt, Doing, Its
    <3> QED
      BY <3>1, <3>2, <3>3 DEF IdPlace
  <2> QED
    BY <2>2, <2>3 DEF IdPlaces, I!AllEntities
<1>13. I!Twice \subseteq I!Twice'
  BY <1>1, <1>2, <1>7 DEF I!Twice, I!AllEntities, IdTypes
<1>14. IdAccounts => IdAccounts'
  BY <1>8, <1>13 DEF IdAccounts, IdAccount, I!Holders
<1>15. IdRecords => IdRecords'
  <2>1. I!Known' \subseteq I!Known
    BY <1>5, <1>8, <1>1 DEF I!Known, I!Idle
  <2>2. \A f \in I!Known : f \in I!AllEntities
    BY DEF I!Known, I!Created
  <2>3. \A f \in I!AllEntities : asked'[f] = 0 => asked[f] = 0
    BY <1>1, <1>2, <1>7 DEF IdTypes
  <2> QED
    BY <1>13, <2>1, <2>2, <2>3 DEF IdRecords
<1>16. IdMarks => \A x \in marked \ (gone \cup lost) : id[x] \notin I!Twice' =>
         Listed(queue, x) \/ Listed(list, x) \/ \E u \in I!EcsThreads : pc'[u][2] = x
  <2>1. \A u \in I!EcsThreads : Its(u) # 0 => pc'[u] = pc[u]
    BY <1>5 DEF Its, I!Idle
  <2>2. 0 \notin marked
    BY <1>2 DEF IdTypes
  <2> QED
    BY <1>13, <2>1, <2>2 DEF IdMarks, Its
<1> QED
  BY <1>1, <1>3, <1>4, <1>6, <1>10, <1>11, <1>12, <1>13, <1>14, <1>15, <1>16 DEF IdStructure

\* destroy_entity()
LEMMA IdDestroys ==
  ASSUME IdInv, NEW t \in I!EcsThreads, NEW e \in I!Known, I!Destroy(t, e)
  PROVE  IdInv'
<1>1. IdStructure
  BY DEF IdInv
<1>2. /\ IdStructure' /\ (IdAccounts => IdAccounts') /\ (IdRecords => IdRecords')
      /\ IdMarks => \A x \in marked \ (gone \cup lost) : id[x] \notin I!Twice' =>
           Listed(queue, x) \/ Listed(list, x) \/ \E u \in I!EcsThreads : pc'[u][2] = x
  BY <1>1, IdAsks DEF I!Destroy, I!ids
<1>3. IdMarks => IdMarks'
  BY <1>2 DEF IdMarks, Its, I!Destroy
<1> QED
  BY <1>2, <1>3 DEF IdInv, IdRest, I!Destroy, I!ids

\* A record that is marked although the entity was not asked for is that of an
\* id whose entities are destroyed twice.
LEMMA IdMarksOne ==
  ASSUME IdInv, NEW t \in I!EcsThreads, NEW e \in I!Known, I!Mark(t, e)
  PROVE  IdInv'
<1> DEFINE r == record[id[e]]
<1>1. IdStructure /\ r # 0 /\ marked' = marked \cup {r} /\ asked' = [asked EXCEPT ![e] = asked[e] + 1]
  BY DEF IdInv, I!Mark, I!Ask
<1>2. /\ IdStructure' /\ (IdAccounts => IdAccounts') /\ (IdRecords => IdRecords')
      /\ IdMarks => \A x \in marked \ (gone \cup lost) : id[x] \notin I!Twice' =>
           Listed(queue, x) \/ Listed(list, x) \/ \E u \in I!EcsThreads : pc'[u][2] = x
      /\ I!Twice \subseteq I!Twice' /\ pc'[t] = <<"queue", e>> /\ id[e] \in 1 .. MaxEntityId /\ e \in I!AllEntities
  BY <1>1, IdAsks DEF I!Mark, I!ids
<1>3. id[r] = id[e]
  BY <1>1, <1>2 DEF IdStructure, IdControl
<1>4. IdRecords /\ id[e] \notin I!Twice' => r = e
  <2>1. ASSUME id[e] \notin I!Twice' PROVE asked'[e] <= 1
    BY <2>1, <1>1, <1>2 DEF I!Twice, I!Mark, IdStructure, IdTypes
  <2>2. asked'[e] <= 1 => asked[e] = 0
    BY <1>1, <1>2 DEF IdStructure, IdTypes
  <2> QED
    BY <1>2, <2>1, <2>2 DEF IdRecords
<1>5. IdRecords /\ IdMarks => IdMarks'
  <2> SUFFICES ASSUME IdRecords, IdMarks, NEW x \in marked' \ (gone \cup lost), id[x] \notin I!Twice'
               PROVE  Listed(queue, x) \/ Listed(list, x) \/ \E u \in I!EcsThreads : pc'[u][2] = x
    BY DEF IdMarks, Its, I!Mark
  <2>1. CASE x = r
    BY <2>1, <1>2, <1>3, <1>4
  <2> QED
    BY <2>1, <1>1, <1>2
<1> QED
  BY <1>2, <1>5 DEF IdInv, IdRest, I!Mark, I!ids

\* What a thread that goes on in its work leaves as it is.
LEMMA IdGoesOn ==
  ASSUME IdTypes, IdControl, NEW t \in I!EcsThreads, NEW p, pc' = [pc EXCEPT ![t] = p],
         p \in {"idle", "populate", "remove", "free", "queue"} \X ({0} \cup I!AllEntities),
         p = I!Idle \/ (p[1] # "idle" /\ p[2] \in I!Created), I!Created' = I!Created,
         t = I!Timer => p[1] \in {"idle", "remove", "free"}
  PROVE  /\ pc' \in [I!EcsThreads ->
               {"idle", "populate", "remove", "free", "queue"} \X ({0} \cup I!AllEntities)]
         /\ \A u \in I!EcsThreads : pc'[u] = IF u = t THEN p ELSE pc[u]
         /\ \A u \in I!EcsThreads : pc'[u] = I!Idle \/ (pc'[u][1] # "idle" /\ pc'[u][2] \in I!Created')
         /\ pc'[I!Timer][1] \in {"idle", "remove", "free"}
<1> USE IdConstants
<1>1. \A u \in I!EcsThreads : pc'[u] = IF u = t THEN p ELSE pc[u]
  BY DEF IdTypes
<1>2. pc' \in [I!EcsThreads -> {"idle", "populate", "remove", "free", "queue"} \X ({0} \cup I!AllEntities)]
  BY DEF IdTypes
<1>3. \A u \in I!EcsThreads : pc'[u] = I!Idle \/ (pc'[u][1] # "idle" /\ pc'[u][2] \in I!Created')
  BY <1>1 DEF IdControl, Doing, Its
<1>4. pc'[I!Timer][1] \in {"idle", "remove", "free"}
  BY <1>1 DEF IdControl, Doing
<1> QED
  BY <1>1, <1>2, <1>3, <1>4

\* async_destroy_entity()
LEMMA IdEnqueues ==
  ASSUME IdInv, NEW t \in I!EcsThreads, I!Enqueue(t)
  PROVE  IdInv'
<1> USE IdConstants
<1> DEFINE e == pc[t][2]
<1>1. IdTypes /\ IdControl /\ IdPopulating /\ IdPlaces
  BY DEF IdInv, IdStructure
<1>2. /\ pc[t][1] = "queue" /\ queue' = Append(queue, e) /\ pc' = [pc EXCEPT ![t] = I!Idle]
      /\ UNCHANGED <<nextId, freedIds, exhausted, record, marked, list, id, throws, asked, gone, lost>>
  BY DEF I!Enqueue, I!ids
<1>3. e \in I!AllEntities /\ OnIt(t, e) /\ e \in I!Created /\ queue \in Seq(I!AllEntities)
  BY <1>1, <1>2, IdDoing DEF OnIt, Doing, Its, Requests, IdTypes
<1>4. I!Created' = I!Created /\ I!Twice' = I!Twice
  BY <1>2 DEF I!Created, I!Twice, I!AllEntities
<1>5. /\ pc' \in [I!EcsThreads ->
               {"idle", "populate", "remove", "free", "queue"} \X ({0} \cup I!AllEntities)]
      /\ \A u \in I!EcsThreads : pc'[u] = IF u = t THEN I!Idle ELSE pc[u]
      /\ \A u \in I!EcsThreads : pc'[u] = I!Idle \/ (pc'[u][1] # "idle" /\ pc'[u][2] \in I!Created')
      /\ pc'[I!Timer][1] \in {"idle", "remove", "free"}
  BY <1>1, <1>2, <1>4, IdGoesOn DEF I!Idle
<1>6. \A f : /\ Listed(queue', f) <=> Listed(queue, f) \/ f = e
             /\ Once(queue, f) /\ (f = e => ~Listed(queue, f)) => Once(queue', f)
  <2> HIDE DEF e
  <2> TAKE f
  <2> QED
    BY <1>2, <1>3, ListedAppend
<1>7. queue' \in Seq(I!AllEntities) /\ \A k \in 1 .. Len(queue') : queue'[k] \in I!Created'
  <2> HIDE DEF e
  <2>1. /\ queue' \in Seq(I!AllEntities) /\ Len(queue) \in Nat /\ Len(queue') = Len(queue) + 1
        /\ queue'[Len(queue) + 1] = e /\ \A k \in 1 .. Len(queue) : queue'[k] = queue[k]
    BY <1>2, <1>3, SeqAppend
  <2>2. \A k \in 1 .. Len(queue') : k = Len(queue) + 1 \/ k \in 1 .. Len(queue)
    BY <2>1
  <2>3. \A k \in 1 .. Len(queue) : queue[k] \in I!Created
    BY <1>1 DEF IdControl
  <2> QED
    BY <1>3, <1>4, <2>1, <2>2, <2>3
<1> HIDE DEF e
<1>8. IdTypes'
  BY <1>1, <1>2, <1>5, <1>7 DEF IdTypes, I!AllEntities
<1>9. IdControl'
  BY <1>1, <1>2, <1>4, <1>5, <1>7 DEF IdControl, Doing, Its, I!AllEntities
<1>10. IdPopulating'
  BY <1>1, <1>2, <1>5 DEF IdPopulating, Doing, Its, I!Idle
<1>11. \A u \in I!EcsThreads, f \in I!AllEntities : OnIt(u, f)' => OnIt(u, f) /\ u # t
  BY <1>5 DEF OnIt, Doing, Its, Requests, I!Idle
<1>12. IdPlaces'
  <2> SUFFICES ASSUME NEW f \in I!AllEntities, asked[f] <= 1 PROVE IdPlace(f)'
    BY <1>2 DEF IdPlaces, I!AllEntities
  <2>1. IdPlace(f)
    BY <1>1 DEF IdPlaces
  <2>2. CASE f = e
    BY <2>1, <2>2, <1>2, <1>3, <1>6, <1>11 DEF IdPlace
  <2>3. CASE f # e
    BY <2>1, <2>3, <1>2, <1>6, <1>11 DEF IdPlace
  <2> QED
    BY <2>2, <2>3
<1>13. IdAccounts => IdAccounts'
  BY <1>2, <1>4 DEF IdAccounts, IdAccount, I!Holders, I!AllEntities
<1>14. IdRecords => IdRecords'
  <2>1. I!Known' = I!Known
    BY <1>2, <1>4, <1>5 DEF I!Known, I!Idle
  <2> QED
    BY <1>2, <1>4, <2>1 DEF IdRecords
<1>15. IdMarks => IdMarks'
  <2>1. \A u \in I!EcsThreads : pc'[u][2] = pc[u][2] \/ pc[u][2] = e
    BY <1>5 DEF e
  <2> QED
    BY <1>2, <1>4, <1>6, <2>1 DEF IdMarks, Its
<1> QED
  BY <1>2, <1>8, <1>9, <1>10, <1>12, <1>13, <1>14, <1>15 DEF IdInv, IdStructure, IdRest

\* commit_async_entity_destruction() begins
LEMMA IdCommits ==
  ASSUME IdInv, I!Commit
  PROVE  IdInv'
<1> USE IdConstants
<1>1. IdTypes /\ IdControl /\ IdPopulating /\ IdPlaces
  BY DEF IdInv, IdStructure
<1>2. /\ list = <<>> /\ list' = queue /\ queue' = <<>>
      /\ UNCHANGED <<nextId, freedIds, exhausted, record, marked, pc, id, throws, asked, gone, lost>>
  BY DEF I!Commit, I!ids, I!Taken
<1>3. I!Created' = I!Created /\ I!Twice' = I!Twice /\ I!Known' = I!Known
  BY <1>2 DEF I!Created, I!Twice, I!Known, I!AllEntities
<1>4. \A f : ~Listed(list, f) /\ ~Listed(queue', f) /\ Once(queue', f)
  BY <1>2 DEF Listed, Once
<1>5. IdTypes'
  BY <1>1, <1>2 DEF IdTypes, I!AllEntities
<1>6. IdControl'
  BY <1>1, <1>2, <1>3 DEF IdControl, Doing, Its, I!AllEntities
<1>7. IdPopulating'
  BY <1>1, <1>2 DEF IdPopulating, Doing, Its
<1>8. IdPlaces'
  BY <1>1, <1>2, <1>4 DEF IdPlaces, IdPlace, OnIt, Doing, Its, I!AllEntities
<1>9. IdAccounts => IdAccounts'
  BY <1>2, <1>3 DEF IdAccounts, IdAccount, I!Holders
<1>10. IdRecords => IdRecords'
  BY <1>2, <1>3 DEF IdRecords
<1>11. IdMarks => IdMarks'
  BY <1>2, <1>3, <1>4 DEF IdMarks, Its
<1> QED
  BY <1>2, <1>5, <1>6, <1>7, <1>8, <1>9, <1>10, <1>11 DEF IdInv, IdStructure, IdRest

\* ... goes on to the next
LEMMA IdCommitsNext ==
  ASSUME IdInv, I!CommitNext
  PROVE  IdInv'
<1> USE IdConstants
<1> DEFINE n == Len(list)  e == list[n]  t == I!Timer
<1>1. IdTypes /\ IdControl /\ IdPopulating /\ IdPlaces
  BY DEF IdInv, IdStructure
<1>2. /\ list # <<>> /\ pc[t] = I!Idle /\ list' = SubSeq(list, 1, n - 1)
      /\ pc' = [pc EXCEPT ![t] = <<"remove", e>>]
      /\ UNCHANGED <<nextId, freedIds, exhausted, record, marked, queue, id, throws, asked, gone, lost>>
  BY DEF I!CommitNext, I!ids, I!Last, I!Front, I!Become
<1>3. list \in Seq(I!AllEntities)
  BY <1>1 DEF IdTypes
<1>4. /\ n \in Nat \ {0} /\ e \in I!AllEntities /\ list' \in Seq(I!AllEntities) /\ Len(list') = n - 1
      /\ \A k \in 1 .. n - 1 : list'[k] = list[k]
  BY <1>2, <1>3, SeqFront
<1>5. \A f : /\ Listed(list, f) <=> Listed(list', f) \/ f = e
             /\ Once(list, f) => Once(list', f) /\ (f = e => ~Listed(list', f))
  <2> TAKE f
  <2> QED
    BY <1>2, <1>3, ListedFront
<1> HIDE DEF n, e
<1>6. e \in I!Created /\ \A k \in 1 .. Len(list') : list'[k] \in I!Created
  BY <1>1, <1>4 DEF IdControl, e, n
<1>7. I!Created' = I!Created /\ I!Twice' = I!Twice
  BY <1>2 DEF I!Created, I!Twice, I!AllEntities
<1>8. /\ pc' \in [I!EcsThreads ->
               {"idle", "populate", "remove", "free", "queue"} \X ({0} \cup I!AllEntities)]
      /\ \A u \in I!EcsThreads : pc'[u] = IF u = t THEN <<"remove", e>> ELSE pc[u]
      /\ \A u \in I!EcsThreads : pc'[u] = I!Idle \/ (pc'[u][1] # "idle" /\ pc'[u][2] \in I!Created')
      /\ pc'[t][1] \in {"idle", "remove", "free"}
  <2> DEFINE p == <<"remove", e>>
  <2>1. /\ p \in {"idle", "populate", "remove", "free", "queue"} \X ({0} \cup I!AllEntities)
        /\ p[1] # "idle" /\ p[2] \in I!Created /\ p[1] \in {"idle", "remove", "free"}
        /\ pc' = [pc EXCEPT ![t] = p]
    BY <1>2, <1>4, <1>6
  <2> HIDE DEF p
  <2> QED
    BY <1>1, <1>7, <2>1, IdGoesOn DEF p
<1>9. IdTypes'
  BY <1>1, <1>2, <1>4, <1>8 DEF IdTypes, I!AllEntities
<1>10. IdControl'
  BY <1>1, <1>2, <1>6, <1>7, <1>8 DEF IdControl, Doing, Its, I!AllEntities
<1>11. IdPopulating'
  BY <1>1, <1>2, <1>8 DEF IdPopulating, Doing, Its
<1>12. \A u \in I!EcsThreads, f \in I!AllEntities : OnIt(u, f)' => OnIt(u, f) \/ (u = t /\ f = e)
  BY <1>8 DEF OnIt, Doing, Its, Requests
<1>13. IdPlaces'
  <2> SUFFICES ASSUME NEW f \in I!AllEntities, asked[f] <= 1 PROVE IdPlace(f)'
    BY <1>2 DEF IdPlaces, I!AllEntities
  <2>1. IdPlace(f)
    BY <1>1 DEF IdPlaces
  <2>2. CASE f = e
    BY <2>1, <2>2, <1>2, <1>5, <1>12 DEF IdPlace
  <2>3. CASE f # e
    BY <2>1, <2>3, <1>2, <1>5, <1>12 DEF IdPlace
  <2> QED
    BY <2>2, <2>3
<1>14. IdAccounts => IdAccounts'
  BY <1>2, <1>7 DEF IdAccounts, IdAccount, I!Holders, I!AllEntities
<1>15. IdRecords => IdRecords'
  <2>1. I!Known' = I!Known
    BY <1>2, <1>7, <1>8 DEF I!Known, I!Idle
  <2> QED
    BY <1>2, <1>7, <2>1 DEF IdRecords
<1>16. IdMarks => IdMarks'
  <2>1. \A u \in I!EcsThreads : pc'[u][2] = pc[u][2] \/ pc[u][2] = 0
    BY <1>2, <1>8 DEF I!Idle
  <2>2. 0 \notin marked /\ pc'[t][2] = e
    BY <1>1, <1>8 DEF IdTypes
  <2> QED
    BY <1>2, <1>5, <1>7, <2>1, <2>2 DEF IdMarks, Its
<1> QED
  BY <1>2, <1>9, <1>10, <1>11, <1>13, <1>14, <1>15, <1>16 DEF IdInv, IdStructure, IdRest

\* ... and ends early when a destruction throws.
LEMMA IdCommitThrows ==
  ASSUME IdInv, I!CommitThrows
  PROVE  IdInv'
<1> USE IdConstants
<1>1. IdTypes /\ IdControl /\ IdPopulating /\ IdPlaces
  BY DEF IdInv, IdStructure
<1>2. /\ list' = <<>> /\ throws < MaxThrows /\ throws' = throws + 1
      /\ UNCHANGED <<nextId, freedIds, exhausted, record, marked, queue, pc, id, asked, gone>>
  BY <1>1 DEF I!CommitThrows, I!ids
<1>12. lost' = lost \cup {list[k] : k \in 1 .. Len(list)} /\ list \in Seq(I!AllEntities)
  <2>1. list \in Seq(I!AllEntities) /\ lost' = lost \cup {list[k] : k \in DOMAIN list}
    BY <1>1 DEF I!CommitThrows, I!ToSet, IdTypes
  <2> QED
    BY <2>1
<1>3. I!Created' = I!Created /\ I!Twice' = I!Twice /\ I!Known' = I!Known
  BY <1>2 DEF I!Created, I!Twice, I!Known, I!AllEntities
<1>4. \A f : ~Listed(list', f) /\ Once(list', f) /\ (Listed(list, f) => f \in lost')
  BY <1>2, <1>12 DEF Listed, Once
<1>5. IdTypes'
  <2>1. lost' \subseteq I!AllEntities /\ list' \in Seq(I!AllEntities)
    BY <1>1, <1>2, <1>12 DEF IdTypes
  <2>2. throws' \in 0 .. MaxThrows
    BY <1>1, <1>2 DEF IdTypes
  <2> QED
    BY <1>1, <1>2, <2>1, <2>2 DEF IdTypes, I!AllEntities
<1>6. IdControl'
  <2>1. \A k \in 1 .. Len(list') : list'[k] \in I!Created
    BY <1>2
  <2> QED
    BY <1>1, <1>2, <1>3, <2>1 DEF IdControl, Doing, Its, I!AllEntities
<1>7. IdPopulating'
  BY <1>1, <1>2 DEF IdPopulating, Doing, Its
<1>8. IdPlaces'
  BY <1>1, <1>2, <1>4 DEF IdPlaces, IdPlace, OnIt, Doing, Its, I!AllEntities
<1>9. IdAccounts => IdAccounts'
  BY <1>2, <1>3 DEF IdAccounts, IdAccount, I!Holders
<1>10. IdRecords => IdRecords'
  BY <1>2, <1>3 DEF IdRecords
<1>11. IdMarks => IdMarks'
  BY <1>2, <1>3, <1>4, <1>12 DEF IdMarks, Its
<1> QED
  BY <1>2, <1>5, <1>6, <1>7, <1>8, <1>9, <1>10, <1>11 DEF IdInv, IdStructure, IdRest

\* An entity that a thread removes, and that was asked for once, is the holder
\* of its id.
LEMMA IdHolder ==
  ASSUME IdStructure, IdAccounts, NEW t \in I!EcsThreads, Doing(t) \in Requests, id[Its(t)] \notin I!Twice
  PROVE  /\ asked[Its(t)] = 1 /\ Its(t) \in I!Holders(id[Its(t)]) /\ IdAccount(id[Its(t)])
         /\ \A f \in I!Created \ gone : id[f] = id[Its(t)] => f = Its(t)
<1> DEFINE e == Its(t)
<1>1. /\ e \in I!AllEntities /\ e \in I!Created /\ id[e] \in 1 .. MaxEntityId /\ OnIt(t, e)
  BY IdDoing DEF IdStructure, Doing, Its, Requests, OnIt
<1>2. asked[e] <= 1
  BY <1>1, IdConstants DEF I!Twice, IdStructure, IdTypes
<1>3. asked[e] = 1 /\ e \notin gone
  BY <1>1, <1>2 DEF IdStructure, IdPlaces, IdPlace
<1>4. e \in I!Holders(id[e]) /\ IdAccount(id[e])
  BY <1>1, <1>3 DEF IdAccounts, I!Holders
<1>5. \A f \in I!Created \ gone : id[f] = id[e] => f = e
  BY <1>4 DEF IdAccount, I!Holders
<1> QED
  BY <1>3, <1>4, <1>5

\* The entity's record goes,
LEMMA IdUnrecords ==
  ASSUME IdInv, NEW t \in I!EcsThreads, I!Unrecord(t)
  PROVE  IdInv'
<1> USE IdConstants
<1> DEFINE e == pc[t][2]
<1>1. IdTypes /\ IdControl /\ IdPopulating /\ IdPlaces
  BY DEF IdInv, IdStructure
<1>2. /\ pc[t][1] = "remove" /\ record' = [record EXCEPT ![id[e]] = 0] /\ pc' = [pc EXCEPT ![t] = <<"free", e>>]
      /\ UNCHANGED <<nextId, freedIds, exhausted, marked, queue, list, id, throws, asked, gone, lost>>
  BY DEF I!Unrecord, I!ids, I!Become
<1>3. e \in I!AllEntities /\ OnIt(t, e) /\ e \in I!Created /\ id[e] \in 1 .. MaxEntityId
  BY <1>1, <1>2, IdDoing DEF OnIt, Doing, Its, Requests
<1>4. I!Created' = I!Created /\ I!Twice' = I!Twice
  BY <1>2 DEF I!Created, I!Twice, I!AllEntities
<1>5. /\ pc' \in [I!EcsThreads ->
               {"idle", "populate", "remove", "free", "queue"} \X ({0} \cup I!AllEntities)]
      /\ \A u \in I!EcsThreads : pc'[u] = IF u = t THEN <<"free", e>> ELSE pc[u]
      /\ \A u \in I!EcsThreads : pc'[u] = I!Idle \/ (pc'[u][1] # "idle" /\ pc'[u][2] \in I!Created')
      /\ pc'[I!Timer][1] \in {"idle", "remove", "free"}
  <2> DEFINE p == <<"free", e>>
  <2>1. /\ p \in {"idle", "populate", "remove", "free", "queue"} \X ({0} \cup I!AllEntities)
        /\ p[1] # "idle" /\ p[2] \in I!Created /\ p[1] \in {"idle", "remove", "free"}
        /\ pc' = [pc EXCEPT ![t] = p]
    BY <1>2, <1>3
  <2> HIDE DEF p
  <2> QED
    BY <1>1, <1>4, <2>1, IdGoesOn DEF p
<1>6. \A i \in 1 .. MaxEntityId : record'[i] = IF i = id[e] THEN 0 ELSE record[i]
  BY <1>1, <1>2, <1>3 DEF IdTypes
<1> HIDE DEF e
<1>7. IdTypes'
  BY <1>1, <1>2, <1>3, <1>5 DEF IdTypes, I!AllEntities
<1>8. IdControl'
  <2>1. \A i \in 1 .. MaxEntityId : record'[i] # 0 => id[record'[i]] = i
    BY <1>1, <1>6 DEF IdControl
  <2> QED
    BY <1>1, <1>2, <1>4, <1>5, <2>1 DEF IdControl, Doing, Its, I!AllEntities
<1>9. IdPopulating'
  <2>1. \A u \in I!EcsThreads : pc'[u][1] = "populate" => u # t /\ pc'[u] = pc[u] /\ pc[u][2] # 0
    BY <1>1, <1>5, IdDoing DEF I!AllEntities
  <2> QED
    BY <1>1, <1>2, <1>5, <1>6, <2>1 DEF IdPopulating, Doing, Its
<1>10. \A u \in I!EcsThreads, f \in I!AllEntities : OnIt(u, f)' => OnIt(u, f)
  BY <1>2, <1>5 DEF OnIt, Doing, Its, Requests, e
<1>11. IdPlaces'
  <2> SUFFICES ASSUME NEW f \in I!AllEntities, asked[f] <= 1 PROVE IdPlace(f)'
    BY <1>2 DEF IdPlaces, I!AllEntities
  <2>1. IdPlace(f)
    BY <1>1 DEF IdPlaces
  <2> QED
    BY <2>1, <1>2, <1>10 DEF IdPlace
<1>12. IdAccounts => IdAccounts'
  BY <1>2, <1>4 DEF IdAccounts, IdAccount, I!Holders, I!AllEntities
<1>13. IdAccounts /\ IdRecords => IdRecords'
  <2> SUFFICES ASSUME IdAccounts, IdRecords, NEW f \in I!Known', asked[f] = 0, id[f] \notin I!Twice
               PROVE  record'[id[f]] = f
    BY <1>2, <1>4 DEF IdRecords
  <2>1. f \in I!Known /\ f \in I!Created /\ f \in I!AllEntities /\ f \notin gone
    <3>1. f \in I!Known
      BY <1>2, <1>4, <1>5 DEF I!Known
    <3>2. f \in I!AllEntities
      BY <3>1 DEF I!Known, I!Created
    <3>3. f \notin gone
      BY <3>2, <1>1 DEF IdPlaces, IdPlace
    <3> QED
      BY <3>1, <3>2, <3>3 DEF I!Known
  <2>2. id[f] # id[e]
    BY <1>1, <1>2, <2>1, IdHolder DEF IdStructure, Doing, Its, Requests, e
  <2>3. record[id[f]] = f /\ id[f] \in 1 .. MaxEntityId
    BY <1>1, <2>1 DEF IdRecords, I!Created, IdTypes
  <2> QED
    BY <1>6, <2>2, <2>3
<1>14. IdMarks => IdMarks'
  <2>1. \A u \in I!EcsThreads : pc'[u][2] = pc[u][2]
    BY <1>5 DEF e
  <2> QED
    BY <1>2, <1>4, <2>1 DEF IdMarks, Its
<1> QED
  BY <1>2, <1>7, <1>8, <1>9, <1>11, <1>12, <1>13, <1>14 DEF IdInv, IdStructure, IdRest

\* ... its id becomes free.
LEMMA IdFrees ==
  ASSUME IdInv, NEW t \in I!EcsThreads, I!Free(t)
  PROVE  IdInv'
<1> USE IdConstants
<1> DEFINE e == pc[t][2]
<1>1. IdTypes /\ IdControl /\ IdPopulating /\ IdPlaces
  BY DEF IdInv, IdStructure
<1>2. /\ pc[t][1] = "free" /\ freedIds' = Append(freedIds, id[e]) /\ gone' = gone \cup {e}
      /\ pc' = [pc EXCEPT ![t] = I!Idle]
      /\ UNCHANGED <<nextId, exhausted, record, marked, queue, list, id, throws, asked, lost>>
  BY DEF I!Free
<1>3. e \in I!AllEntities /\ OnIt(t, e) /\ e \in I!Created /\ id[e] \in 1 .. MaxEntityId
  BY <1>1, <1>2, IdDoing DEF OnIt, Doing, Its, Requests
<1>4. I!Created' = I!Created /\ I!Twice' = I!Twice
  BY <1>2 DEF I!Created, I!Twice, I!AllEntities
<1>5. /\ pc' \in [I!EcsThreads ->
               {"idle", "populate", "remove", "free", "queue"} \X ({0} \cup I!AllEntities)]
      /\ \A u \in I!EcsThreads : pc'[u] = IF u = t THEN I!Idle ELSE pc[u]
      /\ \A u \in I!EcsThreads : pc'[u] = I!Idle \/ (pc'[u][1] # "idle" /\ pc'[u][2] \in I!Created')
      /\ pc'[I!Timer][1] \in {"idle", "remove", "free"}
  BY <1>1, <1>2, <1>4, IdGoesOn DEF I!Idle
<1>6. freedIds \in Seq(1 .. MaxEntityId)
  BY <1>1 DEF IdTypes
<1> HIDE DEF e
<1>7. \A j : /\ Listed(freedIds', j) <=> Listed(freedIds, j) \/ j = id[e]
             /\ Once(freedIds, j) /\ (j = id[e] => ~Listed(freedIds, j)) => Once(freedIds', j)
  <2> DEFINE Any == 1 .. MaxEntityId
  <2>1. freedIds \in Seq(Any) /\ id[e] \in Any
    BY <1>3, <1>6
  <2> HIDE DEF Any
  <2> TAKE j
  <2> QED
    BY <1>2, <2>1, ListedAppend
<1>8. /\ freedIds' \in Seq(1 .. MaxEntityId) /\ Len(freedIds) \in Nat /\ Len(freedIds') = Len(freedIds) + 1
      /\ freedIds'[Len(freedIds) + 1] = id[e] /\ \A k \in 1 .. Len(freedIds) : freedIds'[k] = freedIds[k]
  BY <1>2, <1>3, <1>6, SeqAppend
<1>9. IdTypes'
  BY <1>1, <1>2, <1>3, <1>5, <1>8 DEF IdTypes, I!AllEntities
<1>10. IdControl'
  BY <1>1, <1>2, <1>3, <1>4, <1>5 DEF IdControl, Doing, Its, I!AllEntities
<1>11. IdPopulating'
  BY <1>1, <1>2, <1>5 DEF IdPopulating, Doing, Its, I!Idle
<1>12. \A u \in I!EcsThreads, f \in I!AllEntities : OnIt(u, f)' => OnIt(u, f) /\ u # t
  BY <1>5 DEF OnIt, Doing, Its, Requests, I!Idle
<1>13. IdPlaces'
  <2> SUFFICES ASSUME NEW f \in I!AllEntities, asked[f] <= 1 PROVE IdPlace(f)'
    BY <1>2 DEF IdPlaces, I!AllEntities
  <2>1. IdPlace(f)
    BY <1>1 DEF IdPlaces
  <2>2. CASE f = e
    BY <2>1, <2>2, <1>2, <1>3, <1>12 DEF IdPlace
  <2>3. CASE f # e
    BY <2>1, <2>3, <1>2, <1>12 DEF IdPlace
  <2> QED
    BY <2>2, <2>3
<1>14. IdAccounts => IdAccounts'
  <2> SUFFICES ASSUME IdAccounts PROVE IdAccounts'
    OBVIOUS
  <2>1. \A f \in I!Created' : id'[f] <= nextId'
    BY <1>2, <1>4 DEF IdAccounts
  <2>2. \A k \in 1 .. Len(freedIds') : freedIds'[k] <= nextId'
    <3> TAKE k \in 1 .. Len(freedIds')
    <3>1. k = Len(freedIds) + 1 \/ k \in 1 .. Len(freedIds)
      BY <1>8
    <3> QED
      BY <3>1, <1>2, <1>3, <1>8 DEF IdAccounts
  <2>3. \A j : I!Holders(j)' = I!Holders(j) \ {e}
    BY <1>2, <1>4 DEF I!Holders
  <2>4. ASSUME NEW j \in 1 .. MaxEntityId \ I!Twice PROVE IdAccount(j)'
    <3>1. IdAccount(j)
      BY <2>4 DEF IdAccounts
    <3>2. CASE j = id[e]
      <4>1. e \in I!Holders(j) /\ \A f \in I!Holders(j) : f = e
        BY <3>2, <2>4, <1>1, <1>2, IdHolder DEF IdStructure, Doing, Its, Requests, e, I!Holders
      <4>2. I!Holders(j)' = {}
        BY <4>1, <2>3
      <4>3. ~Listed(freedIds, j)
        BY <3>1, <4>1 DEF IdAccount
      <4> QED
        BY <3>1, <3>2, <4>2, <4>3, <1>7 DEF IdAccount
    <3>3. CASE j # id[e]
      <4>1. I!Holders(j)' = I!Holders(j)
        BY <3>3, <2>3 DEF I!Holders
      <4> QED
        BY <3>1, <3>3, <4>1, <1>2, <1>7 DEF IdAccount
    <3> QED
      BY <3>2, <3>3
  <2> QED
    BY <1>4, <2>1, <2>2, <2>4 DEF IdAccounts
<1>15. IdRecords => IdRecords'
  <2>1. I!Known' = I!Known
    BY <1>2, <1>4, <1>5 DEF I!Known, I!Idle
  <2> QED
    BY <1>2, <1>4, <2>1 DEF IdRecords
<1>16. IdMarks => IdMarks'
  <2>1. \A u \in I!EcsThreads : pc'[u][2] = pc[u][2] \/ pc[u][2] = e
    BY <1>5 DEF e
  <2> QED
    BY <1>2, <1>4, <2>1 DEF IdMarks, Its
<1> QED
  BY <1>2, <1>9, <1>10, <1>11, <1>13, <1>14, <1>15, <1>16 DEF IdInv, IdStructure, IdRest

\* create_entity() has populated the entity.
LEMMA IdPopulates ==
  ASSUME IdInv, NEW t \in I!EcsThreads, I!Populate(t)
  PROVE  IdInv'
<1> USE IdConstants
<1> DEFINE e == pc[t][2]
<1>1. IdTypes /\ IdControl /\ IdPopulating /\ IdPlaces
  BY DEF IdInv, IdStructure
<1>2. /\ pc[t][1] = "populate" /\ record' = [record EXCEPT ![id[e]] = e] /\ pc' = [pc EXCEPT ![t] = I!Idle]
      /\ UNCHANGED <<nextId, freedIds, exhausted, marked, queue, list, id, throws, asked, gone, lost>>
  BY DEF I!Populate, I!ids
<1>3. e \in I!AllEntities /\ e \in I!Created /\ id[e] \in 1 .. MaxEntityId /\ pc[t] = <<"populate", e>>
  BY <1>1, <1>2, IdDoing
<1>4. I!Created' = I!Created /\ I!Twice' = I!Twice
  BY <1>2 DEF I!Created, I!Twice, I!AllEntities
<1>5. /\ pc' \in [I!EcsThreads ->
               {"idle", "populate", "remove", "free", "queue"} \X ({0} \cup I!AllEntities)]
      /\ \A u \in I!EcsThreads : pc'[u] = IF u = t THEN I!Idle ELSE pc[u]
      /\ \A u \in I!EcsThreads : pc'[u] = I!Idle \/ (pc'[u][1] # "idle" /\ pc'[u][2] \in I!Created')
      /\ pc'[I!Timer][1] \in {"idle", "remove", "free"}
  BY <1>1, <1>2, <1>4, IdGoesOn DEF I!Idle
<1>6. \A i \in 1 .. MaxEntityId : record'[i] = IF i = id[e] THEN e ELSE record[i]
  BY <1>1, <1>2, <1>3 DEF IdTypes
<1>7. /\ asked[e] = 0 /\ e \notin marked
      /\ \A u \in I!EcsThreads : pc[u] = pc[t] => u = t
  BY <1>1, <1>2 DEF IdPopulating, Doing, Its
<1> HIDE DEF e
<1>8. IdTypes'
  BY <1>1, <1>2, <1>3, <1>5 DEF IdTypes, I!AllEntities
<1>9. IdControl'
  <2>1. \A i \in 1 .. MaxEntityId : record'[i] # 0 => id[record'[i]] = i
    BY <1>1, <1>6 DEF IdControl
  <2> QED
    BY <1>1, <1>2, <1>4, <1>5, <2>1 DEF IdControl, Doing, Its, I!AllEntities
<1>10. IdPopulating'
  <2> SUFFICES ASSUME NEW u \in I!EcsThreads, pc'[u][1] = "populate"
               PROVE  /\ asked[pc'[u][2]] = 0 /\ pc'[u][2] \notin marked
                      /\ \A i \in 1 .. MaxEntityId : record'[i] # pc'[u][2]
                      /\ \A v \in I!EcsThreads : pc'[v] = pc'[u] => v = u
    BY <1>2 DEF IdPopulating, Doing, Its
  <2>1. u # t /\ pc'[u] = pc[u]
    BY <1>5 DEF I!Idle
  <2>2. /\ asked[pc[u][2]] = 0 /\ pc[u][2] \notin marked
        /\ \A i \in 1 .. MaxEntityId : record[i] # pc[u][2]
        /\ \A v \in I!EcsThreads : pc[v] = pc[u] => v = u
    BY <1>1, <2>1 DEF IdPopulating, Doing, Its
  <2>3. pc[u] = <<"populate", pc[u][2]>>
    BY <1>1, <2>1, IdDoing
  <2>4. pc[u][2] # e
    BY <1>3, <1>7, <2>1, <2>3
  <2>5. \A v \in I!EcsThreads : pc'[v] = pc'[u] => v = u
    BY <1>5, <2>1, <2>2, <2>3 DEF I!Idle
  <2> QED
    BY <1>6, <2>1, <2>2, <2>4, <2>5
<1>11. \A u \in I!EcsThreads, f \in I!AllEntities : OnIt(u, f)' => OnIt(u, f)
  BY <1>5 DEF OnIt, Doing, Its, Requests, I!Idle
<1>12. IdPlaces'
  <2> SUFFICES ASSUME NEW f \in I!AllEntities, asked[f] <= 1 PROVE IdPlace(f)'
    BY <1>2 DEF IdPlaces, I!AllEntities
  <2>1. IdPlace(f)
    BY <1>1 DEF IdPlaces
  <2> QED
    BY <2>1, <1>2, <1>11 DEF IdPlace
<1>13. IdAccounts => IdAccounts'
  BY <1>2, <1>4 DEF IdAccounts, IdAccount, I!Holders, I!AllEntities
<1>14. IdAccounts /\ IdRecords => IdRecords'
  <2> SUFFICES ASSUME IdAccounts, IdRecords, NEW f \in I!Known', asked[f] = 0, id[f] \notin I!Twice
               PROVE  record'[id[f]] = f
    BY <1>2, <1>4 DEF IdRecords
  <2>1. f \in I!AllEntities /\ f \in I!Created /\ id[f] \in 1 .. MaxEntityId
    BY <1>1, <1>2 DEF I!Known, I!Created, IdTypes, I!AllEntities
  <2>2. \A g \in I!AllEntities : asked[g] = 0 => g \notin gone
    BY <1>1 DEF IdPlaces, IdPlace
  <2>3. CASE f # e
    <3>1. f \in I!Known
      <4>1. \A u \in I!EcsThreads : u # t => pc[u] # <<"populate", f>>
        BY <1>5 DEF I!Known
      <4>2. pc[t] # <<"populate", f>>
        BY <1>3, <2>3
      <4> QED
        BY <2>1, <4>1, <4>2 DEF I!Known
    <3>2. id[f] # id[e]
      <4>1. f \notin gone /\ e \notin gone
        BY <1>3, <1>7, <2>1, <2>2
      <4>2. id[f] = id[e] => f \in I!Holders(id[f]) /\ e \in I!Holders(id[f])
        BY <4>1, <2>1, <1>3 DEF I!Holders
      <4>3. IdAccount(id[f])
        BY <2>1 DEF IdAccounts
      <4> QED
        BY <2>3, <4>2, <4>3 DEF IdAccount
    <3> QED
      BY <3>1, <3>2, <2>1, <1>6 DEF IdRecords
  <2>4. CASE f = e
    BY <2>4, <1>3, <1>6
  <2> QED
    BY <2>3, <2>4
<1>15. IdMarks => IdMarks'
  <2>1. \A u \in I!EcsThreads : pc'[u][2] = pc[u][2] \/ pc[u][2] = e
    BY <1>5 DEF e
  <2> QED
    BY <1>2, <1>4, <1>7, <2>1 DEF IdMarks, Its
<1> QED
  BY <1>2, <1>8, <1>9, <1>10, <1>12, <1>13, <1>14, <1>15 DEF IdInv, IdStructure, IdRest

\* EntityIds counts with the library's own operator.
LEMMA IdCardinality == \A S : I!Cardinality(S) = Cardinality(S)
BY DEF I!Cardinality, Cardinality

\* The entity that is created is the next one, and nothing is known of it.
LEMMA IdNew ==
  ASSUME IdStructure, I!Cardinality(I!Created) < MaxEntities
  PROVE  LET e == I!Cardinality(I!Created) + 1 IN
         /\ e \in I!AllEntities /\ e \notin I!Created /\ id[e] = 0
         /\ I!Created = 1 .. e - 1 /\ e \in 1 .. MaxEntities
<1> USE IdConstants
<1>1. PICK n \in 0 .. MaxEntities : \A e \in I!AllEntities : id[e] # 0 <=> e <= n
  BY DEF IdStructure, IdControl
<1>2. I!Created = 1 .. n
  BY <1>1 DEF I!Created
<1>3. I!Cardinality(I!Created) = n
  BY <1>2, FS_Interval, IdCardinality
<1>4. n + 1 \in 1 .. MaxEntities /\ n + 1 \notin 1 .. n /\ (n + 1) - 1 = n
  BY <1>3
<1> QED
  BY <1>2, <1>3, <1>4 DEF I!Created

\* An entity is created: the next one, of which nothing is known.
LEMMA IdCreates ==
  ASSUME IdStructure, NEW t \in I!EcsThreads, t # I!Timer, pc[t] = I!Idle,
         NEW e \in 1 .. MaxEntities, NEW i \in 1 .. MaxEntityId,
         e \in I!AllEntities, e \notin I!Created, id[e] = 0, I!Created = 1 .. e - 1,
         id' = [id EXCEPT ![e] = i], I!Become(t, "populate", e),
         nextId' \in 0 .. MaxEntityId, freedIds' \in Seq(1 .. MaxEntityId),
         UNCHANGED <<record, marked, queue, list, throws, asked, gone, lost>>
  PROVE  /\ IdStructure' /\ (IdRecords => IdRecords') /\ (IdMarks => IdMarks')
         /\ \A j \in 1 .. MaxEntityId :
              \A f : f \in I!Created' \ gone' /\ id'[f] = j <=> f \in I!Holders(j) \/ (j = i /\ f = e)
         /\ \A j \in 1 .. MaxEntityId : j \in I!Twice => j \in I!Twice'
         /\ \A f \in I!Created' : id'[f] = i \/ (f \in I!Created /\ id'[f] = id[f])
<1> USE IdConstants
<1>1. IdTypes /\ IdControl /\ IdPopulating /\ IdPlaces
  BY DEF IdStructure
<1>2. \A f \in I!AllEntities : id'[f] = IF f = e THEN i ELSE id[f]
  BY <1>1 DEF IdTypes
<1>3. I!Created' = I!Created \cup {e}
  BY <1>2 DEF I!Created, I!AllEntities
<1>4. /\ pc' \in [I!EcsThreads ->
               {"idle", "populate", "remove", "free", "queue"} \X ({0} \cup I!AllEntities)]
      /\ \A u \in I!EcsThreads : pc'[u] = IF u = t THEN <<"populate", e>> ELSE pc[u]
      /\ \A u \in I!EcsThreads : pc'[u] = I!Idle \/ (pc'[u][1] # "idle" /\ pc'[u][2] \in I!Created')
      /\ pc'[I!Timer][1] \in {"idle", "remove", "free"}
  <2>1. pc' = [pc EXCEPT ![t] = <<"populate", e>>]
    BY DEF I!Become
  <2>2. \A u \in I!EcsThreads : pc'[u] = IF u = t THEN <<"populate", e>> ELSE pc[u]
    BY <2>1, <1>1 DEF IdTypes
  <2>3. pc' \in [I!EcsThreads ->
               {"idle", "populate", "remove", "free", "queue"} \X ({0} \cup I!AllEntities)]
    BY <2>1, <1>1 DEF IdTypes
  <2>4. \A u \in I!EcsThreads : pc'[u] = I!Idle \/ (pc'[u][1] # "idle" /\ pc'[u][2] \in I!Created')
    BY <2>2, <1>1, <1>3 DEF IdControl, Doing, Its
  <2>5. pc'[I!Timer][1] \in {"idle", "remove", "free"}
    BY <2>2, <1>1 DEF IdControl, Doing
  <2> QED
    BY <2>2, <2>3, <2>4, <2>5
<1>5. /\ asked[e] = 0 /\ e \notin marked /\ e \notin gone
      /\ \A j \in 1 .. MaxEntityId : record[j] # e
      /\ \A u \in I!EcsThreads : pc[u][2] # e
  <2>1. asked[e] = 0 /\ e \notin marked /\ e \notin gone
    BY <1>1 DEF IdControl
  <2>2. \A j \in 1 .. MaxEntityId : record[j] # e
    BY <1>1 DEF IdControl
  <2>3. \A u \in I!EcsThreads : pc[u][2] # e
    <3>1. e # 0
      OBVIOUS
    <3>2. ASSUME NEW u \in I!EcsThreads PROVE pc[u][2] # e
      BY <1>1, <3>1, IdDoing
    <3> QED
      BY <3>2
  <2> QED
    BY <2>1, <2>2, <2>3
<1>6. IdTypes'
  <2>1. id' \in [I!AllEntities -> 0 .. MaxEntityId]
    BY <1>1 DEF IdTypes
  <2> QED
    BY <1>1, <1>4, <2>1 DEF IdTypes, I!AllEntities
<1>7. IdControl'
  <2>1. \A f \in I!AllEntities : id'[f] # 0 <=> f <= e
    <3>1. \A f \in I!AllEntities : id[f] # 0 <=> f \in 1 .. e - 1
      BY DEF I!Created
    <3> QED
      BY <1>2, <3>1
  <2>2. \E n \in 0 .. MaxEntities : \A f \in I!AllEntities : id'[f] # 0 <=> f <= n
    <3>1. e \in 0 .. MaxEntities
      OBVIOUS
    <3> QED
      BY <2>1, <3>1
  <2>3. \A j \in 1 .. MaxEntityId : record[j] # 0 => id'[record[j]] = j
    BY <1>1, <1>2, <1>5 DEF IdControl, IdTypes
  <2>4. /\ \A k \in 1 .. Len(queue) : queue[k] \in I!Created'
        /\ \A k \in 1 .. Len(list) : list[k] \in I!Created'
        /\ marked \subseteq I!Created' /\ gone \subseteq I!Created'
        /\ \A f \in I!AllEntities : asked[f] # 0 => f \in I!Created'
    BY <1>1, <1>3 DEF IdControl
  <2> QED
    BY <1>4, <2>2, <2>3, <2>4 DEF IdControl, Doing, Its, I!AllEntities
<1>8. IdPopulating'
  <2> SUFFICES ASSUME NEW u \in I!EcsThreads, pc'[u][1] = "populate"
               PROVE  /\ asked[pc'[u][2]] = 0 /\ pc'[u][2] \notin marked
                      /\ \A j \in 1 .. MaxEntityId : record[j] # pc'[u][2]
                      /\ \A v \in I!EcsThreads : pc'[v] = pc'[u] => v = u
    BY DEF IdPopulating, Doing, Its
  <2>1. CASE u = t
    <3>1. pc'[u][2] = e
      BY <2>1, <1>4
    <3>2. \A v \in I!EcsThreads : pc'[v][2] = e => v = t
      BY <1>4, <1>5
    <3> QED
      BY <2>1, <3>1, <3>2, <1>5
  <2>2. CASE u # t
    <3>1. pc'[u] = pc[u]
      BY <2>2, <1>4
    <3>2. /\ asked[pc[u][2]] = 0 /\ pc[u][2] \notin marked
          /\ \A j \in 1 .. MaxEntityId : record[j] # pc[u][2]
          /\ \A v \in I!EcsThreads : pc[v] = pc[u] => v = u
      BY <1>1, <2>2, <3>1 DEF IdPopulating, Doing, Its
    <3>3. \A v \in I!EcsThreads : pc'[v] = pc[u] => v # t
      BY <1>4, <1>5
    <3> QED
      BY <3>1, <3>2, <3>3, <1>4
  <2> QED
    BY <2>1, <2>2
<1>9. ASSUME NEW u \in I!EcsThreads, NEW f PROVE OnIt(u, f)' <=> OnIt(u, f)
  <2>1. CASE u = t
    <3>1. pc'[u][1] = "populate" /\ pc[u][1] = "idle"
      BY <2>1, <1>4 DEF I!Idle
    <3> QED
      BY <3>1 DEF OnIt, Doing, Its, Requests
  <2>2. CASE u # t
    <3>1. pc'[u] = pc[u]
      BY <2>2, <1>4
    <3> QED
      BY <3>1 DEF OnIt, Doing, Its
  <2> QED
    BY <2>1, <2>2
<1>10. IdPlaces'
  BY <1>1, <1>9 DEF IdPlaces, IdPlace, I!AllEntities
<1>11. \A j \in 1 .. MaxEntityId : j \in I!Twice => j \in I!Twice'
  BY <1>2 DEF I!Twice, I!AllEntities
<1>12. \A j \in 1 .. MaxEntityId :
         \A f : f \in I!Created' \ gone' /\ id'[f] = j <=> f \in I!Holders(j) \/ (j = i /\ f = e)
  <2> TAKE j \in 1 .. MaxEntityId
  <2>1. \A f \in I!Created : id'[f] = id[f] /\ f # e
    BY <1>2 DEF I!Created
  <2>2. id'[e] = i
    BY <1>2
  <2> QED
    BY <1>3, <1>5, <2>1, <2>2 DEF I!Holders
<1>13. IdRecords => IdRecords'
  <2>1. \A f \in I!Known' : f \in I!Known /\ f # e /\ f \in I!AllEntities
    <3> TAKE f \in I!Known'
    <3>1. f \in I!Created' /\ \A u \in I!EcsThreads : pc'[u] # <<"populate", f>>
      BY DEF I!Known
    <3>2. f # e
      BY <3>1, <1>4
    <3>3. f \in I!Created /\ f \in I!AllEntities
      BY <3>1, <3>2, <1>3 DEF I!Created
    <3>4. \A u \in I!EcsThreads : pc[u] # <<"populate", f>>
      BY <3>1, <1>4 DEF I!Idle
    <3> QED
      BY <3>2, <3>3, <3>4 DEF I!Known
  <2>2. \A f \in I!Known : id[f] \in 1 .. MaxEntityId
    BY <1>1 DEF I!Known, I!Created, IdTypes
  <2> QED
    BY <1>2, <1>11, <2>1, <2>2 DEF IdRecords
<1>14. IdMarks => IdMarks'
  <2>1. \A f \in marked : f \in I!Created /\ f \in I!AllEntities /\ f # e /\ id[f] \in 1 .. MaxEntityId /\ f # 0
    BY <1>1 DEF IdControl, I!Created, IdTypes
  <2>2. \A u \in I!EcsThreads : pc'[u][2] = pc[u][2] \/ pc[u][2] = 0
    <3>1. pc[t][2] = 0
      BY DEF I!Idle
    <3> QED
      BY <3>1, <1>4
  <2> QED
    BY <1>2, <1>11, <2>1, <2>2 DEF IdMarks, Its
<1>15. \A f \in I!Created' : id'[f] = i \/ (f \in I!Created /\ id'[f] = id[f])
  BY <1>2, <1>3 DEF I!Created
<1> QED
  BY <1>6, <1>7, <1>8, <1>10, <1>11, <1>12, <1>13, <1>14, <1>15 DEF IdStructure

\* ... with an id that was freed
LEMMA IdCreatesFreed ==
  ASSUME IdInv, NEW t \in I!EcsThreads, t # I!Timer, pc[t] = I!Idle,
         I!Cardinality(I!Created) < MaxEntities, I!TakeFreed,
         NEW e, e = I!Cardinality(I!Created) + 1,
         id' = [id EXCEPT ![e] = I!Last(freedIds)], I!Become(t, "populate", e),
         UNCHANGED <<record, marked, queue, list, throws, asked, gone, lost>>
  PROVE  IdInv'
<1> USE IdConstants
<1> DEFINE n == Len(freedIds)  i == freedIds[n]
<1>1. freedIds # <<>> /\ nextId' = nextId /\ exhausted' = exhausted
  BY DEF I!TakeFreed
<1>2. freedIds' = SubSeq(freedIds, 1, n - 1) /\ I!Last(freedIds) = i
  BY DEF I!TakeFreed, I!Front, I!Last
<1>3. freedIds \in Seq(1 .. MaxEntityId) /\ nextId \in 0 .. MaxEntityId /\ IdStructure
  BY DEF IdInv, IdStructure, IdTypes
<1>4. /\ n \in Nat \ {0} /\ i \in 1 .. MaxEntityId /\ freedIds' \in Seq(1 .. MaxEntityId)
      /\ Len(freedIds') = n - 1 /\ \A k \in 1 .. n - 1 : freedIds'[k] = freedIds[k]
  <2> DEFINE Any == 1 .. MaxEntityId
  <2> HIDE DEF Any
  <2>1. freedIds \in Seq(Any)
    BY <1>3 DEF Any
  <2>2. /\ n \in Nat \ {0} /\ i \in Any /\ freedIds' \in Seq(Any)
        /\ Len(freedIds') = n - 1 /\ \A k \in 1 .. n - 1 : freedIds'[k] = freedIds[k]
    BY <1>1, <1>2, <2>1, SeqFront
  <2> QED
    BY <2>2 DEF Any
<1>5. \A j : /\ Listed(freedIds, j) <=> Listed(freedIds', j) \/ j = i
             /\ Once(freedIds, j) => Once(freedIds', j) /\ (j = i => ~Listed(freedIds', j))
  <2> DEFINE Any == 1 .. MaxEntityId
  <2>1. freedIds \in Seq(Any)
    BY <1>3
  <2> HIDE DEF Any
  <2> TAKE j
  <2> QED
    BY <1>1, <1>2, <2>1, ListedFront
<1> HIDE DEF n, i
<1>6. /\ e \in I!AllEntities /\ e \notin I!Created /\ id[e] = 0
      /\ I!Created = 1 .. e - 1 /\ e \in 1 .. MaxEntities
  BY <1>3, IdNew
<1>7. /\ IdStructure' /\ (IdRecords => IdRecords') /\ (IdMarks => IdMarks')
      /\ \A j \in 1 .. MaxEntityId :
           \A f : f \in I!Created' \ gone' /\ id'[f] = j <=> f \in I!Holders(j) \/ (j = i /\ f = e)
      /\ \A j \in 1 .. MaxEntityId : j \in I!Twice => j \in I!Twice'
      /\ \A f \in I!Created' : id'[f] = i \/ (f \in I!Created /\ id'[f] = id[f])
  <2>1. id' = [id EXCEPT ![e] = i] /\ nextId' \in 0 .. MaxEntityId
    BY <1>1, <1>2, <1>3
  <2> QED
    BY <1>3, <1>4, <1>6, <2>1, IdCreates DEF I!Become
<1>8. IdAccounts => IdAccounts'
  <2> SUFFICES ASSUME IdAccounts PROVE IdAccounts'
    OBVIOUS
  <2>1. i <= nextId
    BY <1>4 DEF IdAccounts, i, n
  <2>2. \A f \in I!Created' : id'[f] <= nextId'
    BY <1>1, <1>7, <2>1 DEF IdAccounts
  <2>3. \A k \in 1 .. Len(freedIds') : freedIds'[k] <= nextId'
    BY <1>1, <1>4 DEF IdAccounts, n
  <2>4. ASSUME NEW j \in 1 .. MaxEntityId, j \notin I!Twice' PROVE IdAccount(j)'
    <3>1. IdAccount(j)
      BY <1>7, <2>4 DEF IdAccounts
    <3>2. CASE j = i
      <4>1. I!Holders(j) = {}
        BY <3>1, <3>2, <1>5 DEF IdAccount
      <4>2. I!Holders(j)' = {e}
        BY <3>2, <4>1, <1>7 DEF I!Holders
      <4> QED
        BY <3>1, <3>2, <4>2, <1>5 DEF IdAccount
    <3>3. CASE j # i
      <4>1. I!Holders(j)' = I!Holders(j)
        BY <3>3, <1>7 DEF I!Holders
      <4> QED
        BY <3>1, <3>3, <4>1, <1>1, <1>5 DEF IdAccount
    <3> QED
      BY <3>2, <3>3
  <2> QED
    BY <2>2, <2>3, <2>4 DEF IdAccounts
<1> QED
  BY <1>1, <1>7, <1>8 DEF IdInv, IdRest

\* ... or one that is new.
LEMMA IdCreatesNext ==
  ASSUME IdInv, NEW t \in I!EcsThreads, t # I!Timer, pc[t] = I!Idle,
         I!Cardinality(I!Created) < MaxEntities, I!TakeNext, nextId' # 0,
         NEW e, e = I!Cardinality(I!Created) + 1,
         id' = [id EXCEPT ![e] = nextId'], I!Become(t, "populate", e),
         UNCHANGED <<record, marked, queue, list, throws, asked, gone, lost>>
  PROVE  IdInv'
<1> USE IdConstants
<1>9. PICK i : i = nextId'
  OBVIOUS
<1> USE <1>9
<1>1. freedIds = <<>> /\ freedIds' = <<>>
  BY DEF I!TakeNext
<1>2. nextId \in 0 .. MaxEntityId /\ i = (nextId + 1) % (MaxEntityId + 1) /\ IdStructure
  BY DEF I!TakeNext, IdInv, IdStructure, IdTypes
<1>3. i = nextId + 1 /\ i \in 1 .. MaxEntityId /\ nextId' \in 0 .. MaxEntityId
  BY <1>2
<1>4. exhausted' = exhausted
  BY DEF I!TakeNext, IdInv, I!Null
<1>5. \A j : ~Listed(freedIds, j) /\ ~Listed(freedIds', j) /\ Once(freedIds', j)
  BY <1>1 DEF Listed, Once
<1>6. /\ e \in I!AllEntities /\ e \notin I!Created /\ id[e] = 0
      /\ I!Created = 1 .. e - 1 /\ e \in 1 .. MaxEntities
  BY <1>2, IdNew
<1>7. /\ IdStructure' /\ (IdRecords => IdRecords') /\ (IdMarks => IdMarks')
      /\ \A j \in 1 .. MaxEntityId :
           \A f : f \in I!Created' \ gone' /\ id'[f] = j <=> f \in I!Holders(j) \/ (j = i /\ f = e)
      /\ \A j \in 1 .. MaxEntityId : j \in I!Twice => j \in I!Twice'
      /\ \A f \in I!Created' : id'[f] = i \/ (f \in I!Created /\ id'[f] = id[f])
  <2>1. freedIds' \in Seq(1 .. MaxEntityId) /\ id' = [id EXCEPT ![e] = i]
    BY <1>1
  <2>2. IdStructure /\ i \in 1 .. MaxEntityId /\ nextId' \in 0 .. MaxEntityId
    BY <1>2, <1>3
  <2> QED
    BY <1>6, <2>1, <2>2, IdCreates DEF I!Become
<1>8. IdAccounts => IdAccounts'
  <2> SUFFICES ASSUME IdAccounts PROVE IdAccounts'
    OBVIOUS
  <2>1. \A f \in I!Created' : id'[f] <= nextId'
    <3>1. \A f \in I!Created : id[f] \in Int /\ id[f] <= nextId
      BY <1>2 DEF IdAccounts, IdStructure, IdTypes, I!Created
    <3> QED
      BY <1>2, <1>3, <1>7, <3>1
  <2>2. \A k \in 1 .. Len(freedIds') : freedIds'[k] <= nextId'
    BY <1>1
  <2>3. I!Holders(i) = {}
    BY <1>2, <1>3 DEF IdAccounts, I!Holders
  <2>4. ASSUME NEW j \in 1 .. MaxEntityId, j \notin I!Twice' PROVE IdAccount(j)'
    <3>1. IdAccount(j)
      BY <1>7, <2>4 DEF IdAccounts
    <3>2. CASE j = i
      <4>1. I!Holders(j)' = {e}
        BY <3>2, <2>3, <1>7 DEF I!Holders
      <4> QED
        BY <4>1, <1>5 DEF IdAccount
    <3>3. CASE j # i
      <4>1. I!Holders(j)' = I!Holders(j)
        BY <3>3, <1>7 DEF I!Holders
      <4>2. j <= nextId' => j <= nextId
        BY <3>3, <1>2, <1>3
      <4> QED
        BY <3>1, <4>1, <4>2, <1>5 DEF IdAccount
    <3> QED
      BY <3>2, <3>3
  <2> QED
    BY <2>1, <2>2, <2>4 DEF IdAccounts
<1> QED
  BY <1>4, <1>7, <1>8 DEF IdInv, IdRest

\* Without an id nothing is created, and nothing more is promised.
LEMMA IdExhausts ==
  ASSUME IdInv, I!TakeNext, nextId' = 0,
         UNCHANGED <<record, marked, queue, list, pc, id, throws, asked, gone, lost>>
  PROVE  IdInv'
<1>1. IdTypes /\ IdControl /\ IdPopulating /\ IdPlaces
  BY DEF IdInv, IdStructure
<1>2. freedIds' = freedIds /\ nextId' \in 0 .. MaxEntityId
  BY IdConstants DEF I!TakeNext
<1>3. exhausted'
  BY DEF I!TakeNext, I!Null
<1>4. I!Created' = I!Created
  BY DEF I!Created, I!AllEntities
<1>5. IdStructure'
  BY <1>1, <1>2, <1>4 DEF IdStructure, IdTypes, IdControl, IdPopulating, IdPlaces, IdPlace, OnIt, Doing, Its, I!AllEntities
<1> QED
  BY <1>3, <1>5 DEF IdInv

\* All that the ids rely on is kept by every step.
LEMMA IdInductive == IdInv /\ [I!Next]_I!vars => IdInv'
<1> SUFFICES ASSUME IdInv, [I!Next]_I!vars PROVE IdInv'
  OBVIOUS
<1>1. ASSUME NEW t \in I!EcsThreads, I!Create(t) PROVE IdInv'
  BY <1>1, IdCreatesFreed, IdCreatesNext, IdExhausts DEF I!Create, I!Null
<1>2. CASE UNCHANGED I!vars
  <2>1. UNCHANGED <<nextId, freedIds, exhausted, record, marked, queue, list, pc, id, throws, asked, gone, lost>>
    BY <1>2 DEF I!vars, I!ids
  <2>2. I!Created' = I!Created /\ I!Twice' = I!Twice /\ I!Known' = I!Known
    BY <2>1 DEF I!Created, I!Twice, I!Known, I!AllEntities
  <2>3. IdStructure'
    BY <2>1, <2>2 DEF IdInv, IdStructure, IdTypes, IdControl, IdPopulating, IdPlaces, IdPlace, OnIt, Doing, Its,
      I!AllEntities
  <2>4. IdRest => IdRest'
    BY <2>1, <2>2 DEF IdRest, IdAccounts, IdAccount, I!Holders, IdRecords, IdMarks, Its
  <2> QED
    BY <2>1, <2>3, <2>4 DEF IdInv
<1> QED
  BY <1>1, <1>2, IdPopulates, IdDestroys, IdUnrecords, IdFrees, IdMarksOne, IdEnqueues, IdCommits, IdCommitsNext,
    IdCommitThrows DEF I!Next

\* An id is held by one entity or free, once.
LEMMA IdCounts ==
  ASSUME IdInv, ~exhausted, NEW i \in 1 .. nextId \ I!Twice
  PROVE  I!Cardinality(I!Holders(i)) + I!Cardinality({k \in DOMAIN freedIds : freedIds[k] = i}) = 1
<1> DEFINE FreeOnes == {k \in DOMAIN freedIds : freedIds[k] = i}
<1>1. IdAccounts
  BY DEF IdInv, IdRest
<1>2. nextId \in 0 .. MaxEntityId /\ freedIds \in Seq(1 .. MaxEntityId)
  BY DEF IdInv, IdStructure, IdTypes
<1>3. IdAccount(i) /\ i <= nextId
  BY <1>1, <1>2, IdConstants DEF IdAccounts
<1>4. DOMAIN freedIds = 1 .. Len(freedIds)
  BY <1>2
<1>5. CASE Listed(freedIds, i)
  <2>1. PICK k \in 1 .. Len(freedIds) : freedIds[k] = i
    BY <1>5 DEF Listed
  <2>2. FreeOnes = {k}
    BY <2>1, <1>3, <1>4 DEF IdAccount, Once
  <2>3. I!Holders(i) = {}
    BY <1>3, <1>5 DEF IdAccount
  <2>4. Cardinality(FreeOnes) = 1 /\ Cardinality(I!Holders(i)) = 0
    BY <2>2, <2>3, FS_Singleton, FS_EmptySet
  <2> QED
    BY <2>4, IdCardinality
<1>6. CASE ~Listed(freedIds, i)
  <2>1. FreeOnes = {}
    BY <1>4, <1>6 DEF Listed
  <2>2. I!Holders(i) # {}
    BY <1>3, <1>6 DEF IdAccount
  <2>3. PICK e \in I!Holders(i) : TRUE
    BY <2>2
  <2>4. I!Holders(i) = {e}
    BY <1>3, <2>3 DEF IdAccount
  <2>5. Cardinality(FreeOnes) = 0 /\ Cardinality(I!Holders(i)) = 1
    BY <2>1, <2>4, FS_Singleton, FS_EmptySet
  <2> QED
    BY <2>5, IdCardinality
<1> QED
  BY <1>5, <1>6

\* The ids of entities, their records and the queue of those to destroy.
LEMMA EntitiesSafe == I!Spec => [](I!TypeOK /\ I!IdsAccounted /\ I!KeepsRecord /\ I!MarkedIsQueued)
<1>1. I!Init => IdInv
  <2> SUFFICES ASSUME I!Init PROVE IdInv
    OBVIOUS
  <2> USE IdConstants DEF I!Init
  <2>1. I!Created = {} /\ I!Known = {} /\ \A i \in 1 .. MaxEntityId : I!Holders(i) = {}
    BY DEF I!Created, I!Known, I!Holders
  <2>2. \A e : ~Listed(queue, e) /\ ~Listed(list, e) /\ ~Listed(freedIds, e)
               /\ Once(queue, e) /\ Once(list, e) /\ Once(freedIds, e)
    BY DEF Listed, Once
  <2>3. \A t \in I!EcsThreads : pc[t] = I!Idle /\ Doing(t) = "idle" /\ \A e : ~OnIt(t, e)
    BY DEF Doing, OnIt, Requests, I!Idle
  <2>4. IdTypes
    BY DEF IdTypes, I!Null, I!Idle
  <2>5. IdControl
    <3>1. \E n \in 0 .. MaxEntities : \A e \in I!AllEntities : id[e] # 0 <=> e <= n
      <4> WITNESS 0 \in 0 .. MaxEntities
      <4> QED
        OBVIOUS
    <3> QED
      BY <2>3, <3>1 DEF IdControl
  <2>6. IdPopulating
    BY <2>3 DEF IdPopulating
  <2>7. IdPlaces
    BY <2>2, <2>3 DEF IdPlaces, IdPlace
  <2>8. IdAccounts
    BY <2>1, <2>2 DEF IdAccounts, IdAccount, I!Null
  <2>9. IdRecords /\ IdMarks
    BY <2>1 DEF IdRecords, IdMarks
  <2> QED
    BY <2>4, <2>5, <2>6, <2>7, <2>8, <2>9 DEF IdInv, IdStructure, IdRest
<1>2. IdInv => I!TypeOK
  BY DEF IdInv, IdStructure, IdTypes, I!TypeOK
<1>3. IdInv => I!IdsAccounted
  BY IdCounts DEF I!IdsAccounted
<1>4. IdInv => I!KeepsRecord
  BY DEF IdInv, IdRest, IdRecords, I!KeepsRecord
<1>5. IdInv => I!MarkedIsQueued
  <2> SUFFICES ASSUME IdInv, ~exhausted, NEW e \in marked \ (gone \cup lost), id[e] \notin I!Twice
               PROVE  \/ e \in I!ToSet(queue) \cup I!ToSet(list)
                      \/ \E t \in I!EcsThreads : pc[t][2] = e
    BY DEF I!MarkedIsQueued
  <2>1. DOMAIN queue = 1 .. Len(queue) /\ DOMAIN list = 1 .. Len(list)
    BY DEF IdInv, IdStructure, IdTypes
  <2>2. Listed(queue, e) \/ Listed(list, e) \/ \E t \in I!EcsThreads : Its(t) = e
    BY DEF IdInv, IdRest, IdMarks
  <2> QED
    BY <2>1, <2>2 DEF Listed, Its, I!ToSet
<1> QED
  BY <1>1, <1>2, <1>3, <1>4, <1>5, IdInductive, PTL DEF I!Spec

----------------------------------------------------------------------------
(* The table of handles                                                    *)

\* Nothing is stored under an id that can be given out: one in the list, once,
\* and those that were never given out.  Of the strays nothing is known but
\* that the table has a place for them.
HandleFree ==
  /\ \A k \in 1 .. Len(freedHandles) :
       /\ freedHandles[k] < nextHandle
       /\ freedHandles[k] \in strays \/ (given[freedHandles[k]] = Absent /\ freedHandles[k] \notin kept)
  /\ \A j, k \in 1 .. Len(freedHandles) :
       freedHandles[j] = freedHandles[k] => j = k \/ freedHandles[j] \in strays
  /\ \A i \in H!Ids : i > nextHandle => given[i] = Absent

HandleInv == H!TypeOK /\ H!Kept /\ HandleFree

\* What the assumptions say of the constants.
LEMMA HandleConstants == MaxHandleId \in Nat \ {0} /\ Absent \notin Values
BY TablesAssumption DEF TablesAssumption, H!HandleAssumption

\* Who updates or releases an id of the table has it to himself, or it is a stray.
LEMMA HandleStrays ==
  ASSUME HandleInv, NEW i \in H!Ids, i < size, strays' = strays \cup ({i} \ H!Issued)
  PROVE  /\ i < nextHandle /\ strays' \subseteq H!Ids /\ strays \subseteq strays'
         /\ \A k \in 1 .. Len(freedHandles) : freedHandles[k] = i => i \in strays'
<1>1. size = nextHandle /\ freedHandles \in Seq(H!Ids) /\ strays \subseteq H!Ids
  BY DEF HandleInv, H!TypeOK
<1>2. ASSUME NEW k \in 1 .. Len(freedHandles), freedHandles[k] = i PROVE i \in strays'
  <2>1. i \notin H!Issued
    BY <1>1, <1>2 DEF H!Issued, H!ToSet
  <2> QED
    BY <2>1
<1> QED
  BY <1>1, <1>2

\* A handle is replaced by a new value of it.
LEMMA HandleUpdates ==
  ASSUME HandleInv, NEW i \in H!Ids, NEW h \in Values, H!Update(i, h)
  PROVE  HandleInv'
<1> USE HandleConstants DEF H!Ids
<1>1. /\ i < nextHandle /\ i < size /\ strays' \subseteq H!Ids /\ strays \subseteq strays'
      /\ \A k \in 1 .. Len(freedHandles) : freedHandles[k] = i => i \in strays'
  BY HandleStrays DEF H!Update, H!InTable
<1>2. /\ handles' = [handles EXCEPT ![i] = h] /\ given' = [given EXCEPT ![i] = h]
      /\ kept' = kept \cup {i} /\ UNCHANGED <<size, nextHandle, freedHandles>>
  BY DEF H!Update
<1>3. H!TypeOK'
  BY <1>1, <1>2 DEF HandleInv, H!TypeOK
<1>4. H!Kept'
  BY <1>1, <1>2 DEF HandleInv, H!TypeOK, H!Kept, H!InTable
<1>5. HandleFree'
  <2>1. \A k \in 1 .. Len(freedHandles) :
          /\ freedHandles[k] < nextHandle
          /\ freedHandles[k] \in strays' \/ (given'[freedHandles[k]] = Absent /\ freedHandles[k] \notin kept')
    BY <1>1, <1>2 DEF HandleInv, H!TypeOK, HandleFree
  <2>2. \A j, k \in 1 .. Len(freedHandles) :
          freedHandles[j] = freedHandles[k] => j = k \/ freedHandles[j] \in strays'
    BY <1>1 DEF HandleInv, HandleFree
  <2>3. \A j \in H!Ids : j > nextHandle => given'[j] = Absent
    BY <1>1, <1>2 DEF HandleInv, H!TypeOK, HandleFree
  <2> QED
    BY <1>2, <2>1, <2>2, <2>3 DEF HandleFree
<1> QED
  BY <1>3, <1>4, <1>5 DEF HandleInv

\* A handle's id is released.
LEMMA HandleReleases ==
  ASSUME HandleInv, NEW i \in H!Ids, H!Release(i)
  PROVE  HandleInv'
<1> USE HandleConstants DEF H!Ids
<1> DEFINE n == Len(freedHandles)
<1>1. /\ i < nextHandle /\ i < size /\ strays' \subseteq H!Ids /\ strays \subseteq strays'
      /\ \A k \in 1 .. n : freedHandles[k] = i => i \in strays'
  BY HandleStrays DEF H!Release, H!InTable
<1>2. /\ handles' = [handles EXCEPT ![i] = Absent] /\ given' = [given EXCEPT ![i] = Absent]
      /\ kept' = kept \ {i} /\ freedHandles' = Append(freedHandles, i)
      /\ UNCHANGED <<size, nextHandle>>
  BY DEF H!Release
<1>3. freedHandles \in Seq(H!Ids)
  BY DEF HandleInv, H!TypeOK
<1>4. /\ freedHandles' \in Seq(H!Ids) /\ n \in Nat /\ Len(freedHandles') = n + 1
      /\ freedHandles'[n + 1] = i
      /\ \A k \in 1 .. n : freedHandles'[k] = freedHandles[k] /\ freedHandles[k] \in H!Ids
  BY <1>2, <1>3, SeqAppend
<1> HIDE DEF n
<1>5. H!TypeOK'
  BY <1>1, <1>2, <1>4 DEF HandleInv, H!TypeOK
<1>6. H!Kept'
  BY <1>1, <1>2 DEF HandleInv, H!TypeOK, H!Kept, H!InTable
<1>7. HandleFree'
  <2>1. \A k \in 1 .. n + 1 :
          /\ freedHandles'[k] < nextHandle
          /\ freedHandles'[k] \in strays' \/ (given'[freedHandles'[k]] = Absent /\ freedHandles'[k] \notin kept')
    <3> TAKE k \in 1 .. n + 1
    <3>1. CASE k = n + 1
      BY <3>1, <1>1, <1>2, <1>4 DEF HandleInv, H!TypeOK
    <3>2. CASE k \in 1 .. n
      BY <3>2, <1>1, <1>2, <1>4 DEF HandleInv, H!TypeOK, HandleFree, n
    <3> QED
      BY <3>1, <3>2, <1>4
  <2>2. \A j, k \in 1 .. n + 1 : freedHandles'[j] = freedHandles'[k] => j = k \/ freedHandles'[j] \in strays'
    <3>1. \A j, k \in 1 .. n : freedHandles[j] = freedHandles[k] => j = k \/ freedHandles[j] \in strays
      BY DEF HandleInv, HandleFree, n
    <3> QED
      BY <1>1, <1>4, <3>1
  <2>3. \A j \in H!Ids : j > nextHandle => given'[j] = Absent
    BY <1>1, <1>2 DEF HandleInv, H!TypeOK, HandleFree
  <2> QED
    BY <2>1, <2>2, <2>3, <1>2, <1>4 DEF HandleFree
<1> QED
  BY <1>5, <1>6, <1>7 DEF HandleInv

\* A handle is added, under an id that nobody has, or a stray.
LEMMA HandleAdds ==
  ASSUME HandleInv, NEW i \in H!Ids, NEW h \in Values, H!Add(i, h)
  PROVE  HandleInv' /\ (given[i] = Absent \/ i \in strays)
<1> USE HandleConstants DEF H!Ids
<1>1. /\ nextHandle' \in 0 .. MaxHandleId /\ i <= nextHandle' /\ (given[i] = Absent \/ i \in strays)
      /\ nextHandle' = (IF nextHandle <= i THEN i ELSE nextHandle)
      /\ freedHandles' \in Seq(H!Ids) /\ nextHandle <= nextHandle'
      /\ \A k \in 1 .. Len(freedHandles') :
           /\ freedHandles'[k] < nextHandle
           /\ \/ freedHandles'[k] \in strays
              \/ given[freedHandles'[k]] = Absent /\ freedHandles'[k] \notin kept /\ freedHandles'[k] # i
      /\ \A j, k \in 1 .. Len(freedHandles') :
           freedHandles'[j] = freedHandles'[k] => j = k \/ freedHandles'[j] \in strays
  <2>1. CASE H!TakeFreed(i)
    <3> DEFINE n == Len(freedHandles)
    <3>1. freedHandles \in Seq(H!Ids) /\ freedHandles # <<>> /\ nextHandle' = nextHandle
      BY <2>1 DEF H!TakeFreed, HandleInv, H!TypeOK
    <3>2. freedHandles' = SubSeq(freedHandles, 1, n - 1) /\ i = freedHandles[n]
      BY <2>1 DEF H!TakeFreed, H!Front, H!Last
    <3>3. /\ n \in Nat \ {0} /\ freedHandles' \in Seq(H!Ids) /\ Len(freedHandles') = n - 1
          /\ \A k \in 1 .. n - 1 : freedHandles'[k] = freedHandles[k]
      BY <3>1, <3>2, SeqFront
    <3> HIDE DEF n
    <3>4. /\ \A k \in 1 .. n :
               /\ freedHandles[k] < nextHandle
               /\ freedHandles[k] \in strays \/ (given[freedHandles[k]] = Absent /\ freedHandles[k] \notin kept)
          /\ \A j, k \in 1 .. n : freedHandles[j] = freedHandles[k] => j = k \/ freedHandles[j] \in strays
          /\ nextHandle \in 0 .. MaxHandleId
      BY DEF HandleInv, H!TypeOK, HandleFree, n
    <3> QED
      BY <3>1, <3>2, <3>3, <3>4
  <2>2. CASE H!TakeNext(i)
    <3>1. /\ freedHandles = <<>> /\ freedHandles' = <<>> /\ nextHandle < MaxHandleId /\ i = nextHandle + 1
          /\ nextHandle' = i /\ nextHandle \in 0 .. MaxHandleId /\ size = nextHandle
      BY <2>2 DEF H!TakeNext, HandleInv, H!TypeOK
    <3>2. given[i] = Absent
      BY <3>1 DEF HandleInv, HandleFree
    <3> QED
      BY <3>1, <3>2
  <2> QED
    BY <2>1, <2>2 DEF H!Add
<1>2. /\ size = nextHandle /\ size \in 0 .. MaxHandleId
      /\ handles \in [H!Ids -> Values \cup {Absent}] /\ given \in [H!Ids -> Values \cup {Absent}]
      /\ kept \subseteq H!Ids
  BY DEF HandleInv, H!TypeOK
<1>3. /\ size' = nextHandle' /\ given' = [given EXCEPT ![i] = h]
      /\ kept' = (IF i < size' THEN kept \cup {i} ELSE kept \ {i})
      /\ handles' = (IF i < size' THEN [H!Resized(size') EXCEPT ![i] = h] ELSE H!Resized(size'))
      /\ strays' = strays /\ strays \subseteq H!Ids
  BY <1>1, <1>2 DEF H!Add, H!NewSize, HandleInv, H!TypeOK
<1>4. /\ H!Resized(size') \in [H!Ids -> Values \cup {Absent}]
      /\ \A j \in H!Ids : j < size => H!Resized(size')[j] = handles[j]
  BY <1>2 DEF H!Resized
<1>5. H!TypeOK'
  BY <1>1, <1>2, <1>3, <1>4 DEF H!TypeOK
<1>6. H!Kept'
  <2>1. \A j \in kept : j < size /\ handles[j] = given[j] /\ j \in H!Ids
    BY <1>1, <1>2 DEF HandleInv, H!Kept, H!InTable
  <2>2. \A j \in kept' : IF j = i THEN i < size' ELSE j \in kept
    BY <1>3
  <2>3. \A j \in kept : j < size' /\ (j # i => handles'[j] = given'[j])
    BY <1>1, <1>2, <1>3, <1>4, <2>1
  <2>4. i < size' => handles'[i] = given'[i]
    BY <1>2, <1>3, <1>4
  <2> QED
    BY <2>2, <2>3, <2>4 DEF H!Kept, H!InTable
<1>7. HandleFree'
  <2>1. \A j \in H!Ids : given'[j] = IF j = i THEN h ELSE given[j]
    BY <1>2, <1>3
  <2>2. \A k \in 1 .. Len(freedHandles') : freedHandles'[k] \in H!Ids
    BY <1>1
  <2>3. \A k \in 1 .. Len(freedHandles') :
          /\ freedHandles'[k] < nextHandle'
          /\ freedHandles'[k] \in strays' \/ (given'[freedHandles'[k]] = Absent /\ freedHandles'[k] \notin kept')
    BY <1>1, <1>2, <1>3, <2>1, <2>2
  <2>4. \A j \in H!Ids : j > nextHandle' => given'[j] = Absent
    BY <1>1, <1>2, <2>1 DEF HandleInv, HandleFree
  <2> QED
    BY <1>1, <1>3, <2>3, <2>4 DEF HandleFree
<1> QED
  BY <1>1, <1>5, <1>6, <1>7 DEF HandleInv

\* All that the handles rely on is kept by every step.
LEMMA HandleInductive == HandleInv /\ [H!Next]_H!vars => HandleInv'
<1> SUFFICES ASSUME HandleInv, [H!Next]_H!vars PROVE HandleInv'
  OBVIOUS
<1>1. CASE UNCHANGED H!vars
  BY <1>1 DEF H!vars, HandleInv, H!TypeOK, H!Kept, H!InTable, HandleFree
<1> QED
  BY <1>1, HandleUpdates, HandleReleases, HandleAdds DEF H!Next

\* The handle under an id stays the one given there until it is replaced or
\* released, whatever becomes of the ids that are not in use.
LEMMA HandlesSafe == H!Spec => [](H!TypeOK /\ H!Kept) /\ H!GivenOnce
<1>1. H!Init => HandleInv
  BY HandleConstants DEF H!Init, HandleInv, H!TypeOK, H!Kept, HandleFree, H!Ids
<1>2. HandleInv => [\A i \in H!Ids, h \in Values : H!Add(i, h) => given[i] = Absent \/ i \in strays]_H!vars
  BY HandleAdds
<1>3. HandleInv => H!TypeOK /\ H!Kept
  BY DEF HandleInv
<1> QED
  BY <1>1, <1>2, <1>3, HandleInductive, PTL DEF H!Spec, H!GivenOnce

\* Whatever clients and the system timer do, an id that nobody gave back twice
\* is that of one entity or free, an entity keeps its records and a marked one
\* is on its way; and a handle is found under its id, which add_handle() gives
\* to nobody else, unless that id was released, or updated, while it was not in
\* use (ecs.hpp, next_entity_id(), free_entity_id(), add_handle() and the rest).
THEOREM IdsAreSafe == I!Spec /\ H!Spec => IdsSafe
BY EntitiesSafe, HandlesSafe, PTL DEF IdsSafe

----------------------------------------------------------------------------
(* basic_jar                                                               *)

JarTables ==
  /\ allocated \in Seq(J!Cookies) /\ items \in Seq(Values) /\ Len(items) = Len(allocated)
  /\ indices \in [J!Cookies -> 0 .. Len(items)]
  /\ itemGiven \in [J!Cookies -> Values \cup {0}]

\* Cookies and indices are the inverse of one another, and lead to the item given.
JarLinked ==
  /\ \A i \in 1 .. Len(allocated) : indices[allocated[i]] = i
  /\ \A c \in J!Cookies : indices[c] # 0 => allocated[indices[c]] = c
  /\ \A c \in J!Cookies : IF itemGiven[c] = 0 THEN indices[c] = 0
                          ELSE indices[c] # 0 /\ items[indices[c]] = itemGiven[c]

InHand(t) == pending[t][2]
Errands == {"idle", "add", "return"}

JarControl ==
  /\ nextCookie \in 0 .. InvalidCookie /\ free \in Seq(J!Cookies)
  /\ pending \in [Threads -> Errands \X (J!Cookies \cup {J!None})]
  /\ itemThrows \in 0 .. MaxThrows
  /\ \A t \in Threads : pending[t] = J!Idle \/ (pending[t][1] # "idle" /\ InHand(t) \in J!Cookies)

\* While the jar is not astray a cookie handed out has an item, or is free, or is
\* in the hands of a thread, and only one of these, once.
JarFree ==
  /\ \A k \in 1 .. Len(free) : free[k] \in 1 .. nextCookie /\ indices[free[k]] = 0
  /\ \A j, k \in 1 .. Len(free) : free[j] = free[k] => j = k
JarInHand ==
  /\ \A t \in Threads : pending[t] # J!Idle =>
       /\ InHand(t) \in 1 .. nextCookie /\ indices[InHand(t)] = 0
       /\ \A k \in 1 .. Len(free) : free[k] # InHand(t)
  /\ \A t, u \in Threads : pending[t] # J!Idle /\ InHand(t) = InHand(u) => t = u
JarSomewhere ==
  /\ nextCookie < InvalidCookie
  /\ \A c \in J!Cookies : indices[c] # 0 => c \in 1 .. nextCookie
  /\ \A c \in 1 .. nextCookie :
       \/ indices[c] # 0
       \/ \E k \in 1 .. Len(free) : free[k] = c
       \/ \E t \in Threads : InHand(t) = c

JarInv ==
  /\ JarTables /\ JarLinked /\ JarControl
  /\ astray \in BOOLEAN /\ (~astray => JarFree /\ JarInHand /\ JarSomewhere)

\* What the assumptions say of the constants.
LEMMA JarConstants == InvalidCookie \in Nat \ {0} /\ MaxThrows \in Nat /\ 0 \notin Values
BY TablesAssumption DEF TablesAssumption, J!JarAssumption

\* Jar counts with the library's own operator.
LEMMA JarCardinality == \A S : J!Cardinality(S) = Cardinality(S)
BY DEF J!Cardinality, Cardinality

\* The last item takes the place of the one that is removed.
LEMMA JarSwapPop ==
  ASSUME NEW S, NEW s \in Seq(S), NEW i \in 1 .. Len(s)
  PROVE  /\ J!SwapPop(s, i) \in Seq(S)
         /\ Len(J!SwapPop(s, i)) = Len(s) - 1
         /\ \A j \in 1 .. Len(s) - 1 : J!SwapPop(s, i)[j] = IF j = i THEN s[Len(s)] ELSE s[j]
BY DEF J!SwapPop

\* What a step that hands out a cookie, gives one back, or is refused leaves alone
LEMMA JarUntouched ==
  ASSUME JarTables, JarLinked, UNCHANGED J!jar
  PROVE  JarTables' /\ JarLinked'
BY DEF J!jar, JarTables, JarLinked

\* next_cookie() takes one that was returned,
LEMMA JarTakesFree ==
  ASSUME JarInv, NEW t \in Threads, pending[t] = J!Idle, J!TakeFree(t), UNCHANGED <<J!jar, itemThrows>>
  PROVE  JarInv'
<1> USE JarConstants DEF J!Cookies, J!None, J!Idle
<1> DEFINE n == Len(free)  c == free[n]
<1>1. free \in Seq(J!Cookies) /\ free # <<>>
  BY DEF J!TakeFree, JarInv, JarControl
<1>2. /\ n \in Nat \ {0} /\ c \in J!Cookies
      /\ free' \in Seq(J!Cookies) /\ Len(free') = n - 1 /\ \A k \in 1 .. n - 1 : free'[k] = free[k]
  BY <1>1, SeqFront DEF J!TakeFree, J!Front
<1>3. /\ pending' = [pending EXCEPT ![t] = <<"add", c>>]
      /\ UNCHANGED <<nextCookie, itemThrows, indices>>
  BY <1>1, SeqFront DEF J!TakeFree, J!Become, J!jar, J!Last
<1>4. astray' = astray
  BY DEF J!TakeFree
<1>5. JarControl
  BY DEF JarInv
<1> HIDE DEF n, c
<1>6. JarControl'
  BY <1>2, <1>3, <1>5 DEF JarControl, Errands, InHand
<1>7. ASSUME ~astray PROVE JarFree' /\ JarInHand' /\ JarSomewhere'
  <2>1. JarFree /\ JarInHand /\ JarSomewhere
    BY <1>7 DEF JarInv
  <2>2. c \in 1 .. nextCookie /\ indices[c] = 0 /\ (\A k \in 1 .. n - 1 : free[k] # c) /\ c = free[n]
    <3>1. n = Len(free) /\ c = free[n] /\ n \in 1 .. Len(free)
      BY <1>2 DEF n, c
    <3>2. c \in 1 .. nextCookie /\ indices[c] = 0
      BY <2>1, <3>1 DEF JarFree
    <3>3. \A k \in 1 .. n - 1 : k \in 1 .. Len(free) /\ k # n
      BY <1>2, <3>1
    <3>4. \A k \in 1 .. n - 1 : free[k] # c
      BY <2>1, <3>1, <3>3 DEF JarFree
    <3> QED BY <3>1, <3>2, <3>4
  <2>3. JarFree'
    BY <1>2, <1>3, <2>1 DEF JarFree, n
  <2>4. JarInHand'
    <3>1. \A u \in Threads : InHand(u)' = IF u = t THEN c ELSE InHand(u)
      BY <1>3, <1>5 DEF InHand, JarControl
    <3>2. \A u \in Threads \ {t} : pending'[u] = pending[u]
      BY <1>3, <1>5 DEF JarControl
    <3>3. \A u \in Threads \ {t} : pending[u] # J!Idle => InHand(u) # c
      BY <1>2, <2>1, <2>2 DEF JarInHand, n
    <3>4. \A u \in Threads \ {t} : pending[u] = J!Idle => InHand(u) # c
      BY <1>2 DEF InHand
    <3> SUFFICES ASSUME NEW u \in Threads, pending'[u] # J!Idle
                 PROVE  /\ InHand(u)' \in 1 .. nextCookie /\ indices[InHand(u)'] = 0
                        /\ \A k \in 1 .. n - 1 : free'[k] # InHand(u)'
                        /\ \A v \in Threads : InHand(u)' = InHand(v)' => u = v
      BY <1>2, <1>3 DEF JarInHand
    <3>5. CASE u = t
      <4>1. InHand(u)' = c
        BY <3>1, <3>5
      <4>2. \A k \in 1 .. n - 1 : free'[k] # c
        BY <1>2, <2>2
      <4>3. \A v \in Threads : InHand(v)' = c => v = t
        BY <3>1, <3>3, <3>4
      <4> QED
        BY <3>5, <2>2, <4>1, <4>2, <4>3
    <3>6. CASE u # t
      <4>1. /\ pending[u] # J!Idle /\ InHand(u)' = InHand(u) /\ InHand(u) # c
        BY <3>1, <3>2, <3>3, <3>6
      <4>2. /\ InHand(u) \in 1 .. nextCookie /\ indices[InHand(u)] = 0
            /\ \A k \in 1 .. n : free[k] # InHand(u)
            /\ \A v \in Threads : InHand(u) = InHand(v) => u = v
        BY <2>1, <4>1 DEF JarInHand, n
      <4>3. \A k \in 1 .. n - 1 : free'[k] # InHand(u)
        BY <1>2, <4>2
      <4>4. \A v \in Threads : InHand(u) = InHand(v)' => u = v
        BY <3>1, <4>1, <4>2
      <4> QED
        BY <4>1, <4>2, <4>3, <4>4
    <3> QED
      BY <3>5, <3>6
  <2>5. JarSomewhere'
    <3>1. \A u \in Threads : InHand(u)' = IF u = t THEN c ELSE InHand(u)
      BY <1>3, <1>5 DEF InHand, JarControl
    <3>2. \A d \in 1 .. nextCookie : d # InHand(t)
      BY <1>5 DEF InHand, JarControl
    <3>3. ASSUME NEW d \in 1 .. nextCookie
          PROVE  \/ indices[d] # 0 \/ (\E k \in 1 .. n - 1 : free'[k] = d) \/ \E u \in Threads : InHand(u)' = d
      <4>1. CASE \E u \in Threads : InHand(u) = d
        BY <4>1, <3>1, <3>2
      <4>2. CASE \E k \in 1 .. n : free[k] = d
        <5>1. PICK k \in 1 .. n : free[k] = d
          BY <4>2
        <5>2. CASE k = n
          BY <5>1, <5>2, <2>2, <3>1
        <5>3. CASE k # n
          <6>1. k \in 1 .. n - 1
            BY <5>3, <1>2
          <6> QED
            BY <5>1, <6>1, <1>2
        <5> QED
          BY <5>2, <5>3
      <4> QED
        BY <4>1, <4>2, <2>1 DEF JarSomewhere, n
    <3> QED
      BY <1>2, <1>3, <2>1, <3>3 DEF JarSomewhere
  <2> QED
    BY <2>3, <2>4, <2>5
<1> QED
  BY <1>4, <1>6, <1>7, JarUntouched DEF JarInv

\* ... or a new one.
LEMMA JarTakesNext ==
  ASSUME JarInv, NEW t \in Threads, pending[t] = J!Idle, J!TakeNext(t), UNCHANGED <<J!jar, itemThrows>>
  PROVE  JarInv'
<1> USE JarConstants DEF J!Cookies, J!None, J!Idle
<1>1. JarTables' /\ JarLinked' /\ astray' \in BOOLEAN
  BY JarUntouched DEF JarInv, J!TakeNext
<1>2. JarControl /\ indices' = indices /\ free = <<>> /\ free' = <<>> /\ itemThrows' = itemThrows
  BY DEF JarInv, J!TakeNext, J!jar
<1>3. nextCookie \in 0 .. InvalidCookie /\ nextCookie' = (nextCookie + 1) % (InvalidCookie + 1)
  BY DEF JarInv, JarControl, J!TakeNext
<1>4. CASE nextCookie' = InvalidCookie
  <2>1. pending' = pending
    BY <1>4 DEF J!TakeNext
  <2>2. astray'
    BY <1>4 DEF J!TakeNext
  <2>3. JarControl'
    BY <1>2, <1>3, <1>4, <2>1 DEF JarControl, InHand
  <2> QED
    BY <1>1, <2>2, <2>3 DEF JarInv
<1>5. CASE nextCookie' # InvalidCookie
  <2>1. pending' = [pending EXCEPT ![t] = <<"add", nextCookie'>>]
    BY <1>5 DEF J!TakeNext, J!Become
  <2>2. astray => astray'
    BY <1>5 DEF J!TakeNext, JarInv
  <2>3. nextCookie' \in J!Cookies
    BY <1>3, <1>5
  <2>4. JarControl'
    BY <1>2, <2>1, <2>3 DEF JarControl, Errands, InHand
  <2>5. ASSUME ~astray PROVE JarFree' /\ JarInHand' /\ JarSomewhere'
    <3>1. JarInHand /\ JarSomewhere
      BY <2>5 DEF JarInv
    <3>2. nextCookie' = nextCookie + 1
      BY <1>3, <3>1 DEF JarSomewhere
    <3>3. \A u \in Threads : InHand(u)' = IF u = t THEN nextCookie + 1 ELSE InHand(u)
      BY <1>2, <2>1, <3>2 DEF InHand, JarControl
    <3>4. \A u \in Threads \ {t} : pending'[u] = pending[u]
      BY <1>2, <2>1 DEF JarControl
    <3>5. indices[nextCookie + 1] = 0 /\ nextCookie + 1 \in J!Cookies
      BY <1>3, <2>3, <3>1, <3>2 DEF JarSomewhere
    <3>6. \A u \in Threads : InHand(u) # nextCookie + 1
      BY <1>2, <1>3, <3>1 DEF JarInHand, InHand, JarControl
    <3>7. JarFree'
      BY <1>2 DEF JarFree
    <3>8. JarInHand'
      BY <1>2, <1>3, <3>1, <3>2, <3>3, <3>4, <3>5, <3>6 DEF JarInHand
    <3>9. \A d \in 1 .. nextCookie + 1 : indices[d] # 0 \/ \E u \in Threads : InHand(u)' = d
      <4>1. \A d \in 1 .. nextCookie : indices[d] # 0 \/ \E u \in Threads : InHand(u) = d
        BY <1>2, <3>1 DEF JarSomewhere
      <4>2. \A d \in 1 .. nextCookie : d # InHand(t)
        BY <1>2 DEF InHand, JarControl
      <4> QED
        BY <1>3, <3>3, <4>1, <4>2
    <3>10. JarSomewhere'
      BY <1>2, <1>3, <1>5, <2>3, <3>1, <3>2, <3>9 DEF JarSomewhere
    <3> QED
      BY <3>7, <3>8, <3>10
  <2> QED
    BY <1>1, <2>2, <2>4, <2>5 DEF JarInv
<1> QED
  BY <1>4, <1>5

\* add()
LEMMA JarAdds ==
  ASSUME JarInv, NEW t \in Threads, NEW x \in Values, J!Add(t, x)
  PROVE  JarInv'
<1> USE JarConstants DEF J!Cookies, J!None, J!Idle
<1> DEFINE c == InHand(t)  n == Len(items)
<1>1. /\ c \in J!Cookies /\ indices[c] = 0 /\ n \in Nat
      /\ items' = Append(items, x) /\ allocated' = Append(allocated, c)
      /\ indices' = [indices EXCEPT ![c] = n + 1]
      /\ itemGiven' = [itemGiven EXCEPT ![c] = x] /\ pending' = [pending EXCEPT ![t] = J!Idle]
      /\ pending[t] # J!Idle
      /\ UNCHANGED <<nextCookie, free, itemThrows>>
  BY DEF J!Add, JarInv, JarControl, JarTables, InHand
<1>2. astray' = astray
  BY DEF J!Add
<1>3. JarTables /\ JarLinked /\ JarControl
  BY DEF JarInv
<1>4. JarTables'
  BY <1>1, <1>3 DEF JarTables
<1>6. JarControl'
  BY <1>1, <1>3 DEF JarControl, Errands, InHand
<1> HIDE DEF c, n
<1>5. JarLinked'
  <2>1. /\ Len(allocated) = n /\ allocated \in Seq(J!Cookies) /\ items \in Seq(Values) /\ Len(items) = n
        /\ indices \in [J!Cookies -> 0 .. n] /\ itemGiven \in [J!Cookies -> Values \cup {0}]
    BY <1>3 DEF JarTables, n
  <2>2. /\ Len(allocated') = n + 1 /\ allocated'[n + 1] = c /\ items'[n + 1] = x
        /\ \A j \in 1 .. n : allocated'[j] = allocated[j] /\ items'[j] = items[j] /\ allocated[j] \in J!Cookies
    <3>1. allocated' = Append(allocated, c) /\ items' = Append(items, x) /\ c \in J!Cookies /\ n \in Nat
      BY <1>1
    <3> HIDE DEF J!Cookies
    <3>2. Len(allocated') = n + 1 /\ allocated'[n + 1] = c /\ \A j \in 1 .. n : allocated'[j] = allocated[j]
      BY <3>1, <2>1
    <3>3. items'[n + 1] = x /\ \A j \in 1 .. n : items'[j] = items[j]
      BY <3>1, <2>1
    <3>4. \A j \in 1 .. n : allocated[j] \in J!Cookies
      BY <2>1
    <3> QED
      BY <3>2, <3>3, <3>4
  <2>3. \A d \in J!Cookies : /\ indices'[d] = IF d = c THEN n + 1 ELSE indices[d]
                             /\ itemGiven'[d] = IF d = c THEN x ELSE itemGiven[d]
                             /\ indices[d] \in 0 .. n
    BY <1>1, <2>1
  <2>4. \A j \in 1 .. n : indices[allocated[j]] = j
    BY <1>3, <2>1 DEF JarLinked
  <2>5. \A j \in 1 .. n + 1 : indices'[allocated'[j]] = j
    <3> TAKE j \in 1 .. n + 1
    <3>3. j = n + 1 \/ j \in 1 .. n
      <4>1. n \in Nat
        BY <1>1
      <4> QED
        BY <4>1
    <3>1. CASE j = n + 1
      BY <3>1, <1>1, <2>2, <2>3
    <3>2. CASE j \in 1 .. n
      <4>1. allocated[j] # c
        BY <3>2, <1>1, <2>4
      <4> QED
        BY <3>2, <4>1, <2>2, <2>3, <2>4
    <3> QED
      BY <3>1, <3>2, <3>3
  <2>6. \A d \in J!Cookies : indices'[d] # 0 => allocated'[indices'[d]] = d
    BY <1>1, <1>3, <2>1, <2>2, <2>3 DEF JarLinked
  <2>7. \A d \in J!Cookies : IF itemGiven'[d] = 0 THEN indices'[d] = 0
                             ELSE indices'[d] # 0 /\ items'[indices'[d]] = itemGiven'[d]
    BY <1>1, <1>3, <2>1, <2>2, <2>3 DEF JarLinked
  <2> QED
    BY <2>2, <2>5, <2>6, <2>7 DEF JarLinked
<1>7. ASSUME ~astray PROVE JarFree' /\ JarInHand' /\ JarSomewhere'
  <2>1. JarFree /\ JarInHand /\ JarSomewhere
    BY <1>7 DEF JarInv
  <2>2. \A u \in Threads : InHand(u)' = IF u = t THEN J!None ELSE InHand(u)
    BY <1>1, <1>3 DEF InHand, JarControl
  <2>3. \A u \in Threads \ {t} : pending'[u] = pending[u]
    BY <1>1, <1>3 DEF JarControl
  <2>4. \A d \in J!Cookies : indices'[d] = IF d = c THEN n + 1 ELSE indices[d]
    BY <1>1, <1>3 DEF JarTables
  <2>5. c \in 1 .. nextCookie /\ (\A k \in 1 .. Len(free) : free[k] # c)
        /\ \A u \in Threads : InHand(u) = c => u = t
    BY <1>1, <2>1 DEF JarInHand, c
  <2>6. JarFree'
    <3>1. \A k \in 1 .. Len(free) : free[k] \in J!Cookies
      BY <1>3 DEF JarControl
    <3> QED
      BY <1>1, <2>1, <2>4, <2>5, <3>1 DEF JarFree
  <2>7. JarInHand'
    <3> SUFFICES ASSUME NEW u \in Threads, pending'[u] # J!Idle
                 PROVE  /\ InHand(u) \in 1 .. nextCookie /\ indices'[InHand(u)] = 0
                        /\ \A k \in 1 .. Len(free) : free[k] # InHand(u)
                        /\ \A v \in Threads : InHand(u)' = InHand(v)' => u = v
                        /\ InHand(u)' = InHand(u)
      BY <1>1 DEF JarInHand
    <3>1. u # t /\ pending[u] # J!Idle /\ InHand(u)' = InHand(u)
      BY <1>1, <1>3, <2>2, <2>3 DEF JarControl
    <3>2. InHand(u) \in J!Cookies /\ InHand(u) # c
      BY <1>3, <2>5, <3>1 DEF JarControl
    <3> QED
      BY <2>1, <2>2, <2>4, <3>1, <3>2 DEF JarInHand
  <2>8. JarSomewhere'
    <3>1. ASSUME NEW d \in 1 .. nextCookie
          PROVE  indices'[d] # 0 \/ (\E k \in 1 .. Len(free) : free[k] = d) \/ \E u \in Threads : InHand(u)' = d
      <4>1. d \in J!Cookies
        BY <2>1, <1>3 DEF JarSomewhere, JarControl
      <4>2. CASE d = c
        BY <4>1, <4>2, <1>1, <2>4
      <4>3. CASE d # c /\ \E u \in Threads : InHand(u) = d
        BY <4>3, <2>2 DEF c
      <4> QED
        BY <4>1, <4>2, <4>3, <2>1, <2>4 DEF JarSomewhere
    <3>2. \A d \in J!Cookies : indices'[d] # 0 => d \in 1 .. nextCookie
      BY <2>1, <2>4, <2>5 DEF JarSomewhere
    <3> QED
      BY <1>1, <2>1, <3>1, <3>2 DEF JarSomewhere
  <2> QED
    BY <2>6, <2>7, <2>8
<1> QED
  BY <1>2, <1>4, <1>5, <1>6, <1>7 DEF JarInv

\* add() of a cookie that is there already, or an item whose copy throws
LEMMA JarRefuses ==
  ASSUME JarInv, NEW t \in Threads, J!AddTwice(t) \/ J!AddThrows(t)
  PROVE  JarInv'
<1> USE JarConstants DEF J!Cookies, J!None, J!Idle
<1>1. /\ InHand(t) \in J!Cookies /\ pending[t] # J!Idle
      /\ pending' = [pending EXCEPT ![t] = <<"return", InHand(t)>>]
      /\ itemThrows' \in 0 .. MaxThrows
      /\ UNCHANGED <<nextCookie, free, J!jar, astray>>
  BY DEF J!AddTwice, J!AddThrows, J!Become, JarInv, JarControl, InHand
<1>2. JarTables' /\ JarLinked'
  BY <1>1, JarUntouched DEF JarInv
<1>3. JarControl'
  BY <1>1 DEF JarInv, JarControl, Errands, InHand
<1>4. indices' = indices
  BY <1>1 DEF J!jar
<1>5. ~astray' => JarFree' /\ JarInHand' /\ JarSomewhere'
  BY <1>1, <1>4 DEF JarInv, JarFree, JarInHand, JarSomewhere, JarControl, InHand
<1> QED
  BY <1>1, <1>2, <1>3, <1>5 DEF JarInv

\* return_cookie()
LEMMA JarReturns ==
  ASSUME JarInv, NEW t \in Threads, J!Return(t)
  PROVE  JarInv'
<1> USE JarConstants DEF J!Cookies, J!None, J!Idle
<1> DEFINE c == InHand(t)  n == Len(free)
<1>1. /\ c \in J!Cookies /\ pending[t] # J!Idle /\ n \in Nat
      /\ free' = Append(free, c) /\ free \in Seq(J!Cookies)
      /\ pending' = [pending EXCEPT ![t] = J!Idle]
      /\ UNCHANGED <<nextCookie, J!jar, itemThrows, indices>>
  BY DEF J!Return, J!Returned, J!jar, JarInv, JarControl, InHand
<1>2. astray' = astray
  BY DEF J!Return
<1>3. JarTables' /\ JarLinked' /\ JarControl
  BY <1>1, JarUntouched DEF JarInv
<1>4. /\ free' \in Seq(J!Cookies) /\ Len(free') = n + 1 /\ free'[n + 1] = c
      /\ \A k \in 1 .. n : free'[k] = free[k]
  BY <1>1
<1> HIDE DEF c, n
<1>5. JarControl'
  BY <1>1, <1>3, <1>4 DEF JarControl, Errands, InHand
<1>6. ASSUME ~astray PROVE JarFree' /\ JarInHand' /\ JarSomewhere'
  <2>1. JarFree /\ JarInHand /\ JarSomewhere
    BY <1>6 DEF JarInv
  <2>2. \A u \in Threads : InHand(u)' = IF u = t THEN J!None ELSE InHand(u)
    BY <1>1, <1>3 DEF InHand, JarControl
  <2>3. \A u \in Threads \ {t} : pending'[u] = pending[u]
    BY <1>1, <1>3 DEF JarControl
  <2>4. /\ c \in 1 .. nextCookie /\ indices[c] = 0 /\ (\A k \in 1 .. n : free[k] # c)
        /\ \A u \in Threads : InHand(u) = c => u = t
    BY <1>1, <2>1 DEF JarInHand, c, n
  <2>5. JarFree'
    BY <1>1, <1>4, <2>1, <2>4 DEF JarFree, n
  <2>6. JarInHand'
    <3> SUFFICES ASSUME NEW u \in Threads, pending'[u] # J!Idle
                 PROVE  /\ InHand(u) \in 1 .. nextCookie /\ indices[InHand(u)] = 0
                        /\ \A k \in 1 .. n + 1 : free'[k] # InHand(u)
                        /\ \A v \in Threads : InHand(u)' = InHand(v)' => u = v
                        /\ InHand(u)' = InHand(u)
      BY <1>1, <1>4 DEF JarInHand
    <3>1. u # t /\ pending[u] # J!Idle /\ InHand(u)' = InHand(u)
      BY <1>1, <1>3, <2>2, <2>3 DEF JarControl
    <3>2. InHand(u) \in J!Cookies /\ InHand(u) # c
      BY <1>3, <2>4, <3>1 DEF JarControl
    <3> QED
      BY <1>1, <1>4, <2>1, <2>2, <3>1, <3>2 DEF JarInHand, n
  <2>7. JarSomewhere'
    <3>1. ASSUME NEW d \in 1 .. nextCookie
          PROVE  indices[d] # 0 \/ (\E k \in 1 .. n + 1 : free'[k] = d) \/ \E u \in Threads : InHand(u)' = d
      <4>1. CASE d = c
        BY <4>1, <1>1, <1>4
      <4>2. CASE d # c /\ \E u \in Threads : InHand(u) = d
        BY <4>2, <2>2 DEF c
      <4>3. CASE \E k \in 1 .. n : free[k] = d
        BY <4>3, <1>1, <1>4
      <4> QED
        BY <4>1, <4>2, <4>3, <2>1 DEF JarSomewhere, n
    <3> QED
      BY <1>1, <1>4, <2>1, <3>1 DEF JarSomewhere
  <2> QED
    BY <2>5, <2>6, <2>7
<1> QED
  BY <1>2, <1>3, <1>5, <1>6 DEF JarInv

\* remove() of an item
LEMMA JarRemoves ==
  ASSUME JarInv, NEW c \in J!Cookies, J!RemoveItem(c)
  PROVE  JarInv'
<1> USE JarConstants
<1> DEFINE n == Len(items)  i == indices[c]  l == allocated[n]  m == Len(free)
<1>1. /\ items \in Seq(Values) /\ allocated \in Seq(J!Cookies) /\ Len(allocated) = n /\ n \in Nat
      /\ indices \in [J!Cookies -> 0 .. n] /\ itemGiven \in [J!Cookies -> Values \cup {0}]
      /\ i \in 1 .. n /\ allocated[i] = c /\ l \in J!Cookies /\ indices[l] = n
  BY DEF J!RemoveItem, JarInv, JarTables, JarLinked
<1>2. /\ items' = J!SwapPop(items, i) /\ allocated' = J!SwapPop(allocated, i)
      /\ indices' = [indices EXCEPT ![l] = i, ![c] = 0]
      /\ free' = Append(free, c) /\ itemGiven' = [itemGiven EXCEPT ![c] = 0]
      /\ UNCHANGED <<nextCookie, pending, itemThrows>>
  BY <1>1 DEF J!RemoveItem, J!Relinked, J!Last
<1>17. astray' = astray
  BY DEF J!RemoveItem
<1>3. /\ items' \in Seq(Values) /\ Len(items') = n - 1
      /\ \A j \in 1 .. n - 1 : items'[j] = IF j = i THEN items[n] ELSE items[j]
  BY <1>1, <1>2, JarSwapPop
<1>4. /\ allocated' \in Seq(J!Cookies) /\ Len(allocated') = n - 1
      /\ \A j \in 1 .. n - 1 : allocated'[j] = IF j = i THEN l ELSE allocated[j]
  <2> HIDE DEF i, n, l
  <2>1. i \in 1 .. Len(allocated) /\ allocated \in Seq(J!Cookies) /\ allocated' = J!SwapPop(allocated, i)
        /\ l = allocated[n] /\ Len(allocated) = n
    BY <1>1, <1>2 DEF l
  <2>2. /\ J!SwapPop(allocated, i) \in Seq(J!Cookies)
        /\ Len(J!SwapPop(allocated, i)) = Len(allocated) - 1
        /\ \A j \in 1 .. Len(allocated) - 1 :
             J!SwapPop(allocated, i)[j] = IF j = i THEN allocated[Len(allocated)] ELSE allocated[j]
    BY <2>1, JarSwapPop
  <2> QED
    BY <2>1, <2>2
<1>5. /\ \A j \in 1 .. n : indices[allocated[j]] = j /\ allocated[j] \in J!Cookies
      /\ \A d \in J!Cookies : indices[d] # 0 => allocated[indices[d]] = d
      /\ \A d \in J!Cookies : IF itemGiven[d] = 0 THEN indices[d] = 0
                              ELSE indices[d] # 0 /\ items[indices[d]] = itemGiven[d]
  BY <1>1 DEF JarInv, JarLinked
<1>6. \A d \in J!Cookies : indices'[d] = IF d = c THEN 0 ELSE IF d = l THEN i ELSE indices[d]
  BY <1>1, <1>2
<1> HIDE DEF n, i, l
<1>7. \A d \in J!Cookies \ {c, l} : indices[d] # i /\ indices[d] # n
  BY <1>1, <1>5
<1>8. c = l <=> i = n
  BY <1>1, <1>5
<1>9. JarTables'
  <2>1. \A d \in J!Cookies : indices'[d] \in 0 .. n - 1
    BY <1>1, <1>6, <1>7, <1>8
  <2>2. indices' \in [J!Cookies -> 0 .. Len(items')]
    BY <1>1, <1>2, <1>3, <2>1
  <2>3. itemGiven' \in [J!Cookies -> Values \cup {0}]
    BY <1>1, <1>2
  <2> QED
    BY <1>3, <1>4, <2>2, <2>3 DEF JarTables
<1>10. JarLinked'
  <2>1. \A j \in 1 .. Len(allocated') : indices'[allocated'[j]] = j
    <3> SUFFICES ASSUME NEW j \in 1 .. n - 1 PROVE indices'[allocated'[j]] = j
      BY <1>1, <1>4
    <3>1. CASE j = i
      BY <3>1, <1>1, <1>4, <1>6, <1>8
    <3>2. CASE j # i
      <4>1. allocated'[j] = allocated[j] /\ allocated[j] \in J!Cookies /\ indices[allocated[j]] = j
        BY <3>2, <1>1, <1>4, <1>5
      <4>2. allocated[j] # c /\ allocated[j] # l
        BY <3>2, <4>1, <1>1 DEF i
      <4> QED
        BY <4>1, <4>2, <1>6
    <3> QED
      BY <3>1, <3>2
  <2>2. ASSUME NEW d \in J!Cookies, indices'[d] # 0
        PROVE  allocated'[indices'[d]] = d
    <3>1. CASE d = l
      BY <2>2, <3>1, <1>1, <1>4, <1>6, <1>8
    <3>2. CASE d # l
      <4>1. indices'[d] = indices[d] /\ indices[d] # i /\ indices[d] \in 1 .. n - 1 /\ d # c
        BY <2>2, <3>2, <1>1, <1>6, <1>7
      <4> QED
        BY <4>1, <1>4, <1>5
    <3> QED
      BY <3>1, <3>2
  <2>3. ASSUME NEW d \in J!Cookies
        PROVE  IF itemGiven'[d] = 0 THEN indices'[d] = 0
               ELSE indices'[d] # 0 /\ items'[indices'[d]] = itemGiven'[d]
    <3>1. CASE d = c
      BY <3>1, <1>1, <1>2, <1>6
    <3>2. CASE d = l /\ d # c
      <4>1. indices'[d] = i /\ i \in 1 .. n - 1 /\ items'[i] = items[n] /\ itemGiven'[d] = itemGiven[d]
        BY <3>2, <1>1, <1>2, <1>3, <1>6, <1>8
      <4> QED
        BY <3>2, <4>1, <1>1, <1>5
    <3>3. CASE d # l /\ d # c
      <4>1. indices'[d] = indices[d] /\ itemGiven'[d] = itemGiven[d] /\ indices[d] # i /\ indices[d] \in 0 .. n - 1
        BY <3>3, <1>1, <1>2, <1>6, <1>7
      <4> QED
        BY <4>1, <1>3, <1>5
    <3> QED
      BY <3>1, <3>2, <3>3
  <2> QED
    BY <2>1, <2>2, <2>3 DEF JarLinked
<1>11. /\ free \in Seq(J!Cookies) /\ m \in Nat
       /\ free' \in Seq(J!Cookies) /\ Len(free') = m + 1 /\ free'[m + 1] = c
       /\ \A k \in 1 .. m : free'[k] = free[k]
  BY <1>2 DEF JarInv, JarControl
<1>12. JarControl'
  BY <1>2, <1>11 DEF JarInv, JarControl, InHand
<1>13. indices[c] # 0 /\ indices[l] # 0
  BY <1>1 DEF i
<1>14. ASSUME ~astray PROVE JarFree'
  <2>1. c \in 1 .. nextCookie
    BY <1>13, <1>14 DEF JarInv, JarSomewhere
  <2>5. JarFree
    BY <1>14 DEF JarInv
  <2>2. \A k \in 1 .. m : free[k] # c /\ free[k] # l /\ free[k] \in J!Cookies
    BY <1>11, <1>13, <2>5 DEF JarFree
  <2>3. \A k \in 1 .. m + 1 : free'[k] \in 1 .. nextCookie' /\ indices'[free'[k]] = 0
    <3> TAKE k \in 1 .. m + 1
    <3>1. CASE k = m + 1
      BY <3>1, <2>1, <1>2, <1>6, <1>11
    <3>2. CASE k \in 1 .. m
      BY <3>2, <2>2, <1>2, <1>6, <1>11, <2>5 DEF JarFree
    <3> QED
      BY <3>1, <3>2, <1>11
  <2>4. \A j, k \in 1 .. m + 1 : free'[j] = free'[k] => j = k
    BY <2>2, <1>11, <2>5 DEF JarFree
  <2> QED
    BY <2>3, <2>4, <1>11 DEF JarFree
<1>15. ASSUME ~astray PROVE JarInHand'
  <2> SUFFICES ASSUME NEW t \in Threads, pending[t] # J!Idle
               PROVE  /\ InHand(t) \in 1 .. nextCookie /\ indices'[InHand(t)] = 0
                      /\ \A k \in 1 .. Len(free') : free'[k] # InHand(t)
                      /\ \A u \in Threads : InHand(t) = InHand(u) => t = u
    BY <1>2 DEF JarInHand, InHand
  <2>1. /\ InHand(t) \in J!Cookies /\ indices[InHand(t)] = 0 /\ InHand(t) \in 1 .. nextCookie
        /\ \A k \in 1 .. m : free[k] # InHand(t)
        /\ \A u \in Threads : InHand(t) = InHand(u) => t = u
    BY <1>15 DEF JarInv, JarInHand, JarControl
  <2> QED
    BY <2>1, <1>6, <1>11, <1>13
<1>16. ASSUME ~astray PROVE JarSomewhere'
  <2>1. \A d \in J!Cookies : indices'[d] # 0 => indices[d] # 0
    BY <1>6, <1>13
  <2>2. \A d \in 1 .. nextCookie :
          \/ indices'[d] # 0
          \/ \E k \in 1 .. m + 1 : free'[k] = d
          \/ \E t \in Threads : InHand(t) = d
    <3> TAKE d \in 1 .. nextCookie
    <3>1. d \in J!Cookies
      BY <1>16 DEF JarInv, JarSomewhere, JarControl, J!Cookies
    <3>2. CASE d = c
      BY <3>2, <1>11
    <3>3. CASE d # c /\ indices[d] # 0
      BY <3>1, <3>3, <1>1, <1>6
    <3>4. CASE d # c /\ indices[d] = 0
      BY <3>4, <1>11, <1>16 DEF JarInv, JarSomewhere
    <3> QED
      BY <3>2, <3>3, <3>4
  <2> QED
    BY <2>1, <2>2, <1>2, <1>11, <1>16 DEF JarInv, JarSomewhere, InHand
<1> QED
  BY <1>17, <1>9, <1>10, <1>12, <1>14, <1>15, <1>16 DEF JarInv

\* clear()
LEMMA JarClears ==
  ASSUME JarInv, J!Clear
  PROVE  JarInv'
<1> USE JarConstants DEF J!Cookies
<1>1. /\ nextCookie' = 0 /\ free' = <<>> /\ items' = <<>> /\ allocated' = <<>>
      /\ indices' = [c \in J!Cookies |-> 0] /\ itemGiven' = [c \in J!Cookies |-> 0]
      /\ UNCHANGED <<pending, itemThrows>>
  BY DEF J!Clear
<1>5. astray' \in BOOLEAN /\ (~astray' => \A t \in Threads : pending[t] = J!Idle)
  BY DEF J!Clear
<1>2. JarTables' /\ JarLinked'
  BY <1>1 DEF JarTables, JarLinked
<1>3. JarControl'
  BY <1>1 DEF JarInv, JarControl, InHand
<1>4. (\A t \in Threads : pending[t] = J!Idle) => JarFree' /\ JarInHand' /\ JarSomewhere'
  BY <1>1 DEF JarFree, JarInHand, JarSomewhere, InHand, J!Idle, J!None
<1> QED
  BY <1>2, <1>3, <1>4, <1>5 DEF JarInv

\* All that the jar relies on is kept by every step.
LEMMA JarInductive == JarInv /\ [J!Next]_J!vars => JarInv'
<1> SUFFICES ASSUME JarInv, [J!Next]_J!vars PROVE JarInv'
  OBVIOUS
<1>1. CASE UNCHANGED J!vars
  BY <1>1 DEF J!vars, J!jar, JarInv, JarTables, JarLinked, JarControl, JarFree, JarInHand, JarSomewhere, InHand
<1> QED
  BY <1>1, JarTakesFree, JarTakesNext, JarAdds, JarRefuses, JarReturns, JarRemoves, JarClears DEF J!Next, J!NextCookie

\* What is once in a sequence is counted once.
LEMMA CountOnce ==
  ASSUME NEW S, NEW s \in Seq(S), NEW c,
         \A j, k \in 1 .. Len(s) : s[j] = s[k] => j = k
  PROVE  J!Count(s, c) = IF \E k \in 1 .. Len(s) : s[k] = c THEN 1 ELSE 0
<1>1. CASE \E k \in 1 .. Len(s) : s[k] = c
  <2>1. PICK k \in 1 .. Len(s) : s[k] = c
    BY <1>1
  <2>2. {i \in DOMAIN s : s[i] = c} = {k}
    BY <2>1
  <2> QED
    BY <1>1, <2>2, FS_Singleton, JarCardinality DEF J!Count
<1>2. CASE ~\E k \in 1 .. Len(s) : s[k] = c
  <2>1. {i \in DOMAIN s : s[i] = c} = {}
    BY <1>2
  <2> QED
    BY <1>2, <2>1, FS_EmptySet, JarCardinality DEF J!Count
<1> QED
  BY <1>1, <1>2

\* A cookie is in the jar, free or in hand, once.
LEMMA JarCounts ==
  ASSUME JarInv, ~astray, NEW c \in 1 .. nextCookie
  PROVE  J!Count(allocated, c) + J!Count(free, c) + Cardinality({t \in Threads : InHand(t) = c}) = 1
<1> DEFINE Hands == {t \in Threads : InHand(t) = c}
<1>1. c \in J!Cookies /\ c # J!None
  BY JarConstants DEF JarInv, JarControl, JarSomewhere, J!Cookies, J!None
<1>2. J!Count(allocated, c) = IF indices[c] # 0 THEN 1 ELSE 0
  <2>1. /\ allocated \in Seq(J!Cookies)
        /\ \A j, k \in 1 .. Len(allocated) : allocated[j] = allocated[k] => j = k
        /\ indices[c] # 0 <=> \E k \in 1 .. Len(allocated) : allocated[k] = c
    BY <1>1 DEF JarInv, JarTables, JarLinked
  <2> QED
    BY <2>1, CountOnce
<1>3. J!Count(free, c) = IF \E k \in 1 .. Len(free) : free[k] = c THEN 1 ELSE 0
  BY CountOnce DEF JarInv, JarFree, JarControl
<1>4. \A t \in Hands : pending[t] # J!Idle
  BY <1>1 DEF InHand, J!Idle
<1>5. Cardinality(Hands) = IF \E t \in Threads : InHand(t) = c THEN 1 ELSE 0
  <2>1. CASE \E t \in Threads : InHand(t) = c
    <3>1. PICK t \in Threads : InHand(t) = c
      BY <2>1
    <3>2. Hands = {t}
      BY <3>1, <1>4 DEF JarInv, JarInHand
    <3> QED
      BY <2>1, <3>2, FS_Singleton
  <2>2. CASE ~\E t \in Threads : InHand(t) = c
    <3>1. Hands = {}
      BY <2>2
    <3> QED
      BY <2>2, <3>1, FS_EmptySet
  <2> QED
    BY <2>1, <2>2
<1>6. indices[c] # 0 => /\ ~\E k \in 1 .. Len(free) : free[k] = c
                        /\ ~\E t \in Threads : InHand(t) = c
  BY <1>4 DEF JarInv, JarFree, JarInHand
<1>7. (\E k \in 1 .. Len(free) : free[k] = c) => ~\E t \in Threads : InHand(t) = c
  BY <1>4 DEF JarInv, JarInHand
<1>8. indices[c] # 0 \/ (\E k \in 1 .. Len(free) : free[k] = c) \/ (\E t \in Threads : InHand(t) = c)
  BY DEF JarInv, JarSomewhere
<1> QED
  BY <1>2, <1>3, <1>5, <1>6, <1>7, <1>8

\* Whatever is inserted, refused, removed and cleared by however many threads, a
\* cookie finds the item that was added under it, and is used again only when
\* nobody has it (jar.hpp, add(), remove(), next_cookie()).
THEOREM JarIsSafe == J!Spec => []JarSafe
<1>1. J!Init => JarInv
  <2>1. J!Init => JarTables /\ JarLinked /\ JarControl
    BY JarConstants DEF J!Init, JarTables, JarLinked, JarControl, InHand, Errands, J!Idle, J!None, J!Cookies
  <2>2. J!Init => JarFree /\ JarInHand /\ JarSomewhere
    BY JarConstants DEF J!Init, JarFree, JarInHand, JarSomewhere, InHand, J!Idle, J!None, J!Cookies
  <2> QED
    BY <2>1, <2>2 DEF JarInv, J!Init
<1>2. JarInv => J!TypeOK /\ J!Found
  BY DEF JarInv, JarTables, JarLinked, JarControl, J!TypeOK, J!Found, Errands
<1>3. JarInv => J!CookiesAccounted
  BY JarCounts, JarCardinality DEF J!CookiesAccounted, InHand
<1>4. JarInv => JarSafe
  BY <1>2, <1>3 DEF JarSafe
<1> QED
  BY <1>1, <1>4, JarInductive, PTL DEF J!Spec
=============================================================================
