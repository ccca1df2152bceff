------------------------------- MODULE PgProofs -------------------------------
(***************************************************************************)
(* Proofs about PgMigrate for any number of calls, pools and connections,  *)
(* any deployment and any number of lost sessions and processes. That the  *)
(* insertion sort of readMigrations sorts is proved first, by induction.   *)
(***************************************************************************)
EXTENDS PgMigrate, Induction

\* Versions in strictly ascending order.
Ascending(ms) == \A i, j \in DOMAIN ms : i < j => ms[i].version < ms[j].version

\* Inside the loop a call has a current migration, and a connection while it
\* waits for the lock.
Placed ==
  \A p \in Procs :
    /\ pc[p] \in Loop \ {"check"} => idx[p] <= Len(parsed[p])
    /\ pc[p] = "waiting" => sess[p] \in Sessions

Typed == TypeOK /\ Placed

\* Whoever is about to commit has inserted the only row of its version.
CommitsFree ==
  \A p \in Procs : pc[p] = "commit" =>
    /\ rows[This(p).version] = NoRow
    /\ \A q \in Procs : pc[q] = "commit" /\ This(q).version = This(p).version => q = p

Applied(m) == rows[m.version] = m.checksum

\* What a call has passed in its loop is recorded; before the loop it has
\* passed nothing.
Past == {"unlock", "return", "done"}
PassedBy(p) ==
  /\ pc[p] \notin Loop \cup Past => idx[p] = 1
  /\ pc[p] \in Loop =>
       /\ parsed[p] = sortMigrations(files[p]) /\ ~HasDuplicate(files[p])
       /\ \A i \in DOMAIN parsed[p] : i < idx[p] => Applied(parsed[p][i])
Passed == \A p \in Procs : PassedBy(p)

\* A result of nil, for one call.
OkBy(p) == res[p] = "ok" => \A m \in Range(files[p]) : Applied(m)

Inv == Typed /\ AppliedOnce /\ CommitsFree /\ Passed /\ OkMeansApplied

-----------------------------------------------------------------------------
(* sortMigrations *)

\* t is s with m put in behind position k.
Inserted(t, s, m, k) ==
  /\ t \in Seq(Migration) /\ Len(t) = Len(s) + 1
  /\ \A i \in 1..k : t[i] = s[i]
  /\ t[k + 1] = m
  /\ \A i \in (k + 1)..Len(s) : t[i + 1] = s[i]

\* Putting an element in, for any sequence and position.
LEMMA PutIn ==
  ASSUME NEW s \in Seq(Migration), NEW m \in Migration, NEW k \in 0..Len(s)
  PROVE  Inserted(SubSeq(s, 1, k) \o <<m>> \o SubSeq(s, k + 1, Len(s)), s, m, k)
<1> DEFINE a == SubSeq(s, 1, k)
           b == SubSeq(s, k + 1, Len(s))
           u == a \o <<m>>
           t == u \o b
<1>0. Len(s) \in Nat /\ k \in Nat /\ k <= Len(s)
  OBVIOUS
<1>1. a \in Seq(Migration) /\ Len(a) = k /\ \A i \in 1..k : a[i] = s[i]
  BY <1>0
<1>2. b \in Seq(Migration) /\ Len(b) = Len(s) - k /\ \A i \in 1..(Len(s) - k) : b[i] = s[k + i]
  BY <1>0
<1> HIDE DEF a, b
<1>3. u \in Seq(Migration) /\ Len(u) = k + 1 /\ u[k + 1] = m /\ \A i \in 1..k : u[i] = a[i]
  BY <1>0, <1>1
<1> HIDE DEF u
<1>4. /\ t \in Seq(Migration) /\ Len(t) = Len(u) + Len(b)
      /\ \A i \in 1..Len(u) : t[i] = u[i]
      /\ \A i \in 1..Len(b) : t[Len(u) + i] = b[i]
  <2>1. u \in Seq(Migration) /\ b \in Seq(Migration)
    BY <1>2, <1>3, Zenon
  <2> QED
    BY <2>1
<1> HIDE DEF t
<1>5. Len(t) = Len(s) + 1
  BY <1>0, <1>2, <1>3, <1>4
<1>6. \A i \in 1..k : t[i] = s[i]
  <2>1. \A i \in 1..k : i \in 1..(k + 1)
    BY <1>0
  <2> QED
    BY <1>1, <1>3, <1>4, <2>1, Zenon
<1>7. t[k + 1] = m
  <2>1. k + 1 \in 1..(k + 1)
    BY <1>0
  <2> QED
    BY <1>3, <1>4, <2>1, Zenon
<1>8. ASSUME NEW i \in (k + 1)..Len(s) PROVE t[i + 1] = s[i]
  <2>1. PICK j : j = i - k
    BY Zenon
  <2>2. j \in 1..(Len(s) - k) /\ k + j = i /\ (k + 1) + j = i + 1
    BY <1>0, <2>1
  <2>3. t[(k + 1) + j] = b[j]
    BY <1>2, <1>3, <1>4, <2>2, Zenon
  <2>4. b[j] = s[k + j]
    BY <1>2, <2>2, Zenon
  <2> QED
    BY <2>2, <2>3, <2>4, Zenon
<1>9. Inserted(t, s, m, k)
  BY <1>4, <1>5, <1>6, <1>7, <1>8, Zenon DEF Inserted
<1> QED
  BY <1>9, Zenon DEF t, u, a, b

\* One round of the sort puts m behind the last version that is not larger.
LEMMA InsertDef ==
  ASSUME NEW s \in Seq(Migration), NEW m \in Migration
  PROVE  \E k \in 0..Len(s) :
           /\ Inserted(Insert(s, m), s, m, k)
           /\ k # 0 => s[k].version <= m.version
           /\ \A i \in (k + 1)..Len(s) : ~(s[i].version <= m.version)
<1> DEFINE T == {0} \cup {i \in DOMAIN s : s[i].version <= m.version}
           Top(k) == k \in T /\ \A i \in T : i <= k
<1>1. Len(s) \in Nat /\ T \in SUBSET (0..Len(s)) /\ 0 \in T
  OBVIOUS
<1>2. PICK k : k = CHOOSE x \in T : \A i \in T : i <= x
  BY Zenon
<1>3. Top(k)
  <2>1. \E x \in T : \A i \in T : i <= x
    <3> HIDE DEF T
    <3> QED
      BY <1>1, GreatestNat, Zenon
  <2> QED
    BY <1>2, <2>1, Zenon
<1>4. k \in 0..Len(s)
  <2> HIDE DEF T
  <2> QED
    BY <1>1, <1>3, Zenon
<1>5. Insert(s, m) = SubSeq(s, 1, k) \o <<m>> \o SubSeq(s, k + 1, Len(s))
  BY <1>2, Zenon DEF Insert
<1>6. k # 0 => s[k].version <= m.version
  BY <1>3, Zenon
<1>7. \A i \in (k + 1)..Len(s) : ~(s[i].version <= m.version)
  <2>1. \A i \in (k + 1)..Len(s) : i \in DOMAIN s /\ ~(i <= k)
    BY <1>4
  <2> QED
    BY <1>3, <2>1, Zenon
<1>8. Inserted(Insert(s, m), s, m, k)
  BY <1>4, <1>5, PutIn, Zenon
<1> QED
  BY <1>4, <1>6, <1>7, <1>8, Zenon

\* A round adds m to the elements, and nothing else.
LEMMA InsertRange ==
  ASSUME NEW s \in Seq(Migration), NEW m \in Migration, NEW k \in 0..Len(s), NEW t, Inserted(t, s, m, k)
  PROVE  Range(t) = Range(s) \cup {m}
<1>1. /\ t \in Seq(Migration) /\ Len(t) = Len(s) + 1 /\ t[k + 1] = m
      /\ \A i \in 1..k : t[i] = s[i]
      /\ \A i \in (k + 1)..Len(s) : t[i + 1] = s[i]
  BY Zenon DEF Inserted
<1>2. Len(s) \in Nat /\ DOMAIN s = 1..Len(s) /\ DOMAIN t = 1..(Len(s) + 1)
  BY <1>1
<1>3. ASSUME NEW i \in DOMAIN t PROVE t[i] \in Range(s) \cup {m}
  <2>1. CASE i \in 1..k
    <3>1. i \in DOMAIN s
      BY <1>2, <2>1
    <3> QED
      BY <1>1, <2>1, <3>1, Zenon DEF Range
  <2>2. CASE i = k + 1
    BY <1>1, <2>2, Zenon
  <2>3. CASE i \in (k + 2)..(Len(s) + 1)
    <3>1. PICK j : j = i - 1
      BY Zenon
    <3>2. j \in (k + 1)..Len(s) /\ j + 1 = i /\ j \in DOMAIN s
      BY <1>2, <2>3, <3>1
    <3>3. t[i] = s[j]
      BY <1>1, <3>2, Zenon
    <3> QED
      BY <3>2, <3>3, Zenon DEF Range
  <2> QED
    BY <1>2, <2>1, <2>2, <2>3
<1>4. ASSUME NEW i \in DOMAIN s PROVE s[i] \in Range(t)
  <2>1. CASE i \in 1..k
    <3>1. i \in DOMAIN t
      BY <1>2, <2>1
    <3>2. t[i] = s[i]
      BY <1>1, <2>1, Zenon
    <3> QED
      BY <3>1, <3>2, Zenon DEF Range
  <2>2. CASE i \in (k + 1)..Len(s)
    <3>1. i + 1 \in DOMAIN t
      BY <1>2, <2>2
    <3>2. t[i + 1] = s[i]
      BY <1>1, <2>2, Zenon
    <3> QED
      BY <3>1, <3>2, Zenon DEF Range
  <2> QED
    BY <1>2, <2>1, <2>2
<1>5. m \in Range(t)
  <2>1. k + 1 \in DOMAIN t
    BY <1>2
  <2> QED
    BY <1>1, <2>1, Zenon DEF Range
<1> QED
  BY <1>3, <1>4, <1>5, Zenon DEF Range

\* A round keeps a strictly ascending sequence strictly ascending, when m's
\* version is not in it.
LEMMA InsertAscends ==
  ASSUME NEW s \in Seq(Migration), NEW m \in Migration, Ascending(s),
         \A x \in Range(s) : x.version # m.version
  PROVE  Ascending(Insert(s, m))
<1>1. PICK k \in 0..Len(s) :
        /\ Inserted(Insert(s, m), s, m, k)
        /\ k # 0 => s[k].version <= m.version
        /\ \A i \in (k + 1)..Len(s) : ~(s[i].version <= m.version)
  BY InsertDef, Zenon
<1>2. PICK t : t = Insert(s, m)
  BY Zenon
<1>3. /\ t \in Seq(Migration) /\ Len(t) = Len(s) + 1 /\ t[k + 1] = m
      /\ \A i \in 1..k : t[i] = s[i]
      /\ \A i \in (k + 1)..Len(s) : t[i + 1] = s[i]
  BY <1>1, <1>2, Zenon DEF Inserted
<1>4. Len(s) \in Nat /\ DOMAIN s = 1..Len(s) /\ DOMAIN t = 1..(Len(s) + 1) /\ k \in Nat /\ k <= Len(s)
  BY <1>3
<1> DEFINE v(i) == s[i].version
           w(i) == t[i].version
           M == m.version
<1>5. M \in Nat /\ \A i \in 1..Len(s) : v(i) \in Nat /\ v(i) # M
  <2>1. \A x \in Migration : x.version \in Nat
    BY PgAssumption, Zenon DEF Migration
  <2>2. \A i \in 1..Len(s) : s[i] \in Migration /\ s[i] \in Range(s)
    BY <1>4 DEF Range
  <2> QED
    BY <2>1, <2>2, Zenon
<1>6. \A i, j \in 1..Len(s) : i < j => v(i) < v(j)
  BY <1>4, Zenon DEF Ascending
<1>7. /\ w(k + 1) = M
      /\ \A i \in 1..k : w(i) = v(i)
      /\ \A i \in (k + 1)..Len(s) : w(i + 1) = v(i)
  BY <1>3, Zenon
<1>8. (k # 0 => v(k) <= M) /\ \A i \in (k + 1)..Len(s) : ~(v(i) <= M)
  BY <1>1, Zenon
<1> HIDE DEF v, w, M
<1>9. \A i \in 1..k : v(i) < M
  <2> SUFFICES ASSUME NEW i \in 1..k PROVE v(i) < M
    BY Zenon
  <2>1. i \in 1..Len(s) /\ k \in 1..Len(s) /\ k # 0 /\ (i = k \/ i < k)
    BY <1>4
  <2>2. v(i) = v(k) \/ v(i) < v(k)
    BY <1>6, <2>1, Zenon
  <2>3. v(k) <= M /\ v(k) # M /\ v(k) \in Nat /\ v(i) \in Nat
    BY <1>5, <1>8, <2>1, Zenon
  <2> QED
    BY <1>5, <2>2, <2>3
<1>10. \A i \in (k + 1)..Len(s) : M < v(i)
  <2> SUFFICES ASSUME NEW i \in (k + 1)..Len(s) PROVE M < v(i)
    BY Zenon
  <2>1. i \in 1..Len(s)
    BY <1>4
  <2>2. v(i) \in Nat /\ ~(v(i) <= M)
    BY <1>5, <1>8, <2>1, Zenon
  <2> QED
    BY <1>5, <2>2
<1>11. ASSUME NEW i \in DOMAIN t, NEW j \in DOMAIN t, i < j PROVE w(i) < w(j)
  <2>1. i \in Nat /\ j \in Nat /\ 1 <= i /\ j <= Len(s) + 1
    BY <1>4
  <2>2. CASE j <= k
    <3>1. i \in 1..k /\ j \in 1..k /\ i \in 1..Len(s) /\ j \in 1..Len(s)
      BY <1>4, <1>11, <2>1, <2>2
    <3> QED
      BY <1>6, <1>7, <1>11, <3>1, Zenon
  <2>3. CASE j = k + 1
    <3>1. i \in 1..k
      BY <1>4, <1>11, <2>1, <2>3
    <3> QED
      BY <1>7, <1>9, <2>3, <3>1, Zenon
  <2>4. CASE j > k + 1
    <3>1. PICK l : l = j - 1
      BY Zenon
    <3>2. l \in (k + 1)..Len(s) /\ l + 1 = j /\ l \in 1..Len(s)
      BY <1>4, <2>1, <2>4, <3>1
    <3>3. w(j) = v(l)
      BY <1>7, <3>2, Zenon
    <3>4. CASE i <= k
      <4>1. i \in 1..k /\ i \in 1..Len(s) /\ i < l
        BY <1>4, <2>1, <3>2, <3>4
      <4> QED
        BY <1>6, <1>7, <3>2, <3>3, <4>1, Zenon
    <3>5. CASE i = k + 1
      BY <1>7, <1>10, <3>2, <3>3, <3>5, Zenon
    <3>6. CASE i > k + 1
      <4>1. PICK h : h = i - 1
        BY Zenon
      <4>2. h \in (k + 1)..Len(s) /\ h + 1 = i /\ h \in 1..Len(s) /\ h < l
        <5>1. i \in Nat /\ i < j /\ i > k + 1 /\ l = j - 1 /\ l <= Len(s) /\ j \in Nat
          BY <1>11, <2>1, <3>1, <3>2, <3>6
        <5>2. k \in Nat /\ Len(s) \in Nat
          BY <1>4
        <5> QED
          BY <4>1, <5>1, <5>2
      <4>3. w(i) = v(h)
        BY <1>7, <4>2, Zenon
      <4> QED
        BY <1>6, <3>2, <3>3, <4>2, <4>3, Zenon
    <3> QED
      BY <1>4, <2>1, <3>4, <3>5, <3>6
  <2> QED
    BY <1>4, <2>1, <2>2, <2>3, <2>4
<1> QED
  BY <1>2, <1>11, Zenon DEF Ascending, w

\* The rounds of the sort of d: f[i] is the sorted prefix of i elements.
Rounds(f, d) ==
  /\ f[0] = <<>>
  /\ \A i \in 0..Len(d) : f[i] \in Seq(Migration)
  /\ \A i \in 1..Len(d) : f[i] = Insert(f[i - 1], d[i])

\* The rounds exist, and the sort is the last one.
LEMMA SortRounds ==
  ASSUME NEW d \in Seq(Migration)
  PROVE  \E f : Rounds(f, d) /\ sortMigrations(d) = f[Len(d)]
<1> DEFINE n == Len(d)
           V == Seq(Migration)
           Eqn(f) == f = [i \in 0..Len(d) |-> IF i = 0 THEN <<>> ELSE Insert(f[i - 1], d[i])]
           g == [p \in (1..n) \X V |-> Insert(p[2], d[p[1]])]
<1>0. n \in Nat /\ <<>> \in V /\ \A i \in 1..n : d[i] \in Migration
  OBVIOUS
<1>1. \A s \in V, m \in Migration : Insert(s, m) \in V
  BY InsertDef, Zenon DEF Inserted
<1>2. sortMigrations(d) = (CHOOSE f : Eqn(f))[Len(d)]
  BY Zenon DEF sortMigrations
<1>3. g \in [(1..n) \X V -> V]
  <2>1. \A p \in (1..n) \X V : Insert(p[2], d[p[1]]) \in V
    <3> SUFFICES ASSUME NEW p \in (1..n) \X V PROVE Insert(p[2], d[p[1]]) \in V
      BY Zenon
    <3> HIDE DEF V, n
    <3>1. p[1] \in 1..n /\ p[2] \in V
      OBVIOUS
    <3> QED
      BY <1>0, <1>1, <3>1, Zenon
  <2> QED
    BY <2>1, Zenon
<1> HIDE DEF n, V
<1>4. PICK f : f \in [0..n -> V] /\ f[0] = <<>> /\ \A i \in 1..n : f[i] = g[<<i, f[i - 1]>>]
  <2> HIDE DEF g
  <2>1. \E f : Recurs(f, n, V, <<>>, g)
    BY <1>0, <1>3, Recursion, Zenon
  <2> QED
    BY <2>1, Zenon DEF Recurs
<1>5. \A i \in 1..n : f[i] = Insert(f[i - 1], d[i])
  <2> SUFFICES ASSUME NEW i \in 1..n PROVE f[i] = Insert(f[i - 1], d[i])
    BY Zenon
  <2>0. i - 1 \in 0..n
    BY <1>0
  <2>1. f[i - 1] \in V
    BY <1>4, <2>0, Zenon
  <2>2. <<i, f[i - 1]>> \in (1..n) \X V /\ <<i, f[i - 1]>>[2] = f[i - 1] /\ <<i, f[i - 1]>>[1] = i
    BY <2>1
  <2> QED
    BY <1>4, <2>2, Zenon
<1>6. Eqn(f)
  <2>1. f = [i \in 0..n |-> f[i]]
    BY <1>4, Zenon
  <2>2. \A i \in 0..n : i # 0 => i \in 1..n
    BY <1>0
  <2>3. \A i \in 0..n : f[i] = IF i = 0 THEN <<>> ELSE Insert(f[i - 1], d[i])
    BY <1>4, <1>5, <2>2, Zenon
  <2> QED
    BY <2>1, <2>3, Zenon DEF n
<1>7. PICK w : w = CHOOSE x : Eqn(x)
  BY Zenon
<1>8. Eqn(w)
  <2> HIDE DEF Eqn
  <2> QED
    BY <1>6, <1>7, Zenon
<1>9. w[0] = <<>> /\ \A i \in 1..n : w[i] = Insert(w[i - 1], d[i])
  <2>1. 0 \in 0..n /\ \A i \in 1..n : i \in 0..n /\ i # 0
    BY <1>0
  <2>2. w = [i \in 0..n |-> IF i = 0 THEN <<>> ELSE Insert(w[i - 1], d[i])]
    BY <1>8, Zenon DEF n
  <2> QED
    BY <2>1, <2>2, Zenon
<1>10. \A i \in 0..n : w[i] \in V
  <2> DEFINE S == {i \in Nat : w[i] \in V}
  <2>1. 0 \in S
    BY <1>0, <1>9, Zenon
  <2>2. \A i \in 1..n : i - 1 \in S => i \in S
    <3>1. \A i \in 1..n : i \in Nat
      BY <1>0
    <3> QED
      BY <1>0, <1>1, <1>9, <3>1, Zenon
  <2> HIDE DEF S
  <2>3. \A i \in 0..n : i \in S
    BY <1>0, <2>1, <2>2, UpTo, Zenon
  <2> QED
    BY <2>3, Zenon DEF S
<1>11. Rounds(w, d)
  BY <1>9, <1>10, Zenon DEF Rounds, n, V
<1> QED
  BY <1>2, <1>7, <1>11, Zenon

\* sortMigrations returns the migrations it was given, in strictly ascending
\* order of version, unless two of them have the same version, which
\* readMigrations has refused before it sorts.
THEOREM SortMigrationsSorts ==
  ASSUME NEW d \in Seq(Migration)
  PROVE  /\ sortMigrations(d) \in Seq(Migration)
         /\ Range(sortMigrations(d)) = Range(d)
         /\ HasDuplicate(d) \/ Ascending(sortMigrations(d))
<1> DEFINE n == Len(d)
           Pre(i) == {d[j] : j \in 1..i}
<1>0. n \in Nat /\ DOMAIN d = 1..n /\ \A i \in 1..n : d[i] \in Migration
  OBVIOUS
<1>1. PICK f : Rounds(f, d) /\ sortMigrations(d) = f[n]
  BY SortRounds, Zenon
<1> HIDE DEF n
<1>2. /\ f[0] = <<>>
      /\ \A i \in 0..n : f[i] \in Seq(Migration)
      /\ \A i \in 1..n : f[i] = Insert(f[i - 1], d[i])
  BY <1>1, Zenon DEF Rounds, n
<1>3. n \in 0..n /\ \A i \in 1..n : i \in Nat /\ i - 1 \in 0..n /\ i - 1 \in Nat
  BY <1>0
<1>4. \A i \in 0..n : Range(f[i]) = Pre(i)
  <2> DEFINE S == {i \in Nat : Range(f[i]) = Pre(i)}
  <2>1. 0 \in S
    <3>1. Range(<<>>) = {} /\ Pre(0) = {}
      BY DEF Range
    <3> QED
      BY <1>2, <3>1
  <2>2. ASSUME NEW i \in 1..n, i - 1 \in S PROVE i \in S
    <3>1. PICK s \in Seq(Migration), m \in Migration : s = f[i - 1] /\ m = d[i]
      BY <1>0, <1>2, <1>3, Zenon
    <3>2. Range(f[i]) = Range(f[i - 1]) \cup {d[i]}
      <4>1. PICK k \in 0..Len(s) : Inserted(Insert(s, m), s, m, k)
        BY InsertDef, Zenon
      <4>2. Range(Insert(s, m)) = Range(s) \cup {m}
        BY <4>1, InsertRange, Zenon
      <4>3. f[i] = Insert(s, m)
        BY <1>2, <3>1, Zenon
      <4> QED
        BY <3>1, <4>2, <4>3, Zenon
    <3>3. Pre(i) = Pre(i - 1) \cup {d[i]}
      <4>1. \A j : j \in 1..i <=> (j \in 1..(i - 1) \/ j = i)
        BY <1>0
      <4> QED
        BY <4>1, Zenon
    <3> QED
      BY <1>3, <2>2, <3>2, <3>3, Zenon
  <2> HIDE DEF S
  <2>3. \A i \in 0..n : i \in S
    BY <1>0, <2>1, <2>2, UpTo, Zenon
  <2> QED
    BY <2>3, Zenon DEF S
<1>5. Range(sortMigrations(d)) = Range(d)
  <2>1. Range(d) = Pre(n)
    BY <1>0, Zenon DEF Range
  <2> QED
    BY <1>1, <1>3, <1>4, <2>1, Zenon
<1>6. ASSUME ~HasDuplicate(d) PROVE Ascending(f[n])
  <2> DEFINE S == {i \in Nat : Ascending(f[i])}
  <2>1. 0 \in S
    <3>1. Ascending(<<>>)
      BY DEF Ascending
    <3> QED
      BY <1>2, <3>1
  <2>2. ASSUME NEW i \in 1..n, i - 1 \in S PROVE i \in S
    <3>1. \A x \in Range(f[i - 1]) : x.version # d[i].version
      <4>1. \A x \in Range(f[i - 1]) : \E j \in 1..(i - 1) : x = d[j]
        BY <1>3, <1>4, Zenon
      <4>2. \A j \in 1..(i - 1) : j \in 1..n /\ j # i
        BY <1>0
      <4>3. \A j \in 1..(i - 1) : d[j].version # d[i].version
        BY <1>0, <1>6, <4>2, Zenon DEF HasDuplicate
      <4> QED
        BY <4>1, <4>3, Zenon
    <3>2. Ascending(f[i - 1])
      BY <2>2, Zenon
    <3>3. Ascending(Insert(f[i - 1], d[i]))
      BY <1>0, <1>2, <1>3, <3>1, <3>2, InsertAscends, Zenon
    <3> QED
      BY <1>2, <1>3, <3>3, Zenon
  <2> HIDE DEF S
  <2>3. \A i \in 0..n : i \in S
    BY <1>0, <2>1, <2>2, UpTo, Zenon
  <2> QED
    BY <1>3, <2>3, Zenon DEF S
<1> QED
  BY <1>1, <1>2, <1>3, <1>5, <1>6, Zenon

-----------------------------------------------------------------------------
(* Types *)

\* The migration a call works on.
LEMMA ThisIsMigration ==
  ASSUME Typed, NEW p \in Procs, idx[p] <= Len(parsed[p])
  PROVE  /\ idx[p] \in DOMAIN parsed[p] /\ This(p) \in Migration
         /\ This(p).version \in Versions /\ This(p).checksum \in Checksums
         /\ This(p).checksum # NoRow
<1>1. idx[p] \in DOMAIN parsed[p] /\ parsed[p] \in Seq(Migration)
  BY DEF Typed, TypeOK
<1>2. This(p) \in Migration
  BY <1>1, SMTT(60) DEF This
<1> QED
  BY <1>1, <1>2, PgAssumption, Zenon DEF Migration

\* A commit records a checksum and counts an execution.
LEMMA CommittedType ==
  ASSUME Typed, NEW p \in Procs, pc[p] = "commit", Committed(p)
  PROVE  /\ rows' \in [Versions -> Checksums \cup {NoRow}]
         /\ effects' \in [Versions -> Nat]
<1>1. This(p).version \in Versions /\ This(p).checksum \in Checksums
  BY ThisIsMigration, Zenon DEF Typed, Placed, Loop
<1> QED
  BY <1>1, SMTT(60) DEF Committed, Typed, TypeOK

\* Ending sessions keeps the lock and its depth in step.
LEMMA EndSessionsType ==
  ASSUME TypeOK, NEW S, EndSessions(S)
  PROVE  /\ owner' \in Sessions \cup {NoSession} /\ depth' \in Nat
         /\ (owner' = NoSession) <=> (depth' = 0)
         /\ owner' \in {owner, NoSession} /\ (owner' = NoSession \/ owner \notin S)
BY SMTT(60) DEF TypeOK, EndSessions

\* The steps of one call keep the types.
LEMMA StepType ==
  ASSUME Typed, NEW p \in Procs, Step(p)
  PROVE  Typed'
<1> USE PgAssumption DEF Typed, Placed, TypeOK, Goto, locals, server, Loop, Critical
<1>1. CASE EnsureCheck(p)
  BY <1>1, Zenon DEF EnsureCheck
<1>2. CASE EnsureCreate(p)
  <2>1. exists' \in BOOLEAN /\ UNCHANGED <<files, parsed, idx, sess, owner, depth, rows, effects, deaths>>
    BY <1>2, ZenonT(60) DEF EnsureCreate
  <2>2. \/ pc' = [pc EXCEPT ![p] = "done"] /\ res' = [res EXCEPT ![p] = "error"]
        \/ pc' = [pc EXCEPT ![p] = "table"] /\ res' = res
    BY <1>2, ZenonT(60) DEF EnsureCreate, Result
  <2>3. dep' = dep
    BY <1>2, Zenon DEF EnsureCreate
  <2>4. /\ pc' \in [Procs -> {"ensure", "createdb", "table", "lock", "waiting",
                             "unlock", "return", "done"} \cup Critical]
        /\ res' \in [Procs -> {"none", "ok", "error"}]
    BY <2>2, ZenonT(60)
  <2>5. Placed'
    BY <2>1, <2>2, ZenonT(60)
  <2> QED
    BY <2>1, <2>3, <2>4, <2>5, ZenonT(60)
<1>3. CASE CreateTable(p)
  BY <1>3, Zenon DEF CreateTable
<1>4. CASE LockCall(p)
  <2>1. \A s \in Idle(p) : s \in Sessions
    BY Zenon DEF Idle, PoolSessions
  <2> QED
    BY <1>4, <2>1, ZenonT(60) DEF LockCall, Take
<1>5. CASE LockGranted(p)
  BY <1>5 DEF LockGranted, Release
<1>6. CASE ReadMigrations(p)
  <2>1. sortMigrations(files[p]) \in Seq(Migration)
    <3>1. files[p] \in Seq(Migration)
      BY Zenon
    <3> QED
      BY <3>1, SortMigrationsSorts, Zenon
  <2>2. CASE HasDuplicate(files[p])
    BY ZenonT(60), <1>6, <2>2 DEF ReadMigrations, Result
  <2>3. CASE ~HasDuplicate(files[p])
    <3>1. parsed' \in [Procs -> Seq(Migration)]
      BY <1>6, <2>1, <2>3, ZenonT(60) DEF ReadMigrations, LoopOrder
    <3> QED
      BY <1>6, <2>3, <3>1, ZenonT(60) DEF ReadMigrations, LoopOrder
  <2> QED
    BY <2>2, <2>3, ZenonT(60)
<1>7. CASE CheckMigration(p)
  <2>1. CASE idx[p] > Len(parsed[p])
    BY ZenonT(60), <1>7, <2>1 DEF CheckMigration, Result
  <2>2. CASE ~(idx[p] > Len(parsed[p]))
    <3>1. idx[p] <= Len(parsed[p])
      BY <2>2
    <3>2. CASE Goto(p, "begin") /\ UNCHANGED <<idx, res>>
      BY <1>7, <3>1, <3>2, Zenon DEF CheckMigration
    <3>3. CASE idx' = [idx EXCEPT ![p] = @ + 1] /\ UNCHANGED <<pc, res>>
      BY <1>7, <3>3, SMTT(60) DEF CheckMigration
    <3>4. CASE Goto(p, "unlock") /\ Result(p, "error") /\ UNCHANGED idx
      BY <1>7, <3>4, Zenon DEF CheckMigration, Result
    <3> QED
      BY Zenon, <1>7, <2>2, <3>2, <3>3, <3>4 DEF CheckMigration
  <2> QED
    BY <2>1, <2>2, ZenonT(60)
<1>8. CASE Begin(p)
  <2>1. \A s \in Idle(p) : s \in Sessions
    BY Zenon DEF Idle, PoolSessions
  <2> QED
    BY <1>8, <2>1, ZenonT(60) DEF Begin, Take
<1>9. CASE ExecSQL(p)
  BY <1>9, Zenon DEF ExecSQL
<1>10. CASE InsertRow(p)
  BY <1>10, ZenonT(60) DEF InsertRow, Result, Release
<1>11. CASE Commit(p)
  <2>1. /\ rows' \in [Versions -> Checksums \cup {NoRow}]
        /\ effects' \in [Versions -> Nat]
    BY <1>11, CommittedType, Zenon DEF Commit
  <2> QED
    <3>1. idx' \in [Procs -> Nat \ {0}]
      BY <1>11 DEF Commit
    <3> QED
      BY <1>11, <2>1, <3>1, ZenonT(60) DEF Commit, Release
<1>12. CASE Unlock(p)
  <2>1. PICK s \in Idle(p) : Unlocked(s)
    BY <1>12, Zenon DEF Unlock
  <2>2. s \in Sessions
    BY Zenon DEF Idle, PoolSessions
  <2>3. /\ owner' \in Sessions \cup {NoSession} /\ depth' \in Nat
        /\ (owner' = NoSession) <=> (depth' = 0)
    BY <2>1, <2>2, SMTT(60) DEF Unlocked
  <2> QED
    BY <1>12, <2>3, Zenon DEF Unlock
<1>13. CASE Return(p)
  BY <1>13, EndSessionsType, Zenon DEF Return
<1> QED
  BY ZenonT(60), <1>1, <1>2, <1>3, <1>4, <1>5, <1>6, <1>7, <1>8, <1>9, <1>10, <1>11, <1>12,
     <1>13 DEF Step

\* So do errors and losses.
LEMMA LossType ==
  ASSUME Typed,
         \/ \E p \in Procs : CommitUnknown(p) \/ StatementError(p)
         \/ SessionDies \/ \E k \in Pools : PoolCrash(k)
  PROVE  Typed'
<1> USE PgAssumption DEF Typed, Placed, TypeOK, Goto, locals, server, Loop, Critical
<1>1. ASSUME NEW p \in Procs, CommitUnknown(p) PROVE Typed'
  <2>1. /\ rows' \in [Versions -> Checksums \cup {NoRow}]
        /\ effects' \in [Versions -> Nat]
    BY <1>1, CommittedType, Zenon DEF CommitUnknown
  <2> QED
    BY <1>1, <2>1, Zenon DEF CommitUnknown, Release, Result
<1>2. ASSUME NEW p \in Procs, StatementError(p) PROVE Typed'
  BY <1>2, EndSessionsType, ZenonT(60) DEF StatementError, Release, Result
<1>3. CASE SessionDies
  <2>1. deaths' \in Nat
    BY <1>3 DEF SessionDies
  <2>2. PICK s \in Sessions : EndSessions({s})
    BY <1>3, Zenon DEF SessionDies
  <2>3. /\ owner' \in Sessions \cup {NoSession} /\ depth' \in Nat
        /\ (owner' = NoSession) <=> (depth' = 0)
    BY <2>2, EndSessionsType, Zenon
  <2> QED
    BY <1>3, <2>1, <2>3, ZenonT(60) DEF SessionDies
<1>4. ASSUME NEW k \in Pools, PoolCrash(k) PROVE Typed'
  BY <1>4, EndSessionsType, SMTT(60) DEF PoolCrash
<1> QED
  BY <1>1, <1>2, <1>3, <1>4, Zenon

-----------------------------------------------------------------------------
(* Rows *)

\* A commit writes a row where there was none, and leaves the others.
LEMMA CommitKeepsRows ==
  ASSUME Inv, NEW p \in Procs, pc[p] = "commit", Committed(p)
  PROVE  /\ AppliedOnce'
         /\ \A v \in Versions : rows[v] # NoRow => rows'[v] = rows[v]
         /\ \A v \in Versions : v # This(p).version => rows'[v] = rows[v]
         /\ rows'[This(p).version] = This(p).checksum
<1>1. /\ This(p).version \in Versions /\ This(p).checksum # NoRow
      /\ rows[This(p).version] = NoRow
  BY ThisIsMigration, Zenon DEF Inv, CommitsFree, Typed, Placed, Loop
<1> QED
  BY <1>1 DEF Inv, Typed, TypeOK, AppliedOnce, Committed

\* What is recorded stays recorded.
LEMMA RecordedStays ==
  ASSUME Typed, NEW m \in Migration, Applied(m),
         \A v \in Versions : rows[v] # NoRow => rows'[v] = rows[v]
  PROVE  Applied(m)'
BY PgAssumption, ZenonT(60) DEF Applied, Migration

\* A call that does not commit keeps the rows; if it reaches "commit" its row
\* is free and nobody else is about to write it.
LEMMA StepRows ==
  ASSUME Inv, Next
  PROVE  /\ AppliedOnce' /\ CommitsFree'
         /\ \A v \in Versions : rows[v] # NoRow => rows'[v] = rows[v]
<1> USE DEF Goto, locals, server
<1>1. ASSUME NEW p \in Procs, Commit(p) \/ CommitUnknown(p)
      PROVE  /\ AppliedOnce' /\ CommitsFree'
             /\ \A v \in Versions : rows[v] # NoRow => rows'[v] = rows[v]
  <2>1. /\ pc[p] = "commit" /\ Committed(p) /\ pc'[p] # "commit"
        /\ \A q \in Procs \ {p} : pc'[q] = pc[q] /\ idx'[q] = idx[q]
        /\ parsed' = parsed
    BY <1>1, Zenon DEF Commit, CommitUnknown, Inv, Typed, TypeOK
  <2>2. /\ AppliedOnce' /\ \A v \in Versions : rows[v] # NoRow => rows'[v] = rows[v]
        /\ \A v \in Versions : v # This(p).version => rows'[v] = rows[v]
    BY <2>1, CommitKeepsRows, Zenon
  <2>3. CommitsFree'
    <3> SUFFICES ASSUME NEW q \in Procs, pc'[q] = "commit"
                 PROVE  /\ rows'[This(q)'.version] = NoRow
                        /\ \A r \in Procs : pc'[r] = "commit" /\ This(r)'.version = This(q)'.version
                                             => r = q
      BY Zenon DEF CommitsFree
    <3>1. q # p /\ pc[q] = "commit" /\ This(q)' = This(q)
      BY <2>1, Zenon DEF This
    <3>2. This(q).version \in Versions
      BY <3>1, ThisIsMigration, Zenon DEF Inv, Typed, Placed, Loop
    <3>3. This(q).version # This(p).version
      BY <2>1, <3>1, Zenon DEF Inv, CommitsFree
    <3>4. \A r \in Procs : pc'[r] = "commit" => pc[r] = "commit" /\ This(r)' = This(r)
      BY <2>1, Zenon DEF This
    <3> QED
      BY <2>2, <3>1, <3>2, <3>3, <3>4, ZenonT(60) DEF Inv, CommitsFree
  <2> QED
    BY <2>2, <2>3, Zenon
<1>2. ASSUME NEW p \in Procs, InsertRow(p)
      PROVE  AppliedOnce' /\ CommitsFree' /\ rows' = rows
  <2>1. /\ UNCHANGED <<parsed, idx, rows, effects>>
        /\ \A q \in Procs \ {p} : pc'[q] = pc[q]
        /\ pc'[p] = "commit" => ~Rival(p) /\ RowFree(p)
    BY <1>2, Zenon DEF InsertRow, Inv, Typed, TypeOK
  <2>2. \A q \in Procs : This(q)' = This(q)
    BY <2>1, Zenon DEF This
  <2>3. CommitsFree'
    BY <2>1, <2>2, SMTT(60) DEF Inv, CommitsFree, Rival, RowFree
  <2> QED
    BY <2>1, <2>3, Zenon DEF Inv, AppliedOnce
<1>3. ASSUME NEW p \in Procs, Step(p), ~Commit(p), ~InsertRow(p)
      PROVE  AppliedOnce' /\ CommitsFree' /\ rows' = rows
  <2>1. UNCHANGED <<rows, effects>>
    BY <1>3, ZenonT(60) DEF Step, EnsureCheck, EnsureCreate, CreateTable, LockCall, LockGranted,
       ReadMigrations, CheckMigration, Begin, ExecSQL, Unlock, Return
  <2>2. \A q \in Procs : pc'[q] = "commit" =>
          pc[q] = "commit" /\ parsed'[q] = parsed[q] /\ idx'[q] = idx[q]
    <3>1. CASE EnsureCheck(p) \/ EnsureCreate(p) \/ CreateTable(p)
      BY <3>1, Zenon DEF EnsureCheck, EnsureCreate, CreateTable, Inv, Typed, TypeOK
    <3>2. CASE LockCall(p) \/ LockGranted(p)
      BY <3>2, Zenon DEF LockCall, LockGranted, Inv, Typed, TypeOK
    <3>3. CASE ReadMigrations(p)
      BY <3>3, Zenon DEF ReadMigrations, Inv, Typed, TypeOK
    <3>4. CASE CheckMigration(p)
      BY <3>4, Zenon DEF CheckMigration, Inv, Typed, TypeOK
    <3>5. CASE Begin(p) \/ ExecSQL(p)
      BY <3>5, Zenon DEF Begin, ExecSQL, Inv, Typed, TypeOK
    <3>6. CASE Unlock(p) \/ Return(p)
      BY <3>6, Zenon DEF Unlock, Return, Inv, Typed, TypeOK
    <3> QED
      BY <1>3, <3>1, <3>2, <3>3, <3>4, <3>5, <3>6, Zenon DEF Step
  <2>3. CommitsFree'
    BY <2>1, <2>2 DEF Inv, CommitsFree, This
  <2> QED
    BY <2>1, <2>3, Zenon DEF Inv, AppliedOnce
<1>4. ASSUME \/ \E p \in Procs : StatementError(p)
             \/ SessionDies \/ \E k \in Pools : PoolCrash(k)
      PROVE  AppliedOnce' /\ CommitsFree' /\ rows' = rows
  <2>1. UNCHANGED <<rows, effects, parsed, idx>>
    BY <1>4, ZenonT(60) DEF StatementError, SessionDies, PoolCrash
  <2>2. \A q \in Procs : pc'[q] = "commit" => pc[q] = "commit"
    <3>1. ASSUME NEW p \in Procs, StatementError(p), NEW q \in Procs, pc'[q] = "commit"
          PROVE  pc[q] = "commit"
      BY <3>1, Zenon DEF StatementError, Inv, Typed, TypeOK
    <3>2. ASSUME NEW k \in Pools, PoolCrash(k), NEW q \in Procs, pc'[q] = "commit"
          PROVE  pc[q] = "commit"
      BY <3>2, Zenon DEF PoolCrash
    <3>3. SessionDies => pc' = pc
      BY Zenon DEF SessionDies
    <3> QED
      BY <1>4, <3>1, <3>2, <3>3, Zenon
  <2>3. CommitsFree'
    BY <2>1, <2>2, Zenon DEF Inv, CommitsFree, This
  <2> QED
    BY <2>1, <2>3, Zenon DEF Inv, AppliedOnce
<1> QED
  BY <1>1, <1>2, <1>3, <1>4, Zenon DEF Next, Step

-----------------------------------------------------------------------------
(* The loop over the migrations *)

\* Rows are never changed or removed.
RowsKept == \A v \in Versions : rows[v] # NoRow => rows'[v] = rows[v]

\* OkMeansApplied, call by call.
LEMMA OkByCall == OkMeansApplied <=> \A p \in Procs : OkBy(p)
BY Zenon DEF OkMeansApplied, OkBy, Applied

\* The embedded files are migrations, and sorting only orders them.
LEMMA FilesAreMigrations ==
  ASSUME Typed, NEW p \in Procs
  PROVE  /\ Range(files[p]) \subseteq Migration
         /\ sortMigrations(files[p]) \in Seq(Migration)
         /\ Range(sortMigrations(files[p])) = Range(files[p])
<1>1. files[p] \in Dirs /\ files[p] \in Seq(Migration)
  BY PgAssumption, Zenon DEF Typed, TypeOK
<1>2. \A i \in DOMAIN files[p] : files[p][i] \in Migration
  BY <1>1
<1>3. Range(files[p]) \subseteq Migration
  BY <1>2, Zenon DEF Range
<1> QED
  BY <1>1, <1>3, SortMigrationsSorts, Zenon

\* A call that keeps its place, in the loop or out of it, keeps what it passed.
LEMMA KeepsPassed ==
  ASSUME Inv, RowsKept, files' = files, NEW q \in Procs,
         UNCHANGED <<parsed[q], idx[q]>>,
         pc'[q] \in Loop => pc[q] \in Loop,
         pc'[q] \notin Loop \cup Past => pc[q] \notin Loop \cup Past
  PROVE  PassedBy(q)'
<1>1. \A i \in DOMAIN parsed[q] : parsed[q][i] \in Migration
  BY DEF Inv, Typed, TypeOK
<1>2. \A i \in DOMAIN parsed[q] : Applied(parsed[q][i]) => Applied(parsed[q][i])'
  BY <1>1, RecordedStays, Zenon DEF Inv, RowsKept, Applied
<1>3. PassedBy(q)
  BY Zenon DEF Inv, Passed
<1> QED
  BY <1>2, <1>3, Zenon DEF PassedBy

\* A result of nil stays justified.
LEMMA KeepsOk ==
  ASSUME Inv, RowsKept, files' = files, NEW q \in Procs, res'[q] = "ok" => res[q] = "ok"
  PROVE  OkBy(q)'
<1>1. \A m \in Range(files[q]) : m \in Migration
  BY FilesAreMigrations, Zenon DEF Inv
<1>2. \A m \in Range(files[q]) : Applied(m) => Applied(m)'
  BY <1>1, RecordedStays, Zenon DEF Inv, RowsKept
<1>3. OkBy(q)
  BY OkByCall, Zenon DEF Inv
<1> QED
  BY <1>2, <1>3, Zenon DEF OkBy

\* The steps of one call outside the ones that move it along its migrations.
LEMMA PlainPassed ==
  ASSUME Inv, RowsKept, NEW p \in Procs, Step(p) \/ StatementError(p),
         ~ReadMigrations(p), ~CheckMigration(p), ~Commit(p)
  PROVE  Passed' /\ OkMeansApplied'
<1> USE DEF Goto, locals, server, Result
<1>1. UNCHANGED <<files, parsed, idx>>
  BY Zenon DEF Step, StatementError, EnsureCheck, EnsureCreate, CreateTable, LockCall,
         LockGranted, Begin, ExecSQL, InsertRow, Unlock, Return
<1>2. /\ \A q \in Procs \ {p} : pc'[q] = pc[q]
      /\ pc'[p] \in Loop => pc[p] \in Loop
      /\ pc'[p] \notin Loop \cup Past => pc[p] \notin Loop \cup Past
  <2> USE DEF Inv, Typed, TypeOK, Loop, Past, Critical
  <2>1. CASE EnsureCheck(p) \/ EnsureCreate(p)
    BY <2>1, ZenonT(60) DEF EnsureCheck, EnsureCreate
  <2>2. CASE CreateTable(p) \/ LockCall(p) \/ LockGranted(p)
    BY <2>2, Zenon DEF CreateTable, LockCall, LockGranted
  <2>3. CASE Begin(p) \/ ExecSQL(p)
    BY <2>3, Zenon DEF Begin, ExecSQL
  <2>4. CASE InsertRow(p)
    BY <2>4, ZenonT(60) DEF InsertRow
  <2>5. CASE Unlock(p) \/ Return(p)
    BY <2>5, Zenon DEF Unlock, Return
  <2>6. CASE StatementError(p)
    BY <2>6, Zenon DEF StatementError
  <2> QED
    BY <2>1, <2>2, <2>3, <2>4, <2>5, <2>6, Zenon DEF Step
<1>3. \A q \in Procs : res'[q] = "ok" => res[q] = "ok"
  <2>1. CASE EnsureCheck(p) \/ EnsureCreate(p) \/ CreateTable(p) \/ LockCall(p) \/ LockGranted(p)
    BY <2>1, Zenon DEF EnsureCheck, EnsureCreate, CreateTable, LockCall, LockGranted,
       Inv, Typed, TypeOK
  <2>2. CASE Begin(p) \/ ExecSQL(p) \/ InsertRow(p)
    BY <2>2, Zenon DEF Begin, ExecSQL, InsertRow, Inv, Typed, TypeOK
  <2>3. CASE Unlock(p) \/ Return(p)
    BY <2>3, Zenon DEF Unlock, Return, Inv, Typed, TypeOK
  <2>4. CASE StatementError(p)
    BY <2>4, Zenon DEF StatementError, Inv, Typed, TypeOK
  <2> QED
    BY <2>1, <2>2, <2>3, <2>4, ZenonT(60) DEF Step
<1>4. \A q \in Procs : PassedBy(q)'
  BY <1>1, <1>2, KeepsPassed, SMTT(60)
<1>5. \A q \in Procs : OkBy(q)'
  BY ZenonT(60), <1>1, <1>3, KeepsOk
<1> QED
  BY <1>4, <1>5, OkByCall, Zenon DEF Passed, OkMeansApplied, OkBy, Applied

\* Reading the directory starts the loop before the first migration.
LEMMA ReadPassed ==
  ASSUME Inv, RowsKept, NEW p \in Procs, ReadMigrations(p)
  PROVE  Passed' /\ OkMeansApplied'
<1> USE DEF Goto, locals, server, Result
<1>1. /\ UNCHANGED <<files, idx>> /\ pc[p] = "read"
      /\ \A q \in Procs \ {p} : pc'[q] = pc[q] /\ parsed'[q] = parsed[q]
      /\ \A q \in Procs : res'[q] = "ok" => res[q] = "ok"
  BY Zenon DEF ReadMigrations, Inv, Typed, TypeOK
<1>2. PassedBy(p)'
  <2>1. CASE HasDuplicate(files[p])
    BY <2>1, Zenon DEF ReadMigrations, Inv, Typed, TypeOK, PassedBy, Past, Loop
  <2>2. CASE ~HasDuplicate(files[p])
    <3>1. idx[p] = 1
      BY <1>1, Zenon DEF Inv, Passed, PassedBy, Loop, Past
    <3>2. pc'[p] = "check" /\ parsed'[p] = sortMigrations(files[p])
      BY <2>2, Zenon DEF ReadMigrations, LoopOrder, Inv, Typed, TypeOK
    <3>3. \A i \in DOMAIN parsed'[p] : ~(i < 1)
      BY <3>2, FilesAreMigrations, SMTT(60) DEF Inv
    <3> QED
      BY <1>1, <2>2, <3>1, <3>2, <3>3, Zenon DEF PassedBy, Loop, Past
  <2> QED
    BY <2>1, <2>2, Zenon
<1>3. \A q \in Procs \ {p} : PassedBy(q)'
  BY <1>1, KeepsPassed, Zenon
<1>4. \A q \in Procs : OkBy(q)'
  BY <1>1, KeepsOk, Zenon
<1> QED
  BY ZenonT(60), <1>2, <1>3, <1>4 DEF Passed, OkMeansApplied, OkBy, Applied

\* A call that moves on to its next migration leaves an applied one behind.
LEMMA AdvancePassed ==
  ASSUME Inv, RowsKept, NEW p \in Procs, files' = files, parsed' = parsed,
         pc[p] \in Loop, pc'[p] \in Loop,
         idx[p] \in DOMAIN parsed[p], idx'[p] = idx[p] + 1,
         rows'[This(p).version] = This(p).checksum
  PROVE  PassedBy(p)'
<1>1. \A i \in DOMAIN parsed[p] : parsed[p][i] \in Migration /\ i \in Nat
  BY SMTT(60) DEF Inv, Typed, TypeOK
<1>2. \A i \in DOMAIN parsed[p] : i < idx[p] =>
        rows'[parsed[p][i].version] = parsed[p][i].checksum
  BY <1>1, RecordedStays, Zenon DEF Inv, Passed, PassedBy, RowsKept, Applied
<1>3. \A i \in DOMAIN parsed[p] : i < idx[p] + 1 => i < idx[p] \/ i = idx[p]
  BY <1>1, SMTT(60) DEF Inv, Typed, TypeOK
<1>4. \A i \in DOMAIN parsed[p] : i < idx'[p] =>
        rows'[parsed[p][i].version] = parsed[p][i].checksum
  BY <1>2, <1>3, Zenon DEF This
<1>5. parsed[p] = sortMigrations(files[p]) /\ ~HasDuplicate(files[p])
  BY Zenon DEF Inv, Passed, PassedBy
<1>6. (\A i \in DOMAIN parsed[p] : i < idx[p] => Applied(parsed[p][i]))'
  BY <1>4, Zenon DEF Applied
<1>7. (parsed[p] = sortMigrations(files[p]) /\ ~HasDuplicate(files[p]))'
  BY <1>5, Zenon
<1> QED
  BY <1>6, <1>7, Zenon DEF PassedBy

\* The loop reads the row of its next migration, or ends after the last.
LEMMA CheckPassed ==
  ASSUME Inv, RowsKept, NEW p \in Procs, CheckMigration(p)
  PROVE  Passed' /\ OkMeansApplied'
<1> USE DEF Goto, locals, server, Result
<1>1. /\ UNCHANGED <<files, parsed, rows>> /\ pc[p] = "check" /\ pc[p] \in Loop
      /\ \A q \in Procs \ {p} : UNCHANGED <<pc[q], idx[q], res[q]>>
  BY ZenonT(60) DEF CheckMigration, Inv, Typed, TypeOK, Loop
<1>2. \A q \in Procs \ {p} : PassedBy(q)' /\ OkBy(q)'
  BY <1>1, KeepsPassed, KeepsOk, Zenon
<1>3. PassedBy(p)' /\ OkBy(p)'
  <2>1. CASE idx[p] > Len(parsed[p])
    <3>1. pc'[p] = "unlock"
      BY <2>1, Zenon DEF CheckMigration, Inv, Typed, TypeOK
    <3>2. PassedBy(p)'
      BY <3>1, Zenon DEF PassedBy, Loop, Past
    <3>3. \A i \in DOMAIN parsed[p] : i < idx[p]
      <4>1. parsed[p] \in Seq(Migration) /\ idx[p] \in Nat
        BY Zenon DEF Inv, Typed, TypeOK
      <4> QED
        BY <2>1, <4>1, SMTT(60)
    <3>4. /\ parsed[p] = sortMigrations(files[p])
          /\ \A i \in DOMAIN parsed[p] : Applied(parsed[p][i])
      BY <1>1, <3>3, Zenon DEF Inv, Passed, PassedBy
    <3>5. \A m \in Range(files[p]) : \E i \in DOMAIN parsed[p] : m = parsed[p][i]
      <4>1. Range(parsed[p]) = Range(files[p])
        BY <3>4, FilesAreMigrations, Zenon DEF Inv
      <4>2. \A m \in Range(parsed[p]) : \E i \in DOMAIN parsed[p] : m = parsed[p][i]
        BY Zenon DEF Range
      <4> QED
        BY <4>1, <4>2, Zenon
    <3> QED
      BY <1>1, <3>2, <3>4, <3>5, Zenon DEF OkBy, Applied
  <2>2. CASE ~(idx[p] > Len(parsed[p])) /\ idx' # idx
    <3>1. /\ idx' = [idx EXCEPT ![p] = @ + 1] /\ UNCHANGED <<pc, res>>
          /\ rows[This(p).version] = This(p).checksum
      BY <2>2, Zenon DEF CheckMigration, ChecksumOK
    <3>2. idx[p] \in DOMAIN parsed[p] /\ idx'[p] = idx[p] + 1
      BY <2>2, <3>1, SMTT(60) DEF Inv, Typed, TypeOK
    <3>3. PassedBy(p)'
      BY <1>1, <3>1, <3>2, AdvancePassed, Zenon
    <3> QED
      BY <1>1, <3>1, <3>3, KeepsOk, Zenon
  <2>3. CASE ~(idx[p] > Len(parsed[p])) /\ idx' = idx
    <3>1. /\ pc'[p] \in Loop \cup Past
          /\ res'[p] = "ok" => res[p] = "ok"
      BY <1>1, <2>3, Zenon DEF CheckMigration, Inv, Typed, TypeOK, Loop, Past
    <3> QED
      BY <1>1, <2>3, <3>1, KeepsPassed, KeepsOk, Zenon
  <2> QED
    BY <2>1, <2>2, <2>3, Zenon
<1> QED
  BY <1>2, <1>3, Zenon DEF Passed, OkMeansApplied, OkBy, Applied

\* A commit records the call's current migration and moves on.
LEMMA CommitPassed ==
  ASSUME Inv, RowsKept, NEW p \in Procs, Commit(p)
  PROVE  Passed' /\ OkMeansApplied'
<1> USE DEF Goto, locals, server, Result
<1>1. /\ UNCHANGED <<files, parsed, res>> /\ pc[p] = "commit"
      /\ pc[p] \in Loop /\ pc'[p] \in Loop
      /\ \A q \in Procs \ {p} : UNCHANGED <<pc[q], idx[q]>>
      /\ idx'[p] = idx[p] + 1
  BY Zenon DEF Commit, Inv, Typed, TypeOK, Loop
<1>2. /\ idx[p] \in DOMAIN parsed[p] /\ This(p).version \in Versions
  BY <1>1, ThisIsMigration, Zenon DEF Inv, Typed, Placed, Loop
<1>3. rows'[This(p).version] = This(p).checksum
  BY <1>2, Zenon DEF Commit, Committed, Inv, Typed, TypeOK
<1>4. PassedBy(p)'
  BY <1>1, <1>2, <1>3, AdvancePassed, Zenon
<1>5. \A q \in Procs \ {p} : PassedBy(q)'
  BY <1>1, KeepsPassed, Zenon
<1>6. \A q \in Procs : OkBy(q)'
  BY <1>1, KeepsOk, Zenon
<1> QED
  BY <1>4, <1>5, <1>6, Zenon DEF Passed, OkMeansApplied, OkBy, Applied

\* A lost answer or a lost process only ends calls, with an error.
LEMMA LossPassed ==
  ASSUME Inv, RowsKept,
         \/ \E p \in Procs : CommitUnknown(p)
         \/ SessionDies \/ \E k \in Pools : PoolCrash(k)
  PROVE  Passed' /\ OkMeansApplied'
<1> USE DEF Goto, locals, server, Result
<1>1. UNCHANGED <<files, parsed, idx>>
  BY Zenon DEF CommitUnknown, SessionDies, PoolCrash
<1>2. \A q \in Procs : /\ pc'[q] = pc[q] \/ pc'[q] \in {"unlock", "done"}
                       /\ res'[q] = "ok" => res[q] = "ok"
  BY DEF CommitUnknown, SessionDies, PoolCrash, Inv, Typed, TypeOK
<1>3. \A q \in Procs : /\ pc'[q] \in Loop => pc[q] \in Loop
                       /\ pc'[q] \notin Loop \cup Past => pc[q] \notin Loop \cup Past
  BY <1>2, Zenon DEF Loop, Past
<1>4. \A q \in Procs : PassedBy(q)' /\ OkBy(q)'
  BY <1>1, <1>2, <1>3, KeepsPassed, KeepsOk, Zenon
<1> QED
  BY <1>4, Zenon DEF Passed, OkMeansApplied, OkBy, Applied

-----------------------------------------------------------------------------
(* The theorems *)

\* The invariant holds at first.
LEMMA InitInv ==
  ASSUME Init
  PROVE  Inv
<1> USE PgAssumption DEF Init
<1>1. \A p \in Procs : pc[p] \in {"ensure", "table"}
  BY Zenon
<1>2. pc \in [Procs -> {"ensure", "createdb", "table", "lock", "waiting",
                        "unlock", "return", "done"} \cup Critical]
  BY Zenon
<1>3. parsed \in [Procs -> Seq(Migration)]
  <2>1. <<>> \in Seq(Migration)
    OBVIOUS
  <2> QED
    BY <2>1, Zenon
<1>4. exists \in BOOLEAN
  <2>1. dep.create \in BOOLEAN
    BY Zenon DEF Deployment
  <2> QED
    BY <2>1, ZenonT(60)
<1>5. sess \in [Procs -> Sessions \cup {NoSession}] /\ res \in [Procs -> {"none", "ok", "error"}]
  BY Zenon
<1>6. /\ idx \in [Procs -> Nat \ {0}] /\ owner \in Sessions \cup {NoSession} /\ depth \in Nat
      /\ rows \in [Versions -> Checksums \cup {NoRow}] /\ effects \in [Versions -> Nat]
      /\ deaths \in Nat
  BY SMTT(60)
<1>7. TypeOK
  BY <1>2, <1>3, <1>4, <1>5, <1>6, Zenon DEF TypeOK
<1>8. Placed /\ CommitsFree /\ Passed
  BY <1>1, Zenon DEF Placed, CommitsFree, Passed, PassedBy, Loop, Past
<1>9. AppliedOnce /\ OkMeansApplied
  BY Zenon DEF AppliedOnce, OkMeansApplied
<1> QED
  BY <1>7, <1>8, <1>9, Zenon DEF Inv, Typed

\* Every step keeps the invariant.
LEMMA NextInv ==
  ASSUME Inv, [Next]_vars
  PROVE  Inv'
<1>1. CASE UNCHANGED vars
  BY ZenonT(60), <1>1 DEF vars, Inv, Typed, TypeOK, Placed, AppliedOnce, CommitsFree, Passed, PassedBy,
     OkMeansApplied, Applied, This
<1>2. CASE Next
  <2>1. Typed'
    BY <1>2, StepType, LossType, Zenon DEF Next, Inv
  <2>2. AppliedOnce' /\ CommitsFree' /\ RowsKept
    BY <1>2, StepRows, Zenon DEF RowsKept
  <2>3. Passed' /\ OkMeansApplied'
    <3>1. ASSUME NEW p \in Procs, Step(p) \/ StatementError(p)
          PROVE  Passed' /\ OkMeansApplied'
      BY <2>2, <3>1, PlainPassed, ReadPassed, CheckPassed, CommitPassed, Zenon
    <3> QED
      BY <1>2, <2>2, <3>1, LossPassed, Zenon DEF Next
  <2> QED
    BY <2>1, <2>2, <2>3, Zenon DEF Inv
<1> QED
  BY <1>1, <1>2, Zenon

\* The inductive invariant holds throughout.
THEOREM InvHolds == Spec => []Inv
<1>1. Init => Inv
  BY InitInv, Zenon
<1>2. Inv /\ [Next]_vars => Inv'
  BY NextInv, Zenon
<1> QED
  BY <1>1, <1>2, PTL DEF Spec

\* Every variable of the calls and of the server stays in its range, and the
\* advisory lock has an owner exactly while it is held.
THEOREM TypeCorrect == Spec => []TypeOK
<1>1. Inv => TypeOK
  BY Zenon DEF Inv, Typed
<1> QED
  BY <1>1, InvHolds, PTL

\* However many calls race through Migrate, on whatever sessions, the SQL of a
\* migration takes effect exactly as often as its row is recorded: once.
THEOREM AppliedOnceHolds == Spec => []AppliedOnce
<1>1. Inv => AppliedOnce
  BY Zenon DEF Inv
<1> QED
  BY <1>1, InvHolds, PTL

\* A call of Migrate that returns nil leaves every migration it embeds
\* recorded under the checksum it embeds.
THEOREM OkMeansAppliedHolds == Spec => []OkMeansApplied
<1>1. Inv => OkMeansApplied
  BY Zenon DEF Inv
<1> QED
  BY <1>1, InvHolds, PTL

\* A call never works on a migration before every lower version it embeds is
\* recorded.
THEOREM AppliedInOrderHolds == Spec => []AppliedInOrder
<1>1. Inv => AppliedInOrder
  <2> SUFFICES ASSUME Inv, NEW p \in Procs, pc[p] \in Loop, NEW m \in Range(files[p]),
                      idx[p] <= Len(parsed[p]), m.version < This(p).version
               PROVE  rows[m.version] = m.checksum
    BY Zenon DEF AppliedInOrder
  <2>1. /\ parsed[p] = sortMigrations(files[p]) /\ ~HasDuplicate(files[p])
        /\ \A i \in DOMAIN parsed[p] : i < idx[p] => Applied(parsed[p][i])
    BY Zenon DEF Inv, Passed, PassedBy
  <2>2. Ascending(parsed[p]) /\ Range(parsed[p]) = Range(files[p])
    <3>1. files[p] \in Seq(Migration)
      BY PgAssumption, Zenon DEF Inv, Typed, TypeOK
    <3> QED
      BY <2>1, <3>1, SortMigrationsSorts, Zenon
  <2>3. PICK i \in DOMAIN parsed[p] : m = parsed[p][i]
    BY <2>2, Zenon DEF Range
  <2>4. idx[p] \in DOMAIN parsed[p]
    BY ThisIsMigration, Zenon DEF Inv
  <2>5. /\ i \in Nat /\ idx[p] \in Nat
        /\ parsed[p][i].version \in Nat /\ parsed[p][idx[p]].version \in Nat
    <3>1. parsed[p] \in Seq(Migration) /\ idx[p] \in Nat
      BY Zenon DEF Inv, Typed, TypeOK
    <3>2. parsed[p][i] \in Migration /\ parsed[p][idx[p]] \in Migration
      BY <2>4, <3>1, SMTT(60)
    <3>3. i \in Nat
      BY <3>1, SMTT(60)
    <3>4. \A x \in Migration : x.version \in Nat
      BY PgAssumption, ZenonT(60) DEF Migration
    <3> QED
      BY <3>1, <3>2, <3>3, <3>4, Zenon
  <2>6. i < idx[p]
    <3>1. idx[p] < i => parsed[p][idx[p]].version < parsed[p][i].version
      BY <2>2, <2>4, Zenon DEF Ascending
    <3>2. parsed[p][i].version < parsed[p][idx[p]].version
      BY <2>3, Zenon DEF This
    <3>3. i # idx[p]
      <4> SUFFICES ASSUME i = idx[p] PROVE FALSE
        BY Zenon
      <4>1. parsed[p][i].version < parsed[p][i].version
        BY <3>2, Zenon
      <4> QED
        BY <2>5, <4>1, SMTT(60)
    <3>4. ~(idx[p] < i)
      BY <2>5, <3>1, <3>2, SMTT(60)
    <3> QED
      BY <2>5, <3>3, <3>4, SMTT(60)
  <2> QED
    BY <2>1, <2>3, <2>6, Zenon DEF Applied
<1> QED
  BY <1>1, InvHolds, PTL

-----------------------------------------------------------------------------
(* The advisory lock when every call has one session to itself *)

\* The session all statements of a call run on.
Own(p) == <<dep.pool[p], 1>>

\* The lock is held once, by the session of a call that has taken it and not
\* yet given it back; until a loss, whoever works on the migrations holds it.
Held ==
  /\ \A p \in Procs : sess[p] \in {NoSession, Own(p)}
  /\ owner = NoSession \/ \E p \in Procs : owner = Own(p)
  /\ \A p \in Procs : owner = Own(p) => pc[p] \in Critical \cup {"unlock"} /\ depth = 1
  /\ deaths = 0 => \A p \in Procs : pc[p] \in Critical => owner = Own(p)

\* A call's pool is its own session and nothing else.
LEMMA OwnSession ==
  ASSUME TypeOK, OneSession, NEW p \in Procs
  PROVE  /\ Own(p) \in Sessions /\ Own(p) # NoSession
         /\ PoolSessions(dep.pool[p]) = {Own(p)}
         /\ \A q \in Procs : Own(q) = Own(p) => q = p
<1>1. dep \in Deployment /\ dep.conns = 1
  BY PgAssumption, Zenon DEF TypeOK, OneSession
<1>2. dep.pool[p] \in Pools /\ 1 \in 1..MaxConns
  BY <1>1, PgAssumption, Zenon DEF Deployment
<1>3. Own(p) \in Sessions
  BY <1>2, Zenon DEF Own, Sessions
<1>4. \A s \in PoolSessions(dep.pool[p]) : s = Own(p)
  <2> SUFFICES ASSUME NEW s \in Sessions, s[1] = dep.pool[p], s[2] <= 1
               PROVE  s = Own(p)
    BY <1>1, Zenon DEF PoolSessions
  <2>1. s = <<s[1], s[2]>> /\ s[2] \in 1..MaxConns
    BY DEF Sessions
  <2>2. s[2] = 1
    BY <2>1, PgAssumption, SMTT(60)
  <2> QED
    BY <2>1, <2>2, Zenon DEF Own
<1>5. Own(p) \in PoolSessions(dep.pool[p])
  BY <1>1, <1>3, SMTT(60) DEF PoolSessions, Own
<1>6. \A q \in Procs : Own(q) = Own(p) => q = p
  BY Zenon DEF Own, OneSession
<1> QED
  BY <1>3, <1>4, <1>5, <1>6, PgAssumption, Zenon

\* An idle connection of a call is its own session.
LEMMA IdleOwn ==
  ASSUME TypeOK, OneSession, NEW p \in Procs, NEW s \in Idle(p)
  PROVE  s = Own(p)
BY OwnSession, Zenon DEF Idle

\* The steps of one call.
LEMMA StepHeld ==
  ASSUME Typed, OneSession, Held, NEW p \in Procs,
         Step(p) \/ CommitUnknown(p) \/ StatementError(p)
  PROVE  Held'
<1> USE DEF Goto, locals, server, Take, Release
<1>1. dep' = dep /\ deaths' = deaths
  BY Zenon DEF Step, CommitUnknown, StatementError, EnsureCheck, EnsureCreate, CreateTable,
         LockCall, LockGranted, ReadMigrations, CheckMigration, Begin, ExecSQL,
         InsertRow, Commit, Unlock, Return
<1>2. \A q \in Procs : Own(q)' = Own(q)
  BY <1>1, Zenon DEF Own
<1>3. \A q \in Procs : Own(q) # NoSession /\ (Own(q) = Own(p) => q = p)
  BY OwnSession, Zenon DEF Typed
<1>4. \A q \in Procs : sess'[q] \in {NoSession, Own(q)}
  <2>1. CASE LockCall(p) \/ Begin(p)
    BY <2>1, IdleOwn, ZenonT(60) DEF LockCall, Begin, Typed, TypeOK, Held
  <2>2. CASE sess' = sess \/ sess' = [sess EXCEPT ![p] = NoSession]
    BY <2>2, Zenon DEF Typed, TypeOK, Held
  <2>3. sess' = sess \/ sess' = [sess EXCEPT ![p] = NoSession] \/ LockCall(p) \/ Begin(p)
    BY Zenon DEF Step, CommitUnknown, StatementError, EnsureCheck, EnsureCreate, CreateTable,
           LockGranted, ReadMigrations, CheckMigration, ExecSQL, InsertRow, Commit,
           Unlock, Return
  <2> QED
    BY <2>1, <2>2, <2>3, Zenon
<1>5. \A q \in Procs \ {p} : pc'[q] = pc[q]
  BY ZenonT(60) DEF Step, CommitUnknown, StatementError, EnsureCheck, EnsureCreate, CreateTable,
         LockCall, LockGranted, ReadMigrations, CheckMigration, Begin, ExecSQL,
         InsertRow, Commit, Unlock, Return, Typed, TypeOK
<1> DEFINE Lock ==
      /\ owner' = NoSession \/ \E q \in Procs : owner' = Own(q)
      /\ \A q \in Procs : owner' = Own(q) => pc'[q] \in Critical \cup {"unlock"} /\ depth' = 1
      /\ deaths = 0 => \A q \in Procs : pc'[q] \in Critical => owner' = Own(q)
<1>6. Lock
  <2>1. CASE /\ UNCHANGED <<owner, depth>>
             /\ pc[p] \in Critical \cup {"unlock"} => pc'[p] \in Critical \cup {"unlock"}
             /\ pc'[p] \in Critical => pc[p] \in Critical
    <3>1. /\ owner' = owner /\ depth' = depth
          /\ \A q \in Procs : pc[q] \in Critical \cup {"unlock"} =>
                            pc'[q] \in Critical \cup {"unlock"}
          /\ \A q \in Procs : pc'[q] \in Critical => pc[q] \in Critical
      BY <1>5, <2>1, Zenon
    <3>2. owner' = NoSession \/ \E q \in Procs : owner' = Own(q)
      BY <3>1, Zenon DEF Held
    <3>3. \A q \in Procs : owner' = Own(q) => pc'[q] \in Critical \cup {"unlock"} /\ depth' = 1
      BY <3>1, Zenon DEF Held
    <3>4. deaths = 0 => \A q \in Procs : pc'[q] \in Critical => owner' = Own(q)
      BY <3>1, Zenon DEF Held
    <3> QED
      BY <3>2, <3>3, <3>4, Zenon
  <2>2. CASE EnsureCheck(p) \/ EnsureCreate(p) \/ CreateTable(p) \/ LockCall(p)
    <3>1. /\ pc[p] \notin Critical \cup {"unlock"} /\ pc'[p] \notin Critical
          /\ UNCHANGED <<owner, depth>>
      BY <2>2, ZenonT(60) DEF EnsureCheck, EnsureCreate, CreateTable, LockCall, Critical, Loop,
                  Typed, TypeOK
    <3> QED
      BY <2>1, <3>1, Zenon
  <2>3. CASE \/ ReadMigrations(p) \/ CheckMigration(p) \/ Begin(p) \/ ExecSQL(p)
             \/ InsertRow(p) \/ Commit(p) \/ CommitUnknown(p)
    <3>1. /\ pc[p] \in Critical /\ pc'[p] \in Critical \cup {"unlock"}
          /\ UNCHANGED <<owner, depth>>
      <4>1. CASE ReadMigrations(p) \/ CheckMigration(p)
        BY <4>1, Zenon DEF ReadMigrations, CheckMigration, Critical, Loop, Typed, TypeOK
      <4>2. CASE Begin(p) \/ ExecSQL(p) \/ InsertRow(p)
        BY <4>2, Zenon DEF Begin, ExecSQL, InsertRow, Critical, Loop, Typed, TypeOK
      <4>3. CASE Commit(p) \/ CommitUnknown(p)
        BY <4>3, Zenon DEF Commit, CommitUnknown, Critical, Loop, Typed, TypeOK
      <4> QED
        BY <2>3, <4>1, <4>2, <4>3, ZenonT(60)
    <3> QED
      BY <2>1, <3>1, Zenon
  <2>4. CASE LockGranted(p)
    <3>1. /\ pc[p] = "waiting" /\ pc[p] \notin Critical \cup {"unlock"}
          /\ pc'[p] = "read" /\ pc'[p] \in Critical
      BY <2>4, Zenon DEF LockGranted, Critical, Loop, Typed, TypeOK
    <3>2. sess[p] = Own(p)
      BY <3>1, PgAssumption, ZenonT(60) DEF Held, Typed, Placed
    <3>3. owner = NoSession /\ depth = 0
      BY <2>4, <3>1, <3>2, Zenon DEF LockGranted, Grantable, Held, Typed, TypeOK
    <3>4. owner' = Own(p) /\ depth' = 1
      BY <2>4, <3>2, <3>3, SMTT(60) DEF LockGranted
    <3>5. deaths = 0 => \A q \in Procs : pc[q] \notin Critical
      BY <1>3, <3>3, Zenon DEF Held
    <3> QED
      BY <1>3, <1>5, <3>1, <3>4, <3>5, Zenon
  <2>5. CASE Unlock(p)
    <3>1. pc[p] = "unlock" /\ pc'[p] = "return" /\ pc'[p] \notin Critical
      BY <2>5, Zenon DEF Unlock, Critical, Loop, Typed, TypeOK
    <3>2. Unlocked(Own(p))
      BY <2>5, IdleOwn, Zenon DEF Unlock, Typed
    <3>3. CASE owner = Own(p)
      <4>1. owner' = NoSession
        BY <3>2, <3>3, Zenon DEF Unlocked, Held
      <4>2. deaths = 0 => \A q \in Procs \ {p} : pc[q] \notin Critical
        BY <1>3, <3>3, Zenon DEF Held
      <4> QED
        BY <1>3, <1>5, <3>1, <4>1, <4>2, Zenon
    <3>4. CASE owner # Own(p)
      BY <1>5, <3>1, <3>2, <3>4, Zenon DEF Unlocked, Held
    <3> QED
      BY <3>3, <3>4, Zenon
  <2>6. CASE Return(p)
    <3>1. /\ pc[p] = "return" /\ pc[p] \notin Critical \cup {"unlock"}
          /\ pc'[p] = "done" /\ pc'[p] \notin Critical
      BY <2>6, Zenon DEF Return, Critical, Loop, Typed, TypeOK
    <3>2. owner # Own(p)
      BY <3>1, Zenon DEF Held
    <3>3. UNCHANGED <<owner, depth>>
      BY <2>6, <3>2, OwnSession, ZenonT(60) DEF Return, EndSessions, Typed
    <3> QED
      BY <2>1, <3>1, <3>3, Zenon
  <2>7. CASE StatementError(p)
    <3>1. /\ pc'[p] \notin Critical
          /\ pc[p] \in Critical \cup {"unlock"} => pc'[p] = "unlock"
      BY <2>7, Zenon DEF StatementError, Critical, Loop, Typed, TypeOK
    <3>2. CASE UNCHANGED <<owner, depth>>
      BY <2>1, <3>1, <3>2, Zenon
    <3>3. CASE ~UNCHANGED <<owner, depth>>
      <4>1. owner = sess[p] /\ owner' = NoSession /\ depth' = 0
        BY <2>7, <3>3, Zenon DEF StatementError, EndSessions
      <4>2. owner = Own(p)
        BY <3>3, <4>1, Zenon DEF Held, Typed, TypeOK
      <4>3. deaths = 0 => \A q \in Procs \ {p} : pc[q] \notin Critical
        BY <1>3, <4>2, Zenon DEF Held
      <4> QED
        BY <1>3, <1>5, <3>1, <4>1, <4>3, Zenon
    <3> QED
      BY <3>2, <3>3, Zenon
  <2> QED
    BY <2>2, <2>3, <2>4, <2>5, <2>6, <2>7, Zenon DEF Step
<1> QED
  BY <1>1, <1>2, <1>4, <1>6, Zenon DEF Held

\* A lost session or process.
LEMMA LossHeld ==
  ASSUME Typed, OneSession, Held, SessionDies \/ \E k \in Pools : PoolCrash(k)
  PROVE  Held'
<1> USE DEF locals
<1>1. dep' = dep /\ deaths' # 0
  BY DEF SessionDies, PoolCrash, Typed, TypeOK
<1>2. \A q \in Procs : Own(q)' = Own(q) /\ Own(q) # NoSession
  BY <1>1, OwnSession, Zenon DEF Own, Typed
<1>3. CASE SessionDies
  BY <1>1, <1>2, <1>3, Zenon DEF SessionDies, EndSessions, Held
<1>4. ASSUME NEW k \in Pools, PoolCrash(k)
      PROVE  Held'
  <2>1. \A q \in Procs : sess'[q] \in {NoSession, Own(q)}
    BY <1>4, Zenon DEF PoolCrash, Held
  <2>2. \A q \in Procs : dep.pool[q] # k => pc'[q] = pc[q]
    BY <1>4, ZenonT(60) DEF PoolCrash
  <2>3. owner' = NoSession \/ (UNCHANGED <<owner, depth>> /\ owner \notin PoolSessions(k))
    BY <1>4, Zenon DEF PoolCrash, EndSessions
  <2>4. \A q \in Procs : dep.pool[q] = k => Own(q) \in PoolSessions(k)
    BY OwnSession, Zenon DEF Typed
  <2> QED
    BY <1>1, <1>2, <2>1, <2>2, <2>3, <2>4, SMTT(60) DEF Held
<1> QED
  BY <1>3, <1>4, Zenon

\* When every call has a pool of one connection to itself, the advisory lock
\* taken and released through the pool excludes the calls from each other until
\* a session is lost, and no call leaves it behind.
THEOREM OneSessionExcludesHolds == Spec => []OneSessionExcludes
<1> DEFINE Excl == OneSession => Held
<1>1. Init => Excl
  <2> SUFFICES ASSUME Init, OneSession PROVE Held
    BY Zenon
  <2>1. \A p \in Procs : pc[p] \notin Critical
    BY Zenon DEF Init, Critical, Loop
  <2>2. \A p \in Procs : Own(p) # NoSession
    BY InitInv, OwnSession, Zenon DEF Inv, Typed
  <2> QED
    BY <2>1, <2>2, Zenon DEF Init, Held
<1>2. Inv /\ Excl /\ [Next]_vars => Excl'
  <2> SUFFICES ASSUME Inv, Excl, [Next]_vars, OneSession' PROVE Held'
    BY Zenon
  <2>1. dep' = dep
    BY ZenonT(60) DEF vars, locals, Next, Step, CommitUnknown, StatementError, EnsureCheck, EnsureCreate,
           CreateTable, LockCall, LockGranted, ReadMigrations, CheckMigration, Begin,
           ExecSQL, InsertRow, Commit, Unlock, Return, SessionDies, PoolCrash
  <2>2. OneSession /\ Held
    BY <2>1, Zenon DEF OneSession
  <2>3. CASE Next
    BY <2>2, <2>3, StepHeld, LossHeld, Zenon DEF Next, Inv
  <2>4. CASE UNCHANGED vars
    BY ZenonT(60), <2>2, <2>4 DEF vars, Held, Own
  <2> QED
    BY <2>3, <2>4, Zenon
<1>3. Inv /\ Excl => OneSessionExcludes
  <2> SUFFICES ASSUME Inv, Held, OneSession
               PROVE  /\ deaths = 0 => MutualExclusion
                      /\ (\A p \in Procs : pc[p] = "done") => owner = NoSession
    BY Zenon DEF OneSessionExcludes
  <2>1. deaths = 0 => MutualExclusion
    BY OwnSession, Zenon DEF MutualExclusion, Held, Inv, Typed
  <2>2. (\A p \in Procs : pc[p] = "done") => owner = NoSession
    BY Zenon DEF Held, Critical, Loop
  <2> QED
    BY <2>1, <2>2, Zenon
<1> QED
  BY <1>1, <1>2, <1>3, InvHolds, PTL DEF Spec

=============================================================================
