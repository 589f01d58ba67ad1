---------------------------- MODULE PlaceJobProofs ----------------------------
(* What holds of PlaceJob for every cluster, policy, set of reservations and *)
(* kinds of jobs: its types, that a job is placed only where it can start,   *)
(* and that the answers of the table and of a dry run are the right ones.    *)
EXTENDS PlaceJob, PolicyTableProofs

-----------------------------------------------------------------------------
(* Sums of what jobs have on a node.                                         *)
Spread(js) == \A j \in js : j.at \in Allocations

(* They are naturals.                                                        *)
LEMMA SizesOn ==
    ASSUME NEW n \in Nodes, NEW js, IsFiniteSet(js), Spread(js)
    PROVE  CpusOn(n, js) \in Nat /\ MemOn(n, js) \in Nat
  <1> DEFINE c == [j \in js |-> j.at[n].cpus]
             m == [j \in js |-> j.at[n].mem]
  <1>1. CpusOn(n, js) = Sum(c, js) /\ MemOn(n, js) = Sum(m, js)
    BY DEF CpusOn, MemOn, SumFunction, Sum
  <1>2. \A j \in js : c[j] \in Nat /\ m[j] \in Nat
    BY DEF Spread, Allocations, Shapes
  <1>3. Sum(c, js) \in Nat /\ Sum(m, js) \in Nat
    <2> HIDE DEF c, m
    <2> QED
      BY <1>2, SumNat
  <1> QED
    BY <1>1, <1>3

(* Fewer jobs have less.                                                     *)
LEMMA SizesOnFewer ==
    ASSUME NEW n \in Nodes, NEW js, IsFiniteSet(js), Spread(js), NEW ks, ks \subseteq js
    PROVE  /\ IsFiniteSet(ks) /\ Spread(ks)
           /\ CpusOn(n, ks) <= CpusOn(n, js) /\ MemOn(n, ks) <= MemOn(n, js)
  <1> DEFINE c == [j \in js |-> j.at[n].cpus]
             m == [j \in js |-> j.at[n].mem]
             d == [j \in ks |-> j.at[n].cpus]
             e == [j \in ks |-> j.at[n].mem]
  <1>1. /\ CpusOn(n, js) = Sum(c, js) /\ MemOn(n, js) = Sum(m, js)
        /\ CpusOn(n, ks) = Sum(d, ks) /\ MemOn(n, ks) = Sum(e, ks)
    BY DEF CpusOn, MemOn, SumFunction, Sum
  <1>2. /\ \A j \in js : c[j] \in Nat /\ m[j] \in Nat
        /\ \A j \in ks : d[j] \in Int /\ e[j] \in Int /\ d[j] <= c[j] /\ e[j] <= m[j]
    BY DEF Spread, Allocations, Shapes
  <1>3. Sum(d, ks) <= Sum(c, js) /\ Sum(e, ks) <= Sum(m, js)
    <2> HIDE DEF c, m, d, e
    <2> QED
      BY <1>2, SumLeq
  <1>4. IsFiniteSet(ks) /\ Spread(ks)
    BY FS_Subset DEF Spread
  <1> QED
    BY <1>1, <1>3, <1>4

(* Jobs that are not the same have as much together as apart.                *)
LEMMA SizesOnApart ==
    ASSUME NEW n \in Nodes, NEW js, IsFiniteSet(js), Spread(js),
           NEW ks, IsFiniteSet(ks), Spread(ks), js \cap ks = {}
    PROVE  /\ IsFiniteSet(js \cup ks) /\ Spread(js \cup ks)
           /\ CpusOn(n, js \cup ks) = CpusOn(n, js) + CpusOn(n, ks)
           /\ MemOn(n, js \cup ks) = MemOn(n, js) + MemOn(n, ks)
  <1> DEFINE all == js \cup ks
             c == [j \in all |-> j.at[n].cpus]
             m == [j \in all |-> j.at[n].mem]
             cj == [j \in js |-> j.at[n].cpus]
             mj == [j \in js |-> j.at[n].mem]
             ck == [j \in ks |-> j.at[n].cpus]
             mk == [j \in ks |-> j.at[n].mem]
  <1>1. /\ CpusOn(n, all) = Sum(c, all) /\ MemOn(n, all) = Sum(m, all)
        /\ CpusOn(n, js) = Sum(cj, js) /\ MemOn(n, js) = Sum(mj, js)
        /\ CpusOn(n, ks) = Sum(ck, ks) /\ MemOn(n, ks) = Sum(mk, ks)
    BY DEF CpusOn, MemOn, SumFunction, Sum
  <1>2. /\ \A j \in js \cup ks : c[j] \in Nat /\ m[j] \in Nat
        /\ \A j \in js : cj[j] \in Nat /\ cj[j] = c[j] /\ mj[j] \in Nat /\ mj[j] = m[j]
        /\ \A j \in ks : ck[j] \in Nat /\ ck[j] = c[j] /\ mk[j] \in Nat /\ mk[j] = m[j]
    BY DEF Spread, Allocations, Shapes
  <1>3. all = js \cup ks
    OBVIOUS
  <1> HIDE DEF all, c, m, cj, mj, ck, mk
  <1>4. Sum(c, js \cup ks) = Sum(c, js) + Sum(c, ks) /\ Sum(m, js \cup ks) = Sum(m, js) + Sum(m, ks)
    BY <1>2, SumUnion
  <1>5. /\ Sum(cj, js) = Sum(c, js) /\ Sum(mj, js) = Sum(m, js)
        /\ Sum(ck, ks) = Sum(c, ks) /\ Sum(mk, ks) = Sum(m, ks)
    BY <1>2, SumSame
  <1>6. IsFiniteSet(js \cup ks) /\ Spread(js \cup ks)
    BY FS_Union DEF Spread
  <1> QED
    BY <1>1, <1>3, <1>4, <1>5, <1>6

(* One more job adds at most what it has there.                              *)
LEMMA SizesOnMore ==
    ASSUME NEW n \in Nodes, NEW js, IsFiniteSet(js), Spread(js), NEW j, j.at \in Allocations
    PROVE  /\ IsFiniteSet(js \cup {j}) /\ Spread(js \cup {j})
           /\ CpusOn(n, js \cup {j}) <= CpusOn(n, js) + j.at[n].cpus
           /\ MemOn(n, js \cup {j}) <= MemOn(n, js) + j.at[n].mem
  <1>1. j.at[n].cpus \in Nat /\ j.at[n].mem \in Nat
    BY DEF Allocations, Shapes
  <1>2. CpusOn(n, js) \in Nat /\ MemOn(n, js) \in Nat
    BY SizesOn
  <1>3. CASE j \in js
    <2> DEFINE ks == js \cup {j}
    <2>1. ks = js
      BY <1>3
    <2>2. /\ IsFiniteSet(ks) /\ Spread(ks)
          /\ CpusOn(n, ks) = CpusOn(n, js) /\ MemOn(n, ks) = MemOn(n, js)
      <3> HIDE DEF ks
      <3> QED
        BY <2>1
    <2> QED
      BY <1>1, <1>2, <2>2
  <1>4. CASE j \notin js
    <2>1. IsFiniteSet({j}) /\ Spread({j}) /\ js \cap {j} = {}
      BY <1>4, FS_Singleton DEF Spread
    <2>2. CpusOn(n, {j}) = j.at[n].cpus /\ MemOn(n, {j}) = j.at[n].mem
      <3> DEFINE c == [k \in {j} |-> k.at[n].cpus]
                 m == [k \in {j} |-> k.at[n].mem]
      <3>1. c[j] = j.at[n].cpus /\ m[j] = j.at[n].mem
        OBVIOUS
      <3>2. CpusOn(n, {j}) = Sum(c, {j}) /\ MemOn(n, {j}) = Sum(m, {j})
        BY DEF CpusOn, MemOn, SumFunction, Sum
      <3> HIDE DEF c, m
      <3>3. Sum(c, {j}) = c[j] + Sum(c, {j} \ {j}) /\ Sum(m, {j}) = m[j] + Sum(m, {j} \ {j})
        BY <1>1, <2>1, <3>1, SumTake
      <3>4. {j} \ {j} = {}
        OBVIOUS
      <3> QED
        BY <1>1, <3>1, <3>2, <3>3, <3>4, SumEmpty
    <2>3. /\ IsFiniteSet(js \cup {j}) /\ Spread(js \cup {j})
          /\ CpusOn(n, js \cup {j}) = CpusOn(n, js) + CpusOn(n, {j})
          /\ MemOn(n, js \cup {j}) = MemOn(n, js) + MemOn(n, {j})
      BY <2>1, SizesOnApart
    <2> QED
      BY <1>1, <1>2, <2>2, <2>3
  <1> QED
    BY <1>3, <1>4

(* Sums of CPUs, and of the sizes that the data has of reservations.         *)
Sized(rs) == \A r \in rs : r.cpus \in Nat /\ r.mem \in Nat

(* CPUs add up to naturals.                                                  *)
LEMMA CpusOfNat ==
    ASSUME NEW js, IsFiniteSet(js), \A j \in js : j.cpus \in Nat
    PROVE  CpusOf(js) \in Nat
  <1> DEFINE c == [j \in js |-> j.cpus]
  <1>1. CpusOf(js) = Sum(c, js) /\ \A j \in js : c[j] \in Nat
    BY DEF CpusOf, SumFunction, Sum
  <1> HIDE DEF c
  <1> QED
    BY <1>1, SumNat

(* They are naturals, and fewer reservations have less.                      *)
LEMMA SharesOfFewer ==
    ASSUME NEW rs, IsFiniteSet(rs), Sized(rs), NEW qs, qs \subseteq rs
    PROVE  /\ IsFiniteSet(qs) /\ Sized(qs)
           /\ SharesOf(rs).cpus \in Nat /\ SharesOf(rs).mem \in Nat
           /\ SharesOf(qs).cpus \in Nat /\ SharesOf(qs).mem \in Nat
           /\ SharesOf(qs).cpus <= SharesOf(rs).cpus
  <1> DEFINE c == [r \in rs |-> r.cpus]
             m == [r \in rs |-> r.mem]
             d == [r \in qs |-> r.cpus]
             e == [r \in qs |-> r.mem]
  <1>1. /\ SharesOf(rs).cpus = Sum(c, rs) /\ SharesOf(rs).mem = Sum(m, rs)
        /\ SharesOf(qs).cpus = Sum(d, qs) /\ SharesOf(qs).mem = Sum(e, qs)
    BY DEF SharesOf, SumFunction, Sum
  <1>2. /\ \A r \in rs : c[r] \in Nat /\ m[r] \in Nat
        /\ \A r \in qs : d[r] \in Nat /\ e[r] \in Nat /\ d[r] <= c[r]
    BY DEF Sized
  <1>3. IsFiniteSet(qs) /\ Sized(qs)
    BY FS_Subset DEF Sized
  <1> HIDE DEF c, m, d, e
  <1>4. /\ Sum(c, rs) \in Nat /\ Sum(m, rs) \in Nat /\ Sum(d, qs) \in Nat /\ Sum(e, qs) \in Nat
        /\ Sum(d, qs) <= Sum(c, rs)
    BY <1>2, <1>3, SumNat, SumLeq
  <1> QED
    BY <1>1, <1>3, <1>4

-----------------------------------------------------------------------------
(* Reservations: what one takes of a node is a natural number of CPUs, and   *)
(* of memory.                                                                *)
LEMMA Quotients ==
    ASSUME NEW a \in Nat, NEW b \in Nat, b > 0
    PROVE  a \div b \in Nat
  OBVIOUS

(* A share of the memory is natural.                                         *)
LEMMA MemShareNat ==
    ASSUME NEW n \in Nodes, NEW cpus \in Nat
    PROVE  MemShare(n, cpus) \in Nat
  <1> DEFINE a == cpus * Total[n].mem
             b == Total[n].cpus
  <1>1. Total[n].mem \in Nat /\ b \in Nat /\ b > 0
    BY NodeShape
  <1>2. a \in Nat
    BY <1>1, Products
  <1>3. a \div b \in Nat
    <2> HIDE DEF a, b
    <2> QED
      BY <1>1, <1>2, Quotients
  <1> QED
    BY <1>3 DEF MemShare

(* So is what a reservation takes.                                           *)
LEMMA ReservedNat ==
    ASSUME NEW n \in Nodes, NEW r \in ReservationsOf(n)
    PROVE  /\ ReservedCpus(r, n) \in Nat /\ MemShare(n, ReservedCpus(r, n)) \in Nat
           /\ r \in Reservations /\ r.start \in Nat /\ r.end \in Nat /\ r.name \in Names
  <1>1. /\ r \in Reservations /\ r.start \in Nat /\ r.end \in Nat /\ r.name \in Names
        /\ r.nodes[n] \in Nat \cup {Whole} /\ Threads \in Nat
    BY TimeAssumption DEF ReservationsOf, Names
  <1> DEFINE a == Total[n].cpus
             b == r.nodes[n] * Threads
  <1>2. a \in Nat
    BY NodeShape
  <1>3. ReservedCpus(r, n) \in Nat
    <2>1. CASE r.nodes[n] = Whole
      BY <1>2, <2>1 DEF ReservedCpus
    <2>2. CASE r.nodes[n] # Whole
      <3>1. b \in Nat
        BY <1>1, <2>2, Products
      <3>2. Min({a, b}) \in Nat
        <4> HIDE DEF a, b
        <4> QED
          BY <1>2, <3>1, MinOfTwo
      <3> QED
        BY <2>2, <3>2 DEF ReservedCpus
    <2> QED
      BY <2>1, <2>2
  <1> QED
    BY <1>1, <1>3, MemShareNat

(* Fewer reservations take less.                                             *)
LEMMA FewerReservations ==
    ASSUME NEW n \in Nodes, NEW R, R \subseteq ReservationsOf(n), NEW Q, Q \subseteq R
    PROVE  /\ IsFiniteSet(R) /\ IsFiniteSet(Q)
           /\ Reserved(n, R) \in Nat /\ Reserved(n, Q) \in Nat /\ Reserved(n, Q) <= Reserved(n, R)
  <1> DEFINE v == [r \in R |-> ReservedCpus(r, n)]
             w == [r \in Q |-> ReservedCpus(r, n)]
  <1>1. IsFiniteSet(R) /\ IsFiniteSet(Q)
    <2>1. R \subseteq Reservations /\ IsFiniteSet(Reservations)
      BY TimeAssumption DEF ReservationsOf
    <2> QED
      BY <2>1, FS_Subset
  <1>2. /\ \A r \in R : v[r] \in Nat
        /\ \A r \in Q : w[r] \in Nat /\ w[r] <= v[r]
    BY ReservedNat
  <1>3. Reserved(n, R) = Sum(v, R) /\ Reserved(n, Q) = Sum(w, Q)
    BY DEF Reserved, SumFunction, Sum
  <1> HIDE DEF v, w
  <1>4. Sum(v, R) \in Nat /\ Sum(w, Q) \in Nat /\ Sum(w, Q) <= Sum(v, R)
    BY <1>1, <1>2, SumNat, SumLeq
  <1> QED
    BY <1>1, <1>3, <1>4

(* Reservations that are not the same take as much together as apart.        *)
LEMMA ReservationsApart ==
    ASSUME NEW n \in Nodes, NEW R, R \subseteq ReservationsOf(n),
           NEW Q, Q \subseteq ReservationsOf(n), R \cap Q = {}
    PROVE  Reserved(n, R \cup Q) = Reserved(n, R) + Reserved(n, Q)
  <1> DEFINE u == [r \in R \cup Q |-> ReservedCpus(r, n)]
             v == [r \in R |-> ReservedCpus(r, n)]
             w == [r \in Q |-> ReservedCpus(r, n)]
  <1>1. IsFiniteSet(R) /\ IsFiniteSet(Q)
    BY FewerReservations
  <1>2. /\ \A r \in R : v[r] \in Nat /\ v[r] = u[r]
        /\ \A r \in Q : w[r] \in Nat /\ w[r] = u[r]
        /\ \A r \in R \cup Q : u[r] \in Nat
    BY ReservedNat
  <1>3. /\ Reserved(n, R \cup Q) = Sum(u, R \cup Q)
        /\ Reserved(n, R) = Sum(v, R) /\ Reserved(n, Q) = Sum(w, Q)
    BY DEF Reserved, SumFunction, Sum
  <1> HIDE DEF u, v, w
  <1>4. Sum(u, R \cup Q) = Sum(u, R) + Sum(u, Q)
    BY <1>1, <1>2, SumUnion
  <1>5. Sum(v, R) = Sum(u, R) /\ Sum(w, Q) = Sum(u, Q)
    BY <1>1, <1>2, SumSame
  <1> QED
    BY <1>3, <1>4, <1>5

(* What sjpd keeps of a reservation still to come.  It tells reservations    *)
(* apart, by the name.                                                       *)
Kept(r, n) == [name |-> r.name, start |-> r.start, cpus |-> ReservedCpus(r, n),
               mem |-> MemShare(n, ReservedCpus(r, n))]
KeptOf(n) == [r \in ReservationsOf(n) |-> Kept(r, n)]
StillToCome(n, a) == {r \in ReservationsOf(n) : r.start > a}

(* The reservations of a node that have not begun are finitely many, with    *)
(* sizes that add up.                                                        *)
LEMMA LaterRecords ==
    ASSUME NEW n \in Nodes, NEW a
    PROVE  /\ LaterSince(a)[n] = Image(KeptOf(n), StillToCome(n, a))
           /\ IsFiniteSet(StillToCome(n, a)) /\ StillToCome(n, a) \subseteq ReservationsOf(n)
           /\ IsFiniteSet(LaterSince(a)[n]) /\ LaterSince(a)[n] \subseteq Later
           /\ Sized(LaterSince(a)[n])
  <1>1. IsFiniteSet(StillToCome(n, a)) /\ StillToCome(n, a) \subseteq ReservationsOf(n)
    BY FewerReservations DEF StillToCome
  <1>2. LaterSince(a)[n] = {KeptOf(n)[r] : r \in StillToCome(n, a)}
    <2>1. LaterSince(a)[n] = {Kept(r, n) : r \in StillToCome(n, a)}
      BY DEF LaterSince, StillToCome, Kept
    <2>2. \A r \in StillToCome(n, a) : KeptOf(n)[r] = Kept(r, n)
      BY <1>1 DEF KeptOf
    <2> QED
      BY <2>1, <2>2
  <1>3. LaterSince(a)[n] = Image(KeptOf(n), StillToCome(n, a))
    BY <1>2 DEF Image
  <1>4. IsFiniteSet(LaterSince(a)[n])
    BY <1>1, <1>3, FiniteImage
  <1>5. \A r \in ReservationsOf(n) : KeptOf(n)[r] \in Later
    BY ReservedNat DEF Later, KeptOf, Kept
  <1>6. LaterSince(a)[n] \subseteq Later
    BY <1>1, <1>2, <1>5
  <1> QED
    BY <1>1, <1>3, <1>4, <1>6 DEF Sized, Later

(* They are of the type the poll records.                                    *)
LEMMA LaterType ==
    ASSUME NEW a
    PROVE  LaterSince(a) \in [Nodes -> SUBSET Later]
  <1>1. LaterSince(a) = [n \in Nodes |-> LaterSince(a)[n]]
    BY DEF LaterSince
  <1>2. \A n \in Nodes : LaterSince(a)[n] \in SUBSET Later
    BY LaterRecords
  <1> QED
    BY <1>1, <1>2

(* ... and of several reservations together as much as they reserve.         *)
LEMMA LaterSizes ==
    ASSUME NEW n \in Nodes, NEW a, NEW R, R \subseteq StillToCome(n, a)
    PROVE  /\ Image(KeptOf(n), R) \subseteq LaterSince(a)[n]
           /\ SharesOf(Image(KeptOf(n), R)).cpus = Reserved(n, R)
  <1> DEFINE f == KeptOf(n)
             I == Image(f, R)
             v == [r \in R |-> ReservedCpus(r, n)]
             w == [x \in I |-> x.cpus]
  <1>1. R \subseteq ReservationsOf(n) /\ IsFiniteSet(R) /\ I \subseteq LaterSince(a)[n]
    BY LaterRecords, FS_Subset DEF Image
  <1>2. \A x \in R : f[x] \in I
    BY DEF Image
  <1>3. /\ \A x, y \in R : f[x] = f[y] => x = y
        /\ \A x \in R : v[x] \in Nat /\ w[f[x]] = v[x]
    BY <1>1, <1>2, ReservedNat, TimeAssumption DEF KeptOf, Kept
  <1>4. Sum(w, I) = Sum(v, R)
    <2> HIDE DEF v, w, f
    <2> QED
      BY <1>1, <1>3, SumRenamed
  <1>5. SharesOf(I).cpus = Sum(w, I) /\ Reserved(n, R) = Sum(v, R)
    BY DEF SharesOf, Reserved, SumFunction, Sum
  <1> QED
    BY <1>1, <1>4, <1>5

-----------------------------------------------------------------------------
(* The jobs that run, and those of reservations among them.                  *)
LEMMA SomeRunning ==
    ASSUME TypeOK, JobsCounted, NEW js, js \subseteq running
    PROVE  IsFiniteSet(js) /\ Spread(js) /\ CpusOf(js) \in Nat
  <1>1. IsFiniteSet(js) /\ Spread(js) /\ \A j \in js : j.cpus \in Nat
    BY FS_Subset DEF TypeOK, JobsCounted, Spread, Running
  <1> QED
    BY <1>1, CpusOfNat

(* The jobs of some reservations of a node have no more CPUs there than is   *)
(* reserved.                                                                 *)
LEMMA ReservedJobs ==
    ASSUME TypeOK, JobsCounted, ReservationsKept, NEW n \in Nodes,
           NEW R, R \subseteq ReservationsOf(n), NEW js, js \subseteq running
    PROVE  CpusOn(n, JobsOf(js, R)) <= Reserved(n, R)
  <1> DEFINE T == JobsOf(running, R)
             part == [r \in R |-> JobsOf(running, {r})]
             v == [j \in T |-> j.at[n].cpus]
             total == [r \in R |-> CpusOn(n, part[r])]
             resv == [r \in R |-> ReservedCpus(r, n)]
  <1>1. R \subseteq Reservations /\ IsFiniteSet(R)
    BY FewerReservations DEF ReservationsOf
  <1>2. T \subseteq running /\ IsFiniteSet(T) /\ Spread(T)
    <2>1. T \subseteq running
      BY DEF JobsOf
    <2> QED
      BY <2>1, SomeRunning
  <1>3. \A r \in R : part[r] \subseteq T
    BY DEF JobsOf
  <1>4. \A r, s \in R : r # s => part[r] \cap part[s] = {}
    BY <1>1, TimeAssumption DEF JobsOf
  <1>5. UNION {part[r] : r \in R} = T
    BY DEF JobsOf
  <1>6. \A j \in T : v[j] \in Nat
    BY <1>2 DEF Spread, Allocations, Shapes
  <1>7. ASSUME NEW r \in R
        PROVE  total[r] = Sum(v, part[r]) /\ total[r] \in Nat /\ total[r] <= resv[r] /\ resv[r] \in Nat
    <2> DEFINE w == [j \in part[r] |-> j.at[n].cpus]
    <2>1. total[r] = Sum(w, part[r])
      BY DEF CpusOn, SumFunction, Sum
    <2>2. part[r] \subseteq T /\ part[r] \subseteq running /\ IsFiniteSet(part[r]) /\ Spread(part[r])
      BY <1>2, <1>3, SomeRunning
    <2>3. \A j \in part[r] : w[j] \in Nat /\ w[j] = v[j]
      BY <1>6, <2>2
    <2>4. Sum(w, part[r]) = Sum(v, part[r])
      <3> HIDE DEF part, w, v
      <3> QED
        BY <2>2, <2>3, SumSame
    <2>5. CpusOn(n, part[r]) \in Nat
      <3> HIDE DEF part
      <3> QED
        BY <2>2, SizesOn
    <2>6. CpusOn(n, part[r]) <= ReservedCpus(r, n)
      <3>1. n \in DOMAIN r.nodes /\ JobsKeepTo(r)
        BY <1>1 DEF ReservationsKept, ReservationsOf
      <3> QED
        BY <3>1 DEF JobsKeepTo
    <2>7. ReservedCpus(r, n) \in Nat
      BY ReservedNat
    <2> QED
      BY <2>1, <2>4, <2>5, <2>6, <2>7
  <1>8. CpusOn(n, T) = Sum(v, T) /\ Reserved(n, R) = Sum(resv, R)
    BY DEF CpusOn, Reserved, SumFunction, Sum
  <1>9. CpusOn(n, JobsOf(js, R)) <= CpusOn(n, T)
    <2>1. JobsOf(js, R) \subseteq T
      BY DEF JobsOf
    <2> QED
      BY <1>2, <2>1, SizesOnFewer
  <1>10. CpusOn(n, JobsOf(js, R)) \in Nat /\ CpusOn(n, T) \in Nat
    <2>1. JobsOf(js, R) \subseteq T
      BY DEF JobsOf
    <2>2. IsFiniteSet(JobsOf(js, R)) /\ Spread(JobsOf(js, R))
      BY <1>2, <2>1, SizesOnFewer
    <2> QED
      BY <1>2, <2>2, SizesOn
  <1> HIDE DEF T, part, v, total, resv
  <1>11. Sum(total, R) = Sum(v, T)
    <2>1. Sum(total, R) = Sum(v, UNION {part[x] : x \in R})
      BY <1>1, <1>2, <1>3, <1>4, <1>6, <1>7, SumOfParts
    <2> QED
      BY <1>5, <2>1
  <1>12. Sum(total, R) <= Sum(resv, R) /\ Sum(resv, R) \in Nat
    BY <1>1, <1>7, SumLeq, SumNat
  <1> QED
    BY <1>8, <1>9, <1>10, <1>11, <1>12

(* The jobs that are theirs and those that are not.                          *)
LEMMA OwnAndReserved ==
    ASSUME TypeOK, JobsCounted, NEW js, js \subseteq running, NEW n \in Nodes, NEW R
    PROVE  /\ CpusOn(n, js) = CpusOn(n, js \ JobsOf(js, R)) + CpusOn(n, JobsOf(js, R))
           /\ CpusOn(n, js \ JobsOf(js, R)) \in Nat /\ CpusOn(n, JobsOf(js, R)) \in Nat
  <1> DEFINE A == js \ JobsOf(js, R)
             B == JobsOf(js, R)
  <1>1. A \cup B = js /\ A \cap B = {} /\ A \subseteq running /\ B \subseteq running
    BY DEF JobsOf
  <1> HIDE DEF A, B
  <1>2. IsFiniteSet(A) /\ Spread(A) /\ IsFiniteSet(B) /\ Spread(B)
    BY <1>1, SomeRunning
  <1>3. CpusOn(n, A \cup B) = CpusOn(n, A) + CpusOn(n, B)
    BY <1>1, <1>2, SizesOnApart
  <1>4. CpusOn(n, A) \in Nat /\ CpusOn(n, B) \in Nat
    BY <1>2, SizesOn
  <1> QED
    BY <1>1, <1>3, <1>4 DEF A, B

-----------------------------------------------------------------------------
(* The room a job can count on.                                              *)
Before(later, n, limit) == {r \in later[n] : limit = NoLimit \/ r.start < now + limit}

(* The room found for a job is there, with the reservations that begin       *)
(* before it may end counted.                                                *)
LEMMA RoomBefore ==
    ASSUME NEW free, Within(free), NEW n \in Nodes, NEW later, NEW limit, NEW job,
           job.cpus \in Nat \ {0}, job.mem \in Nat \ {0},
           IsFiniteSet(Before(later, n, limit)), Sized(Before(later, n, limit)),
           Holds(free_of(free, later, now, limit, n), job)
    PROVE  /\ job.cpus + SharesOf(Before(later, n, limit)).cpus <= free[n].cpus
           /\ job.mem + SharesOf(Before(later, n, limit)).mem <= free[n].mem
           /\ Holds(free[n], job)
  <1> DEFINE S == Before(later, n, limit)
             c == free[n].cpus - SharesOf(S).cpus
             m == free[n].mem - SharesOf(S).mem
  <1>1. SharesOf(S).cpus \in Nat /\ SharesOf(S).mem \in Nat
    BY SharesOfFewer
  <1>2. free[n].cpus \in Nat /\ free[n].mem \in Nat
    BY DEF Within, Shapes
  <1>3. free_of(free, later, now, limit, n) = AtLeastZero(Minus(free[n], SharesOf(S)))
    BY DEF free_of, Before
  <1>4. Max({0, c}) >= job.cpus /\ Max({0, m}) >= job.mem
    BY <1>3 DEF Holds, AtLeastZero, Minus
  <1>5. c \in Int /\ m \in Int
    BY <1>1, <1>2
  <1>6. c >= job.cpus /\ m >= job.mem
    <2> HIDE DEF c, m
    <2> QED
      BY <1>4, <1>5, MaxOfTwo
  <1> QED
    BY <1>1, <1>2, <1>6 DEF Holds

(* A moment at which the job may still run.                                  *)
LEMMA Moments ==
    ASSUME TypeOK, NEW limit \in Limits, NEW t \in now .. Min({EndOf(limit) - 1, MaxNow})
    PROVE  /\ now \in Nat /\ t \in Nat /\ now <= t /\ t <= MaxNow
           /\ limit # NoLimit => limit \in Nat /\ t < now + limit
  <1> DEFINE e == EndOf(limit) - 1
  <1>1. /\ now \in Nat /\ MaxNow \in Nat
        /\ limit # NoLimit => limit \in Nat
    BY TimeAssumption DEF TypeOK, Limits
  <1>2. e \in Int /\ (limit # NoLimit => e = now + limit - 1)
    BY <1>1 DEF EndOf
  <1>3. t \in now .. (IF e <= MaxNow THEN e ELSE MaxNow)
    <2>1. t \in now .. Min({e, MaxNow})
      OBVIOUS
    <2> HIDE DEF e
    <2> QED
      BY <1>1, <1>2, <2>1, MinOfTwo
  <1> HIDE DEF e
  <1> QED
    BY <1>1, <1>2, <1>3

(* It may run at this moment.                                                *)
LEMMA ThisMoment ==
    ASSUME TypeOK, NEW limit \in Limits
    PROVE  now \in now .. Min({EndOf(limit) - 1, MaxNow})
  <1> DEFINE e == EndOf(limit) - 1
  <1>1. now \in Nat /\ MaxNow \in Nat /\ now <= MaxNow
    BY TimeAssumption DEF TypeOK
  <1>2. e \in Int /\ now <= e
    BY <1>1 DEF EndOf, Limits
  <1> HIDE DEF e
  <1>3. Min({e, MaxNow}) \in Int /\ now <= Min({e, MaxNow})
    BY <1>1, <1>2, MinOfTwo
  <1>4. now \in now .. Min({e, MaxNow})
    BY <1>1, <1>3
  <1> QED
    BY <1>4 DEF e

(* The reservations active at some time until a job may end had begun by a   *)
(* or are among those that were still to come at a, and are left out of the  *)
(* room for the job.                                                         *)
LEMMA HeldThen ==
    ASSUME TypeOK, NEW n \in Nodes, NEW a \in 0 .. now, NEW limit \in Limits,
           NEW t \in now .. Min({EndOf(limit) - 1, MaxNow})
    PROVE  Reserved(n, HeldAt(n, t))
             <= Reserved(n, Begun(n, a)) + SharesOf(Before(LaterSince(a), n, limit)).cpus
  <1> DEFINE L == LaterSince(a)
             S == Before(L, n, limit)
             H == HeldAt(n, t)
             old == {r \in H : r.start <= a}
             new == {r \in H : r.start > a}
             I == Image(KeptOf(n), new)
  <1>1. /\ now \in Nat /\ a \in Nat /\ a <= now /\ t \in Nat /\ now <= t
        /\ limit # NoLimit => limit \in Nat /\ t < now + limit
    BY Moments
  <1>2. H \subseteq ReservationsOf(n) /\ \A r \in H : r.start \in Nat /\ r.end \in Nat
    BY ReservedNat DEF HeldAt
  <1>3. H = old \cup new /\ old \cap new = {}
    BY <1>1, <1>2
  <1>4. old \subseteq Begun(n, a) /\ Begun(n, a) \subseteq ReservationsOf(n)
    BY <1>1, <1>2 DEF Begun, HeldAt, Active
  <1>5. new \subseteq StillToCome(n, a)
    BY DEF StillToCome, HeldAt
  <1>6. I \subseteq S
    <2>1. I \subseteq L[n]
      BY <1>5, LaterSizes
    <2>2. \A r \in new : KeptOf(n)[r].start = r.start /\ r.start <= t
      BY <1>2 DEF KeptOf, Kept, HeldAt, Active
    <2>3. \A r \in new : limit = NoLimit \/ KeptOf(n)[r].start < now + limit
      BY <1>1, <1>2, <2>2
    <2> QED
      BY <2>1, <2>3 DEF Before, Image
  <1>7. SharesOf(I).cpus <= SharesOf(S).cpus /\ SharesOf(S).cpus \in Nat
    <2>1. IsFiniteSet(S) /\ Sized(S)
      BY LaterRecords, SharesOfFewer DEF Before
    <2> QED
      BY <1>6, <2>1, SharesOfFewer
  <1>8. SharesOf(I).cpus = Reserved(n, new)
    BY <1>5, LaterSizes
  <1>9. Reserved(n, H) = Reserved(n, old) + Reserved(n, new)
    <2>1. old \subseteq ReservationsOf(n) /\ new \subseteq ReservationsOf(n)
      BY <1>2
    <2> HIDE DEF H, old, new
    <2> QED
      BY <1>3, <2>1, ReservationsApart
  <1>10. /\ Reserved(n, old) <= Reserved(n, Begun(n, a))
         /\ Reserved(n, Begun(n, a)) \in Nat /\ Reserved(n, old) \in Nat /\ Reserved(n, new) \in Nat
    <2>1. new \subseteq ReservationsOf(n)
      BY <1>2
    <2> QED
      BY <1>4, <2>1, FewerReservations
  <1> HIDE DEF H, old, new, S, L, I
  <1> QED
    BY <1>7, <1>8, <1>9, <1>10 DEF H, S, L

(* A job that runs then and is not of a reservation active then runs now,    *)
(* and is not of one that had begun by a: the jobs of those that have ended  *)
(* have ended too.                                                           *)
LEMMA OthersThen ==
    ASSUME TypeOK, ReservationsKept, NEW n \in Nodes, NEW a \in 0 .. now, NEW limit \in Limits,
           NEW t \in now .. Min({EndOf(limit) - 1, MaxNow})
    PROVE  LET there == {j \in running : t = now \/ j.end > t}
           IN  there \ JobsOf(there, HeldAt(n, t)) \subseteq running \ JobsOf(running, Begun(n, a))
  <1> DEFINE there == {j \in running : t = now \/ j.end > t}
  <1>1. now \in Nat /\ a \in Nat /\ a <= now /\ t \in Nat /\ now <= t
    BY Moments
  <1>2. ASSUME NEW j \in there, NEW r \in Begun(n, a), j.resv = r.name
        PROVE  r \in HeldAt(n, t)
    <2>1. r \in ReservationsOf(n) /\ r.start <= a /\ Active(r, now)
      BY DEF Begun, HeldAt
    <2>2. r \in Reservations /\ r.start \in Nat /\ r.end \in Nat
      BY <2>1, ReservedNat
    <2>3. j.end <= r.end /\ j.end \in Nat
      BY <1>2, <2>2 DEF ReservationsKept, JobsKeepTo, JobsOf, TypeOK, Running
    <2>4. t < r.end
      BY <1>1, <1>2, <2>1, <2>2, <2>3 DEF Active
    <2> QED
      BY <1>1, <2>1, <2>2, <2>4 DEF HeldAt, Active
  <1> QED
    BY <1>2 DEF JobsOf

(* Room that current data shows is room that Slurm has, until the job ends.  *)
LEMMA RoomStarts ==
    ASSUME TypeOK, JobsCounted, ReservationsKept, NEW free, Within(free), NEW a \in 0 .. now,
           NEW n \in Nodes, Spares(n, free[n], running, Begun(n, a)),
           NEW job, job.cpus \in Nat \ {0}, job.mem \in Nat \ {0}, NEW limit \in Limits,
           Holds(free_of(free, LaterSince(a), now, limit, n), job)
    PROVE  CanStart(n, job, limit)
  <1> DEFINE S == Before(LaterSince(a), n, limit)
             begun == Begun(n, a)
             others == running \ JobsOf(running, begun)
  <1>1. IsFiniteSet(S) /\ Sized(S)
    BY LaterRecords, SharesOfFewer DEF Before
  <1>2. job.cpus + SharesOf(S).cpus <= free[n].cpus /\ job.mem + SharesOf(S).mem <= free[n].mem
    BY <1>1, RoomBefore
  <1>3. SharesOf(S).cpus \in Nat /\ SharesOf(S).mem \in Nat
    BY <1>1, SharesOfFewer
  <1>4. free[n].cpus \in Nat /\ free[n].mem \in Nat /\ Total[n].cpus \in Nat /\ Total[n].mem \in Nat
    BY NodeShape DEF Within, Shapes
  <1>5. free[n].cpus > 0 /\ free[n].mem > 0
    <2> HIDE DEF S
    <2> QED
      BY <1>2, <1>3, <1>4
  <1>6. /\ free[n].cpus + CpusOn(n, others) + Reserved(n, begun) <= Total[n].cpus
        /\ free[n].mem + MemOn(n, running) <= Total[n].mem
    BY <1>5 DEF Spares
  <1>7. Reserved(n, begun) \in Nat
    <2>1. begun \subseteq ReservationsOf(n)
      BY DEF Begun, HeldAt
    <2> HIDE DEF begun
    <2> QED
      BY <2>1, FewerReservations
  <1>8. /\ IsFiniteSet(running) /\ Spread(running) /\ MemOn(n, running) \in Nat
        /\ IsFiniteSet(others) /\ Spread(others) /\ CpusOn(n, others) \in Nat
    <2>1. others \subseteq running
      OBVIOUS
    <2> HIDE DEF others
    <2> QED
      BY <2>1, SomeRunning, SizesOn
  <1> SUFFICES ASSUME NEW t \in now .. Min({EndOf(limit) - 1, MaxNow})
               PROVE  LET there == {j \in running : t = now \/ j.end > t}
                          held  == HeldAt(n, t)
                      IN  /\ CpusOn(n, there \ JobsOf(there, held)) + Reserved(n, held) + job.cpus
                                <= Total[n].cpus
                          /\ MemOn(n, there) + job.mem <= Total[n].mem
    BY DEF CanStart
  <1> DEFINE there == {j \in running : t = now \/ j.end > t}
             held == HeldAt(n, t)
             same == there \ JobsOf(there, held)
  <1>9. Reserved(n, held) <= Reserved(n, begun) + SharesOf(S).cpus /\ Reserved(n, held) \in Nat
    <2>1. held \subseteq ReservationsOf(n)
      BY DEF HeldAt
    <2>2. Reserved(n, held) \in Nat
      <3> HIDE DEF held
      <3> QED
        BY <2>1, FewerReservations
    <2> QED
      BY <2>2, HeldThen
  <1>10. same \subseteq others /\ there \subseteq running
    BY OthersThen
  <1> HIDE DEF there, held, same, others, begun, S
  <1>11. /\ CpusOn(n, same) <= CpusOn(n, others) /\ MemOn(n, there) <= MemOn(n, running)
         /\ CpusOn(n, same) \in Nat /\ MemOn(n, there) \in Nat
    BY <1>8, <1>10, SizesOnFewer, SizesOn
  <1>12. CpusOn(n, same) + Reserved(n, held) + job.cpus <= Total[n].cpus
    BY <1>2, <1>3, <1>4, <1>6, <1>7, <1>8, <1>9, <1>11
  <1>13. MemOn(n, there) + job.mem <= Total[n].mem
    BY <1>2, <1>3, <1>4, <1>6, <1>8, <1>11
  <1> QED
    BY <1>12, <1>13 DEF same, there, held

-----------------------------------------------------------------------------
(* A job that starts gets an id no equal job has: fewer jobs run than there  *)
(* are ids while more may start.                                             *)
LEMMA StartedType ==
    ASSUME TypeOK, JobsCounted, starts > 0, NEW at \in Allocations, NEW limit \in Limits,
           NEW resv \in Names \cup {None}, NEW qos \in QOSes \cup {None},
           NEW new, new = Started(at, limit, resv, qos)
    PROVE  /\ new \in Running
           /\ new.at = at /\ new.end = EndOf(limit) /\ new.resv = resv /\ new.qos = qos
  <1> DEFINE cpus == SumFunction([n \in Nodes |-> at[n].cpus])
             With(i) == [id |-> i, cpus |-> cpus, at |-> at, end |-> EndOf(limit),
                         resv |-> resv, qos |-> qos]
             free == {i \in Ids : With(i) \notin running}
  <1>1. /\ IsFiniteSet(running) /\ Cardinality(running) <= MaxStarts - starts
        /\ now \in Nat /\ starts \in Nat /\ MaxStarts \in Nat /\ MaxNow \in Nat
    BY TimeAssumption DEF TypeOK, JobsCounted
  <1>2. EndOf(limit) \in Nat
    BY <1>1 DEF EndOf, Limits
  <1>3. cpus \in Nat
    <2> DEFINE c == [n \in Nodes |-> at[n].cpus]
    <2>1. SumFunction(c) = Sum(c, Nodes) /\ \A n \in Nodes : c[n] \in Nat
      BY DEF SumFunction, Sum, Allocations, Shapes
    <2>2. IsFiniteSet(Nodes)
      BY ClusterAssumption
    <2>3. SumFunction(c) \in Nat
      <3> HIDE DEF c
      <3> QED
        BY <2>1, <2>2, SumNat
    <2> QED
      BY <2>3
  <1>4. IsFiniteSet(Ids) /\ Cardinality(Ids) = MaxStarts /\ Ids \subseteq Int
    <2>1. IsFiniteSet(1 .. MaxStarts) /\ Cardinality(1 .. MaxStarts) = MaxStarts
      <3>1. 1 \in Int /\ MaxStarts \in Int
        BY <1>1
      <3>2. /\ IsFiniteSet(1 .. MaxStarts)
            /\ Cardinality(1 .. MaxStarts) = IF 1 > MaxStarts THEN 0 ELSE MaxStarts - 1 + 1
        BY <3>1, FS_Interval, Zenon
      <3> QED
        BY <1>1, <3>2
    <2> QED
      BY <1>1, <2>1 DEF Ids
  <1>5. free # {}
    <2>1. SUFFICES ASSUME \A i \in Ids : With(i) \in running PROVE FALSE
      OBVIOUS
    <2> DEFINE f == [i \in Ids |-> With(i)]
    <2>2. f \in [Ids -> running] /\ \A x, y \in Ids : x # y => f[x] # f[y]
      <3> HIDE DEF cpus
      <3> QED
        BY <2>1
    <2>3. Cardinality(running) \in Nat
      BY <1>1, FS_CardinalityType
    <2>4. Cardinality(running) < Cardinality(Ids)
      <3> HIDE DEF f, With
      <3> QED
        BY <1>1, <1>4, <2>3
    <2> HIDE DEF f
    <2>5. IsFiniteSet(Ids) /\ IsFiniteSet(running)
      BY <1>1, <1>4
    <2>6. \E x, y \in Ids : x # y /\ f[x] = f[y]
      BY <2>2, <2>4, <2>5, FS_PigeonHole
    <2> QED
      BY <2>2, <2>6
  <1>6. Min(free) \in Ids
    <2>1. free \subseteq Ids
      OBVIOUS
    <2> HIDE DEF free
    <2>2. IsFiniteSet(free) /\ free \subseteq Int
      BY <1>4, <2>1, FS_Subset
    <2> QED
      BY <1>5, <2>1, <2>2, MinOfFinite
  <1>7. new = With(Min(free))
    BY DEF Started
  <1> HIDE DEF free, cpus
  <1> QED
    BY <1>2, <1>3, <1>6, <1>7 DEF Running

(* A start is counted.                                                       *)
LEMMA StartCounted ==
    ASSUME TypeOK, JobsCounted, starts > 0, starts' = starts - 1,
           NEW new, running' = running \cup {new}
    PROVE  /\ IsFiniteSet(running') /\ Cardinality(running') <= MaxStarts - starts'
           /\ starts' \in 0 .. MaxStarts
  <1>1. /\ IsFiniteSet(running) /\ Cardinality(running) <= MaxStarts - starts
        /\ starts \in Nat /\ MaxStarts \in Nat /\ starts <= MaxStarts
    BY TimeAssumption DEF TypeOK, JobsCounted
  <1>2. Cardinality(running) \in Nat
    BY <1>1, FS_CardinalityType
  <1>3. /\ IsFiniteSet(running')
        /\ Cardinality(running') = Cardinality(running) \/ Cardinality(running') = Cardinality(running) + 1
    BY <1>1, FS_AddElement
  <1> QED
    BY <1>1, <1>2, <1>3

(* Data with fewer nodes current says the same of the others.                *)
LEMMA OutdatedData ==
    ASSUME NEW on
    PROVE  /\ nodes \in NodeData \cup {None} =>
                 /\ Outdated(nodes, on) \in NodeData \cup {None}
                 /\ Outdated(nodes, on) # None =>
                       /\ nodes # None /\ Outdated(nodes, on).free = nodes.free
                       /\ Outdated(nodes, on).later = nodes.later
                       /\ Outdated(nodes, on).current = nodes.current \ on
           /\ table \in TableData \cup {None} =>
                 /\ Outdated(table, on) \in TableData \cup {None}
                 /\ Outdated(table, on) # None =>
                       /\ table # None /\ Outdated(table, on).free = table.free
                       /\ Outdated(table, on).later = table.later
                       /\ Outdated(table, on).rows = table.rows
                       /\ Outdated(table, on).current = table.current \ on
  BY DEF Outdated, NodeData, TableData

(* What the plugin takes a job to ask for.                                   *)
LEMMA AskedShape ==
    ASSUME NEW job \in JobTypes
    PROVE  /\ Asked(job) \in Shapes /\ Asked(job).cpus = job.cpus
           /\ Asked(job).cpus \in Nat \ {0} /\ Asked(job).mem \in Nat \ {0}
           /\ "nomem" \notin job.opts => Asked(job) = [cpus |-> job.cpus, mem |-> job.mem]
           /\ job.limit \in Limits /\ job.cpus \in Nat \ {0} /\ job.mem \in Nat \ {0}
  BY TimeAssumption DEF Asked, job_mem, Shapes

(* An answer names some partitions; if any could hold the job, those it      *)
(* names can.                                                                *)
LEMMA AnswerType ==
    ASSUME TypeOK, table # None, NEW job, job.cpus \in Nat, job.mem \in Nat,
           NEW parts \in packed_choice(table.rows, job)
    PROVE  /\ parts # {} /\ parts \subseteq Partitions
           /\ (\E p \in Partitions : Holds(caps[p], job)) => \A p \in parts : Holds(caps[p], job)
  <1> DEFINE b == <<bucket(job.mem, job.cpus, MpcEdges), bucket(job.cpus, 1, CpuEdges)>>
  <1>1. b \in Buckets
    BY PolicyAssumption, BucketTwins DEF Buckets
  <1>2. table.rows[b] \subseteq Partitions
    BY <1>1 DEF TypeOK, TableData
  <1>3. parts \in keep_feasible(table.rows[b], job)
    BY DEF packed_choice
  <1> HIDE DEF b
  <1> QED
    BY <1>2, <1>3, KeptAnswers

(* Room for a job, in the plugin's copy of the table.                        *)
LEMMA RoomInCopy ==
    ASSUME TypeOK, DataKnown, table # None, NEW job \in JobTypes, NEW n \in Nodes,
           Holds(RoomFor(job)[n], Asked(job))
    PROVE  Holds(room[n], Asked(job))
  <1>1. PICK a \in 0 .. now : table.later = LaterSince(a)
    BY DEF DataKnown
  <1>2. Holds(free_of(room, table.later, now, job.limit, n), Asked(job))
    BY DEF RoomFor
  <1>3. IsFiniteSet(Before(table.later, n, job.limit)) /\ Sized(Before(table.later, n, job.limit))
    BY <1>1, LaterRecords, SharesOfFewer DEF Before
  <1>4. Within(room) /\ Asked(job).cpus \in Nat \ {0} /\ Asked(job).mem \in Nat \ {0}
    BY AskedShape DEF DataKnown
  <1> QED
    BY <1>2, <1>3, <1>4, RoomBefore

(* What the plugin pins a job to has room for it, in its copy of the table.  *)
LEMMA PinHasRoom ==
    ASSUME TypeOK, DataKnown, table # None, NEW job \in JobTypes,
           NEW parts \in Placed(job), NEW n \in PinOf(job, parts)
    PROVE  /\ n \in Nodes /\ Holds(RoomFor(job)[n], Asked(job)) /\ Holds(room[n], Asked(job))
           /\ pin_eligible(job) /\ n \in pick_node(Asked(job), parts, RoomFor(job))
           /\ parts \subseteq Partitions
  <1>1. /\ n \in pick_node(Asked(job), parts, RoomFor(job)) /\ pin_eligible(job)
        /\ parts \in packed_choice(table.rows, Asked(job))
    BY DEF PinOf, Placed
  <1>2. parts \subseteq Partitions
    BY <1>1, AnswerType, AskedShape
  <1>3. n \in Nodes /\ Holds(RoomFor(job)[n], Asked(job))
    BY <1>1, <1>2, PinnedNode
  <1> QED
    BY <1>1, <1>2, <1>3, RoomInCopy

-----------------------------------------------------------------------------
(* The invariant that every step preserves.                                  *)
IInv == TypeOK /\ JobsCounted /\ ReservationsKept /\ DataKnown /\ CurrentCovers

(* Free space that leaves room for what runs and for some reservations does  *)
(* so when fewer jobs run and some of the reservations are over: what is     *)
(* then left of their jobs has no more CPUs than was reserved.               *)
LEMMA SparesFewer ==
    ASSUME TypeOK, JobsCounted, ReservationsKept, NEW n \in Nodes, NEW free \in Shapes,
           NEW ks, ks \subseteq running,
           NEW R, R \subseteq ReservationsOf(n), NEW Q, Q \subseteq R,
           Spares(n, free, running, R)
    PROVE  Spares(n, free, ks, Q)
  <1> DEFINE own == running \ JobsOf(running, R)
             over == JobsOf(ks, R \ Q)
             left == ks \ JobsOf(ks, Q)
             mine == own \cap ks
  <1>1. R \ Q \subseteq ReservationsOf(n) /\ Q \subseteq ReservationsOf(n) /\ R = Q \cup (R \ Q)
    OBVIOUS
  <1>2. left \subseteq mine \cup over /\ mine \subseteq running /\ over \subseteq running /\ own \subseteq running
        /\ left \subseteq running /\ mine \subseteq own /\ mine \cap over = {}
    BY DEF JobsOf
  <1>3. CpusOn(n, over) <= Reserved(n, R \ Q)
    BY <1>1, ReservedJobs
  <1>4. Reserved(n, R) = Reserved(n, Q) + Reserved(n, R \ Q)
    <2> DEFINE D == R \ Q
    <2>1. Q \cap D = {} /\ R = Q \cup D /\ D \subseteq ReservationsOf(n)
      BY <1>1
    <2>2. Reserved(n, Q \cup D) = Reserved(n, Q) + Reserved(n, D)
      <3> HIDE DEF D
      <3> QED
        BY <1>1, <2>1, ReservationsApart
    <2> QED
      BY <2>1, <2>2
  <1>5. Reserved(n, R) \in Nat /\ Reserved(n, Q) \in Nat /\ Reserved(n, R \ Q) \in Nat
    BY <1>1, FewerReservations
  <1> HIDE DEF own, over, left, mine
  <1>6. /\ IsFiniteSet(left) /\ Spread(left) /\ IsFiniteSet(mine) /\ Spread(mine)
        /\ IsFiniteSet(over) /\ Spread(over) /\ IsFiniteSet(own) /\ Spread(own)
        /\ IsFiniteSet(ks) /\ Spread(ks) /\ IsFiniteSet(running) /\ Spread(running)
    BY <1>2, SomeRunning
  <1>7. /\ IsFiniteSet(mine \cup over) /\ Spread(mine \cup over)
        /\ CpusOn(n, mine \cup over) = CpusOn(n, mine) + CpusOn(n, over)
    BY <1>2, <1>6, SizesOnApart
  <1>8. /\ CpusOn(n, left) <= CpusOn(n, mine \cup over) /\ CpusOn(n, mine) <= CpusOn(n, own)
        /\ MemOn(n, ks) <= MemOn(n, running)
    <2>1. CpusOn(n, left) <= CpusOn(n, mine \cup over)
      BY <1>2, <1>6, <1>7, SizesOnFewer
    <2>2. CpusOn(n, mine) <= CpusOn(n, own)
      BY <1>2, <1>6, SizesOnFewer
    <2>3. MemOn(n, ks) <= MemOn(n, running)
      BY <1>2, <1>6, SizesOnFewer
    <2> QED
      BY <2>1, <2>2, <2>3
  <1>9. /\ CpusOn(n, left) \in Nat /\ CpusOn(n, mine) \in Nat /\ CpusOn(n, over) \in Nat
        /\ CpusOn(n, own) \in Nat /\ MemOn(n, ks) \in Nat /\ MemOn(n, running) \in Nat
    BY <1>6, SizesOn
  <1>10. /\ free.cpus \in Nat /\ free.mem \in Nat
         /\ Total[n].cpus \in Nat /\ Total[n].mem \in Nat
    BY NodeShape DEF Shapes
  <1>11. /\ free.cpus > 0 => free.cpus + CpusOn(n, own) + Reserved(n, R) <= Total[n].cpus
         /\ free.mem > 0 => free.mem + MemOn(n, running) <= Total[n].mem
    BY DEF Spares, own
  <1>12. /\ free.cpus > 0 => free.cpus + CpusOn(n, left) + Reserved(n, Q) <= Total[n].cpus
         /\ free.mem > 0 => free.mem + MemOn(n, ks) <= Total[n].mem
    BY <1>3, <1>4, <1>5, <1>7, <1>8, <1>9, <1>10, <1>11
  <1> QED
    BY <1>12 DEF Spares, left

(* and for one job more, if it is counted there.                             *)
LEMMA SparesOneMore ==
    ASSUME TypeOK, JobsCounted, NEW n \in Nodes, NEW free \in Shapes,
           NEW j, j.at \in Allocations, Holds(free, j.at[n]),
           NEW R, R \subseteq ReservationsOf(n), Spares(n, free, running, R)
    PROVE  /\ Spares(n, Minus(free, j.at[n]), running \cup {j}, R)
           /\ Spares(n, Minus(free, j.at[n]), running, R)
  <1> DEFINE own == running \ JobsOf(running, R)
             ks == running \cup {j}
             left == ks \ JobsOf(ks, R)
             more == own \cup {j}
  <1>1. own \subseteq running /\ left \subseteq more
    BY DEF JobsOf
  <1>2. Reserved(n, R) \in Nat
    BY FewerReservations
  <1>3. IsFiniteSet(running) /\ Spread(running) /\ IsFiniteSet(own) /\ Spread(own)
    BY <1>1, SomeRunning
  <1>4. /\ IsFiniteSet(more) /\ Spread(more) /\ CpusOn(n, more) <= CpusOn(n, own) + j.at[n].cpus
        /\ IsFiniteSet(ks) /\ Spread(ks) /\ MemOn(n, ks) <= MemOn(n, running) + j.at[n].mem
    BY <1>3, SizesOnMore
  <1>5. j.at[n].cpus \in Nat /\ j.at[n].mem \in Nat
    BY DEF Allocations, Shapes
  <1>6. /\ free.cpus \in Nat /\ free.mem \in Nat
        /\ free.cpus >= j.at[n].cpus /\ free.mem >= j.at[n].mem
        /\ Total[n].cpus \in Nat /\ Total[n].mem \in Nat
    BY NodeShape DEF Shapes, Holds
  <1>7. /\ free.cpus > 0 => free.cpus + CpusOn(n, own) + Reserved(n, R) <= Total[n].cpus
        /\ free.mem > 0 => free.mem + MemOn(n, running) <= Total[n].mem
    BY DEF Spares
  <1> HIDE DEF own, ks, left, more
  <1>8. CpusOn(n, left) <= CpusOn(n, more) /\ IsFiniteSet(left) /\ Spread(left)
    BY <1>1, <1>4, SizesOnFewer
  <1>9. /\ CpusOn(n, left) \in Nat /\ CpusOn(n, more) \in Nat /\ CpusOn(n, own) \in Nat
        /\ MemOn(n, ks) \in Nat /\ MemOn(n, running) \in Nat
    BY <1>3, <1>4, <1>8, SizesOn
  <1> DEFINE c == free.cpus - j.at[n].cpus
             m == free.mem - j.at[n].mem
  <1>10. /\ c > 0 => /\ c + CpusOn(n, left) + Reserved(n, R) <= Total[n].cpus
                     /\ c + CpusOn(n, own) + Reserved(n, R) <= Total[n].cpus
         /\ m > 0 => /\ m + MemOn(n, ks) <= Total[n].mem
                     /\ m + MemOn(n, running) <= Total[n].mem
    BY <1>2, <1>4, <1>5, <1>6, <1>7, <1>8, <1>9
  <1>11. Minus(free, j.at[n]).cpus = c /\ Minus(free, j.at[n]).mem = m
    BY DEF Minus
  <1> HIDE DEF c, m
  <1> QED
    BY <1>10, <1>11 DEF Spares, left, own, ks

(* A job that has nothing of a node takes nothing there.                     *)
LEMMA SparesElsewhere ==
    ASSUME TypeOK, JobsCounted, NEW n \in Nodes, NEW free \in Shapes,
           NEW j, j.at \in Allocations, n \notin NodesOf(j.at),
           NEW R, R \subseteq ReservationsOf(n), Spares(n, free, running, R)
    PROVE  Spares(n, free, running \cup {j}, R)
  <1>1. j.at[n].cpus = 0 /\ j.at[n].mem = 0
    BY DEF NodesOf, Nothing
  <1>2. Holds(free, j.at[n])
    BY <1>1 DEF Holds, Shapes
  <1>3. Minus(free, j.at[n]) = free
    BY <1>1 DEF Minus, Shapes
  <1>4. Spares(n, Minus(free, j.at[n]), running \cup {j}, R)
    BY <1>2, SparesOneMore
  <1> QED
    BY <1>3, <1>4

(* The invariant holds initially.                                            *)
LEMMA InitHolds == Init => IInv
  <1> SUFFICES ASSUME Init PROVE IInv
    OBVIOUS
  <1>1. IsFiniteSet({}) /\ Cardinality({}) = 0
    BY FS_EmptySet
  <1>2. 0 \in Nat /\ MaxNow \in Nat /\ MaxStarts \in Nat
    BY TimeAssumption
  <1>3. TypeOK
    BY <1>2 DEF Init, TypeOK
  <1>4. JobsCounted
    BY <1>1, <1>2 DEF Init, JobsCounted
  <1>5. ReservationsKept
    <2> SUFFICES ASSUME NEW r \in Reservations PROVE JobsKeepTo(r)
      BY DEF ReservationsKept
    <2> DEFINE js == JobsOf(running, {r})
    <2>1. js = {}
      BY DEF Init, JobsOf
    <2>2. ASSUME NEW n \in Nodes
          PROVE  CpusOn(n, js) <= (IF n \in DOMAIN r.nodes THEN ReservedCpus(r, n) ELSE 0)
      <3>1. CpusOn(n, {}) = 0
        BY SumEmpty DEF CpusOn, SumFunction, Sum
      <3>2. (IF n \in DOMAIN r.nodes THEN ReservedCpus(r, n) ELSE 0) \in Nat
        BY ReservedNat DEF ReservationsOf
      <3> HIDE DEF js
      <3> QED
        BY <2>1, <3>1, <3>2
    <2> QED
      BY <2>1, <2>2 DEF JobsKeepTo
  <1> QED
    BY <1>3, <1>4, <1>5 DEF Init, IInv, DataKnown, CurrentCovers

(* Fewer jobs of a reservation keep to it too.                               *)
LEMMA KeptByFewer ==
    ASSUME TypeOK, JobsCounted, ReservationsKept, running' \subseteq running
    PROVE  ReservationsKept'
  <1> SUFFICES ASSUME NEW r \in Reservations PROVE JobsKeepTo(r)'
    BY DEF ReservationsKept
  <1> DEFINE js == JobsOf(running, {r})
             ks == JobsOf(running', {r})
  <1>1. ks \subseteq js /\ js \subseteq running
    BY DEF JobsOf
  <1>2. IsFiniteSet(js) /\ Spread(js)
    BY <1>1, SomeRunning
  <1>3. JobsKeepTo(r)
    BY DEF ReservationsKept
  <1>4. \A j \in ks : j.end <= r.end
    BY <1>1, <1>3 DEF JobsKeepTo
  <1>5. ASSUME NEW n \in Nodes
        PROVE  CpusOn(n, ks) <= (IF n \in DOMAIN r.nodes THEN ReservedCpus(r, n) ELSE 0)
    <2>1. CpusOn(n, js) <= (IF n \in DOMAIN r.nodes THEN ReservedCpus(r, n) ELSE 0)
      BY <1>3 DEF JobsKeepTo
    <2>2. (IF n \in DOMAIN r.nodes THEN ReservedCpus(r, n) ELSE 0) \in Nat
      BY ReservedNat DEF ReservationsOf
    <2> HIDE DEF js, ks
    <2>3. CpusOn(n, ks) <= CpusOn(n, js) /\ CpusOn(n, ks) \in Nat /\ CpusOn(n, js) \in Nat
      BY <1>1, <1>2, SizesOnFewer, SizesOn
    <2> QED
      BY <2>1, <2>2, <2>3
  <1> QED
    BY <1>4, <1>5 DEF JobsKeepTo

(* What is current of a snapshot stays so, on fewer nodes perhaps, when no   *)
(* node of these has less left than the snapshot says.                       *)
LEMMA CoversNodes ==
    ASSUME NEW free, NEW on, NEW a
    PROVE  Covers(free, on, a) <=> \A n \in on : Spares(n, free[n], running, Begun(n, a))
  BY DEF Covers

(* Jobs end and time passes: there are no fewer free CPUs than before, and   *)
(* of the reservations that had begun none is new.                           *)
LEMMA TimePasses ==
    ASSUME IInv, running' \subseteq running, now' \in {now, now + 1}, now' <= MaxNow,
           UNCHANGED <<starts, queue, nodes, table, room>>
    PROVE  IInv'
  <1> USE DEF IInv
  <1>1. /\ now \in Nat /\ MaxNow \in Nat /\ MaxStarts \in Nat /\ starts \in Nat
        /\ 0 .. now \subseteq 0 .. now'
    BY TimeAssumption DEF TypeOK
  <1>2. TypeOK'
    BY <1>1 DEF TypeOK
  <1>3. JobsCounted'
    <2>1. IsFiniteSet(running') /\ Cardinality(running') <= Cardinality(running)
      BY FS_Subset DEF JobsCounted
    <2>2. Cardinality(running') \in Nat /\ Cardinality(running) \in Nat
      BY <2>1, FS_CardinalityType DEF JobsCounted
    <2> QED
      BY <1>1, <2>1, <2>2 DEF JobsCounted
  <1>4. ReservationsKept'
    BY KeptByFewer
  <1>5. DataKnown'
    BY <1>1 DEF DataKnown, LaterSince, ReservationsOf, Within
  <1>6. ASSUME NEW n \in Nodes, NEW free \in Shapes, NEW a \in 0 .. now,
               Spares(n, free, running, Begun(n, a))
        PROVE  Spares(n, free, running', Begun(n, a)')
    <2>1. Begun(n, a)' \subseteq Begun(n, a) /\ Begun(n, a) \subseteq ReservationsOf(n)
      BY <1>1, ReservedNat DEF Begun, HeldAt, Active, ReservationsOf
    <2> QED
      BY <1>6, <2>1, SparesFewer
  <1>7. CurrentCovers'
    <2>1. ASSUME nodes # None
          PROVE  \E a \in 0 .. now' : nodes.later = LaterSince(a) /\ Covers(nodes.free, nodes.current, a)'
      <3>1. PICK a \in 0 .. now : nodes.later = LaterSince(a) /\ Covers(nodes.free, nodes.current, a)
        BY <2>1 DEF CurrentCovers
      <3>2. nodes.free \in [Nodes -> Shapes] /\ nodes.current \subseteq Nodes
        BY <2>1 DEF TypeOK, NodeData
      <3>3. \A n \in nodes.current : Spares(n, nodes.free[n], running', Begun(n, a)')
        BY <1>6, <3>1, <3>2, CoversNodes
      <3>4. Covers(nodes.free, nodes.current, a)'
        BY <3>3 DEF Covers
      <3> QED
        BY <1>1, <3>1, <3>4
    <2>2. ASSUME table # None
          PROVE  \E a \in 0 .. now' : table.later = LaterSince(a) /\ Covers(room, table.current, a)'
      <3>1. PICK a \in 0 .. now : table.later = LaterSince(a) /\ Covers(room, table.current, a)
        BY <2>2 DEF CurrentCovers
      <3>2. room \in [Nodes -> Shapes] /\ table.current \subseteq Nodes
        BY <2>2 DEF TypeOK, TableData
      <3>3. \A n \in table.current : Spares(n, room[n], running', Begun(n, a)')
        BY <1>6, <3>1, <3>2, CoversNodes
      <3>4. Covers(room, table.current, a)'
        BY <3>3 DEF Covers
      <3> QED
        BY <1>1, <3>1, <3>4
    <2> QED
      BY <2>1, <2>2 DEF CurrentCovers
  <1> QED
    BY <1>2, <1>3, <1>4, <1>5, <1>7

(* One job more takes at most its own CPUs of its reservation.               *)
LEMMA KeptByMore ==
    ASSUME TypeOK, JobsCounted, ReservationsKept,
           NEW new \in Running, running' = running \cup {new},
           \A r \in Reservations : r.name = new.resv =>
               /\ new.end <= r.end
               /\ \A n \in NodesOf(new.at) :
                     /\ n \in DOMAIN r.nodes
                     /\ CpusOn(n, JobsOf(running, {r})) + new.at[n].cpus <= ReservedCpus(r, n)
    PROVE  ReservationsKept'
  <1> SUFFICES ASSUME NEW r \in Reservations PROVE JobsKeepTo(r)'
    BY DEF ReservationsKept
  <1> DEFINE js == JobsOf(running, {r})
             ks == JobsOf(running', {r})
  <1>1. JobsKeepTo(r) /\ js \subseteq running
    BY DEF ReservationsKept, JobsOf
  <1>2. CASE r.name # new.resv
    <2>1. ks = js
      BY <1>2 DEF JobsOf
    <2> QED
      BY <1>1, <2>1 DEF JobsKeepTo
  <1>3. CASE r.name = new.resv
    <2>1. ks \subseteq js \cup {new}
      BY DEF JobsOf
    <2>2. \A j \in ks : j.end <= r.end
      BY <1>1, <1>3, <2>1 DEF JobsKeepTo
    <2>3. ASSUME NEW n \in Nodes
          PROVE  CpusOn(n, ks) <= (IF n \in DOMAIN r.nodes THEN ReservedCpus(r, n) ELSE 0)
      <3> DEFINE all == js \cup {new}
                 most == IF n \in DOMAIN r.nodes THEN ReservedCpus(r, n) ELSE 0
      <3>1. CpusOn(n, js) <= most
        BY <1>1 DEF JobsKeepTo
      <3>2. most \in Nat
        BY ReservedNat DEF ReservationsOf
      <3>3. new.at \in Allocations /\ new.at[n].cpus \in Nat
        BY DEF Running, Allocations, Shapes
      <3>4. n \in NodesOf(new.at) => CpusOn(n, js) + new.at[n].cpus <= most
        BY <1>3
      <3>5. n \notin NodesOf(new.at) => new.at[n].cpus = 0
        BY DEF NodesOf, Nothing
      <3> HIDE DEF js, ks, most
      <3>6. IsFiniteSet(js) /\ Spread(js) /\ CpusOn(n, js) \in Nat
        BY <1>1, SomeRunning, SizesOn
      <3>7. IsFiniteSet(all) /\ Spread(all) /\ CpusOn(n, all) <= CpusOn(n, js) + new.at[n].cpus
        BY <3>3, <3>6, SizesOnMore
      <3>8. ks \subseteq all
        BY <2>1
      <3> HIDE DEF all
      <3>9. /\ CpusOn(n, ks) <= CpusOn(n, all) /\ IsFiniteSet(ks) /\ Spread(ks)
        BY <3>7, <3>8, SizesOnFewer
      <3>10. CpusOn(n, all) \in Nat /\ CpusOn(n, ks) \in Nat
        BY <3>7, <3>9, SizesOn
      <3>11. CpusOn(n, ks) <= most
        BY <3>1, <3>2, <3>3, <3>4, <3>5, <3>6, <3>7, <3>9, <3>10
      <3> QED
        BY <3>11 DEF most
    <2> QED
      BY <2>2, <2>3 DEF JobsKeepTo
  <1> QED
    BY <1>2, <1>3

(* Slurm starts a job by itself: what the data shows of its nodes is no      *)
(* longer current, and of the others it still is.                            *)
LEMMA OtherStarts ==
    ASSUME IInv, starts > 0, starts' = starts - 1,
           NEW at \in Allocations, NEW limit \in Limits, NEW resv \in Names \cup {None},
           \A r \in Reservations : r.name = resv =>
               /\ EndOf(limit) <= r.end
               /\ \A n \in NodesOf(at) :
                     /\ n \in DOMAIN r.nodes
                     /\ CpusOn(n, JobsOf(running, {r})) + at[n].cpus <= ReservedCpus(r, n),
           running' = running \cup {Started(at, limit, resv, None)},
           nodes' = Outdated(nodes, NodesOf(at)), table' = Outdated(table, NodesOf(at)),
           UNCHANGED <<now, queue, room>>
    PROVE  IInv'
  <1> USE DEF IInv
  <1> DEFINE new == Started(at, limit, resv, None)
  <1>1. new \in Running /\ new.at = at /\ new.resv = resv /\ new.end = EndOf(limit)
    <2>1. PICK qos \in QOSes \cup {None} : qos = None
      OBVIOUS
    <2>2. new = Started(at, limit, resv, qos)
      BY <2>1
    <2>3. TypeOK /\ JobsCounted
      OBVIOUS
    <2> HIDE DEF new
    <2> QED
      BY <2>2, <2>3, StartedType
  <1>2. running' = running \cup {new}
    OBVIOUS
  <1> HIDE DEF new
  <1>3. /\ IsFiniteSet(running') /\ Cardinality(running') <= MaxStarts - starts'
        /\ starts' \in 0 .. MaxStarts
    BY <1>2, StartCounted
  <1>4. /\ nodes' \in NodeData \cup {None} /\ table' \in TableData \cup {None}
        /\ nodes' # None => /\ nodes # None /\ nodes'.free = nodes.free
                            /\ nodes'.later = nodes.later
                            /\ nodes'.current = nodes.current \ NodesOf(at)
        /\ table' # None => /\ table # None /\ table'.free = table.free
                            /\ table'.later = table.later /\ table'.rows = table.rows
                            /\ table'.current = table.current \ NodesOf(at)
    BY OutdatedData DEF TypeOK
  <1>5. TypeOK'
    BY <1>1, <1>2, <1>3, <1>4 DEF TypeOK
  <1>6. JobsCounted'
    BY <1>3 DEF JobsCounted
  <1>7. ReservationsKept'
    BY <1>1, <1>2, KeptByMore
  <1>8. DataKnown'
    BY <1>4 DEF DataKnown
  <1>9. ASSUME NEW n \in Nodes \ NodesOf(at), NEW free \in Shapes, NEW a \in 0 .. now,
               Spares(n, free, running, Begun(n, a))
        PROVE  Spares(n, free, running', Begun(n, a)')
    <2>1. Begun(n, a)' = Begun(n, a) /\ Begun(n, a) \subseteq ReservationsOf(n)
      BY DEF Begun, HeldAt
    <2>2. new.at \in Allocations
      BY <1>1
    <2>3. Spares(n, free, running \cup {new}, Begun(n, a))
      BY <1>1, <1>9, <2>1, <2>2, SparesElsewhere
    <2> QED
      BY <1>2, <2>1, <2>3
  <1>10. CurrentCovers'
    <2>1. ASSUME nodes' # None
          PROVE  \E a \in 0 .. now' : nodes'.later = LaterSince(a) /\ Covers(nodes.free, nodes.current, a)'
      <3>1. PICK a \in 0 .. now : nodes.later = LaterSince(a) /\ Covers(nodes.free, nodes.current, a)
        BY <1>4, <2>1 DEF CurrentCovers
      <3>2. nodes.free \in [Nodes -> Shapes] /\ nodes.current \subseteq Nodes
        BY <1>4, <2>1 DEF TypeOK, NodeData
      <3>3. \A n \in nodes'.current : Spares(n, nodes'.free[n], running', Begun(n, a)')
        BY <1>4, <1>9, <2>1, <3>1, <3>2, CoversNodes
      <3>4. Covers(nodes.free, nodes.current, a)'
        BY <3>3 DEF Covers
      <3> QED
        BY <1>4, <2>1, <3>1, <3>4
    <2>2. ASSUME table' # None
          PROVE  \E a \in 0 .. now' : table'.later = LaterSince(a) /\ Covers(room, table.current, a)'
      <3>1. PICK a \in 0 .. now : table.later = LaterSince(a) /\ Covers(room, table.current, a)
        BY <1>4, <2>2 DEF CurrentCovers
      <3>2. room \in [Nodes -> Shapes] /\ table.current \subseteq Nodes
        BY <1>4, <2>2 DEF TypeOK, TableData
      <3>3. \A n \in table'.current : Spares(n, room'[n], running', Begun(n, a)')
        BY <1>4, <1>9, <2>2, <3>1, <3>2, CoversNodes
      <3>4. Covers(room, table.current, a)'
        BY <3>3 DEF Covers
      <3> QED
        BY <1>4, <2>2, <3>1, <3>4
    <2>3. \A a : LaterSince(a)' = LaterSince(a)
      BY DEF LaterSince
    <2> QED
      BY <2>1, <2>2, <2>3 DEF CurrentCovers
  <1> QED
    BY <1>5, <1>6, <1>7, <1>8, <1>10

(* A start outside the table and outside reservations keeps the invariant.   *)
LEMMA StartOtherKeeps == IInv /\ StartOther => IInv'
  <1> SUFFICES ASSUME IInv, StartOther PROVE IInv'
    OBVIOUS
  <1>1. PICK job \in OtherTypes : /\ running' = running \cup {Started(job.at, job.limit, None, None)}
                                  /\ nodes' = Outdated(nodes, NodesOf(job.at))
                                  /\ table' = Outdated(table, NodesOf(job.at))
    BY DEF StartOther
  <1>2. job.at \in Allocations /\ job.limit \in Limits
    BY TimeAssumption
  <1>3. \A r \in Reservations : r.name # None
    BY NoneAssumption DEF Names
  <1> QED
    BY <1>1, <1>2, <1>3, OtherStarts DEF StartOther

(* A start inside a reservation keeps it.                                    *)
LEMMA StartReservedKeeps == IInv /\ StartReserved => IInv'
  <1> SUFFICES ASSUME IInv, StartReserved PROVE IInv'
    OBVIOUS
  <1>1. PICK r \in Reservations, job \in ReservedTypes :
           /\ EndOf(job.limit) <= r.end
           /\ \A n \in NodesOf(job.at) :
                 /\ n \in DOMAIN r.nodes
                 /\ CpusOn(n, JobsOf(running, {r})) + job.at[n].cpus <= ReservedCpus(r, n)
           /\ running' = running \cup {Started(job.at, job.limit, r.name, None)}
           /\ nodes' = Outdated(nodes, NodesOf(job.at))
           /\ table' = Outdated(table, NodesOf(job.at))
    BY DEF StartReserved
  <1>2. job.at \in Allocations /\ job.limit \in Limits /\ r.name \in Names
    BY TimeAssumption DEF Names
  <1>3. \A s \in Reservations : s.name = r.name => s = r
    BY TimeAssumption
  <1>4. \A s \in Reservations : s.name = r.name =>
           /\ EndOf(job.limit) <= s.end
           /\ \A n \in NodesOf(job.at) :
                 /\ n \in DOMAIN s.nodes
                 /\ CpusOn(n, JobsOf(running, {s})) + job.at[n].cpus <= ReservedCpus(s, n)
    BY <1>1, <1>3
  <1>5. starts > 0 /\ starts' = starts - 1 /\ UNCHANGED <<now, queue, room>>
    BY DEF StartReserved
  <1> DEFINE at == job.at
             limit == job.limit
             resv == r.name
  <1>6. /\ at \in Allocations /\ limit \in Limits /\ resv \in Names \cup {None}
        /\ running' = running \cup {Started(at, limit, resv, None)}
        /\ nodes' = Outdated(nodes, NodesOf(at)) /\ table' = Outdated(table, NodesOf(at))
    BY <1>1, <1>2
  <1>7. \A s \in Reservations : s.name = resv =>
           /\ EndOf(limit) <= s.end
           /\ \A n \in NodesOf(at) :
                 /\ n \in DOMAIN s.nodes
                 /\ CpusOn(n, JobsOf(running, {s})) + at[n].cpus <= ReservedCpus(s, n)
    BY <1>4
  <1> HIDE DEF at, limit, resv
  <1> QED
    BY <1>5, <1>6, <1>7, OtherStarts

(* A poll of the queue keeps it.                                             *)
LEMMA PollQueueKeeps == IInv /\ PollQueue => IInv'
  <1> SUFFICES ASSUME IInv, PollQueue PROVE IInv'
    OBVIOUS
  <1> USE DEF IInv
  <1>1. /\ queue' = [reserved |-> InReservations, used |-> UserCpus]
        /\ UNCHANGED <<now, running, starts, nodes, table, room>>
    BY DEF PollQueue
  <1>2. InReservations \subseteq running /\ \A q \in QOSes : {j \in running : j.qos = q} \subseteq running
    BY DEF InReservations
  <1>3. IsFiniteSet(InReservations) /\ InReservations \in SUBSET Running
    BY <1>2, SomeRunning DEF TypeOK
  <1>4. UserCpus \in [QOSes -> Nat]
    BY <1>2, SomeRunning DEF UserCpus
  <1>5. TypeOK'
    BY <1>1, <1>3, <1>4 DEF TypeOK
  <1>6. JobsCounted'
    BY <1>1, <1>3 DEF JobsCounted
  <1>7. ReservationsKept' /\ DataKnown'
    BY <1>1 DEF ReservationsKept, JobsKeepTo, DataKnown
  <1>8. CurrentCovers'
    BY <1>1 DEF CurrentCovers, Covers, Begun, HeldAt
  <1> QED
    BY <1>5, <1>6, <1>7, <1>8

(* The shape of a bucket is one a job may have.                              *)
LEMMA Halves ==
    ASSUME NEW a \in Nat, NEW b \in Nat
    PROVE  a \div 2 \in Nat /\ (a * b) \div 4 \in Nat
  <1>1. a * b \in Nat
    BY Products
  <1> QED
    BY <1>1, Quotients

(* Twice a bucket's representative is natural.                               *)
LEMMA TwiceRepType ==
    ASSUME NEW edges \in Seq(Nat), edges # <<>>, NEW i \in 0 .. Len(edges)
    PROVE  TwiceRep(edges, i) \in Nat
  <1>1. Len(edges) \in Nat /\ Len(edges) > 0
    OBVIOUS
  <1>2. \A k \in 1 .. Len(edges) : edges[k] \in Nat
    OBVIOUS
  <1> QED
    BY <1>1, <1>2 DEF TwiceRep

(* So is a bucket's shape.                                                   *)
LEMMA BucketShapeType ==
    ASSUME NEW b \in Buckets
    PROVE  bucket_shape(b).cpus \in Nat /\ bucket_shape(b).mem \in Nat
  <1> DEFINE mpc2 == TwiceRep(MpcEdges, b[1])
             cpus2 == TwiceRep(CpuEdges, b[2])
  <1>1. mpc2 \in Nat /\ cpus2 \in Nat
    BY PolicyAssumption, TwiceRepType DEF Buckets
  <1>2. cpus2 \div 2 \in Nat /\ (mpc2 * cpus2) \div 4 \in Nat
    <2> HIDE DEF mpc2, cpus2
    <2> QED
      BY <1>1, Halves
  <1> QED
    BY <1>2 DEF bucket_shape

(* The table is built of the free space of the nodes, and is as current.     *)
LEMMA ScoreKeeps == IInv /\ Score => IInv'
  <1> SUFFICES ASSUME IInv, Score PROVE IInv'
    OBVIOUS
  <1> USE DEF IInv
  <1>1. /\ nodes # None /\ nodes \in NodeData /\ queue.used \in [QOSes -> Nat]
        /\ \E main \in user_qos(queue.used) :
              table' = [rows |-> build_table(nodes.free), free |-> nodes.free,
                        later |-> nodes.later, left |-> user_room(queue.used), main |-> main,
                        at |-> now, current |-> nodes.current]
        /\ room' = nodes.free
        /\ UNCHANGED <<now, running, starts, queue, nodes>>
    BY DEF Score, TypeOK
  <1>2. Within(nodes.free) /\ \E a \in 0 .. now : nodes.later = LaterSince(a)
    BY <1>1 DEF DataKnown
  <1>3. build_table(nodes.free) \in [Buckets -> SUBSET Partitions]
    <2>1. ASSUME NEW b \in Buckets
          PROVE  choose(bucket_shape(b), nodes.free) \subseteq Partitions
      <3>1. bucket_shape(b).cpus \in Nat /\ bucket_shape(b).mem \in Nat
        BY BucketShapeType
      <3> QED
        BY <1>2, <3>1, ChooseAdmits
    <2> QED
      BY <2>1 DEF build_table
  <1>4. user_room(queue.used) \in Int \cup {None}
    <2>1. queue.used["capped"] \in Nat
      BY <1>1 DEF QOSes
    <2> QED
      BY <2>1, TimeAssumption DEF user_room
  <1>5. user_qos(queue.used) \subseteq QOSes \cup {None}
    BY DEF user_qos
  <1>6. /\ table' \in TableData
        /\ table'.rows = build_table(nodes.free) /\ table'.free = nodes.free
        /\ table'.later = nodes.later /\ table'.current = nodes.current
    <2>1. PICK main \in user_qos(queue.used) :
             table' = [rows |-> build_table(nodes.free), free |-> nodes.free,
                       later |-> nodes.later, left |-> user_room(queue.used), main |-> main,
                       at |-> now, current |-> nodes.current]
      BY <1>1
    <2>2. main \in QOSes \cup {None} /\ now \in Nat
      BY <1>5, TimeAssumption DEF TypeOK
    <2> QED
      BY <1>1, <1>3, <1>4, <2>1, <2>2 DEF TableData, NodeData
  <1>7. TypeOK'
    BY <1>1, <1>6 DEF TypeOK, NodeData
  <1>8. JobsCounted' /\ ReservationsKept'
    BY <1>1 DEF JobsCounted, ReservationsKept, JobsKeepTo
  <1>9. DataKnown'
    BY <1>1, <1>2, <1>6 DEF DataKnown
  <1>10. CurrentCovers'
    <2>1. PICK a \in 0 .. now : nodes.later = LaterSince(a) /\ Covers(nodes.free, nodes.current, a)
      BY <1>1 DEF CurrentCovers
    <2>2. \A n, b : Begun(n, b)' = Begun(n, b)
      BY <1>1 DEF Begun, HeldAt
    <2>3. Covers(nodes.free, nodes.current, a)' /\ Covers(room, table.current, a)'
      BY <1>1, <1>6, <2>1, <2>2 DEF Covers
    <2>4. LaterSince(a)' = LaterSince(a)
      BY DEF LaterSince
    <2> QED
      BY <1>1, <1>6, <2>1, <2>3, <2>4 DEF CurrentCovers
  <1> QED
    BY <1>7, <1>8, <1>9, <1>10

(* A pin is counted against the room, and if the job starts its room is what *)
(* it takes.                                                                 *)
LEMMA SubmitKeeps == IInv /\ Submit => IInv'
  <1> SUFFICES ASSUME IInv, Submit PROVE IInv'
    OBVIOUS
  <1> USE DEF IInv
  <1>a. PICK job \in JobTypes : \E parts \in Placed(job) : \E n \in PinOf(job, parts) :
           /\ starts > 0
           /\ room' = [room EXCEPT ![n] = Minus(@, Asked(job))]
           /\ \/ /\ running' = running \cup
                       {Started(Alone(n, Asked(job)), job.limit, None, QosOf(job))}
                 /\ starts' = starts - 1
              \/ UNCHANGED <<running, starts>>
           /\ nodes' = Outdated(nodes, {n})
           /\ UNCHANGED <<now, queue, table>>
    BY DEF Submit
  <1>b. PICK parts \in Placed(job) : \E n \in PinOf(job, parts) :
           /\ starts > 0
           /\ room' = [room EXCEPT ![n] = Minus(@, Asked(job))]
           /\ \/ /\ running' = running \cup
                       {Started(Alone(n, Asked(job)), job.limit, None, QosOf(job))}
                 /\ starts' = starts - 1
              \/ UNCHANGED <<running, starts>>
           /\ nodes' = Outdated(nodes, {n})
           /\ UNCHANGED <<now, queue, table>>
    BY <1>a
  <1>1. PICK n \in PinOf(job, parts) :
           /\ starts > 0
           /\ room' = [room EXCEPT ![n] = Minus(@, Asked(job))]
           /\ \/ /\ running' = running \cup
                       {Started(Alone(n, Asked(job)), job.limit, None, QosOf(job))}
                 /\ starts' = starts - 1
              \/ UNCHANGED <<running, starts>>
           /\ nodes' = Outdated(nodes, {n})
           /\ UNCHANGED <<now, queue, table>>
    BY <1>b
  <1> DEFINE at == Alone(n, Asked(job))
             new == Started(at, job.limit, None, QosOf(job))
  <1>2. /\ Asked(job) \in Shapes /\ job.limit \in Limits
        /\ Asked(job).cpus \in Nat \ {0} /\ Asked(job).mem \in Nat \ {0}
    BY AskedShape
  <1>3. table # None
    BY DEF Placed, Recent
  <1>4. n \in Nodes /\ Holds(room[n], Asked(job))
    BY <1>3, PinHasRoom
  <1>5. /\ at \in Allocations /\ at[n] = Asked(job)
        /\ \A o \in Nodes \ {n} : at[o] = Nothing /\ o \notin NodesOf(at)
    BY <1>2, <1>4 DEF Alone, Allocations, Nothing, Shapes, NodesOf
  <1>6. room \in [Nodes -> Shapes] /\ Within(room)
    BY <1>3 DEF TypeOK, DataKnown
  <1>7. room' \in [Nodes -> Shapes] /\ Within(room')
    <2>1. Minus(room[n], Asked(job)) \in Shapes
      BY <1>2, <1>4, <1>6 DEF Minus, Holds, Shapes
    <2>2. room' \in [Nodes -> Shapes]
      BY <1>1, <1>4, <1>6, <2>1
    <2>3. ASSUME NEW o \in Nodes
          PROVE  room'[o].cpus <= Total[o].cpus /\ room'[o].mem <= Total[o].mem
      <3>1. room[o].cpus <= Total[o].cpus /\ room[o].mem <= Total[o].mem
        BY <1>6 DEF Within
      <3>2. CASE o # n
        BY <1>1, <1>6, <3>1, <3>2
      <3>3. CASE o = n
        <4>1. /\ room'[o].cpus = room[o].cpus - Asked(job).cpus
              /\ room'[o].mem = room[o].mem - Asked(job).mem
          BY <1>1, <1>4, <1>6, <3>3 DEF Minus
        <4>2. /\ room[o].cpus \in Nat /\ room[o].mem \in Nat
              /\ Total[o].cpus \in Nat /\ Total[o].mem \in Nat
          BY <1>6, NodeShape DEF Shapes
        <4> QED
          BY <1>2, <3>1, <4>1, <4>2
      <3> QED
        BY <3>2, <3>3
    <2> QED
      BY <1>6, <2>2, <2>3 DEF Within
  <1>8. /\ nodes' \in NodeData \cup {None}
        /\ nodes' # None => /\ nodes # None /\ nodes'.free = nodes.free
                            /\ nodes'.later = nodes.later
                            /\ nodes'.current = nodes.current \ {n}
    BY <1>1, OutdatedData DEF TypeOK
  <1>9. DataKnown'
    BY <1>1, <1>7, <1>8 DEF DataKnown
  <1>10. running' = running \cup {new} /\ starts' = starts - 1 => new \in Running /\ new.at = at /\ new.resv = None
    <2>1. starts > 0 /\ QosOf(job) \in QOSes \cup {None} /\ None \in Names \cup {None}
      BY <1>1 DEF QosOf, QOSes
    <2>2. new = Started(at, job.limit, None, QosOf(job))
      OBVIOUS
    <2> HIDE DEF new, at
    <2> QED
      BY <1>2, <1>5, <2>1, <2>2, StartedType
  <1> HIDE DEF new
  <1>11. /\ TypeOK' /\ JobsCounted' /\ ReservationsKept'
         /\ \/ running' = running \cup {new} /\ new.at = at
            \/ running' = running
    <2>1. CASE running' = running \cup {new} /\ starts' = starts - 1
      <3>1. new \in Running /\ new.at = at /\ new.resv = None
        BY <1>10, <2>1
      <3>2. /\ IsFiniteSet(running') /\ Cardinality(running') <= MaxStarts - starts'
            /\ starts' \in 0 .. MaxStarts
        BY <1>1, <2>1, StartCounted
      <3>3. TypeOK' /\ JobsCounted'
        BY <1>1, <1>7, <1>8, <2>1, <3>1, <3>2 DEF TypeOK, JobsCounted
      <3>4. \A r \in Reservations : r.name # None
        BY NoneAssumption DEF Names
      <3>5. ReservationsKept'
        BY <2>1, <3>1, <3>4, KeptByMore
      <3> QED
        BY <2>1, <3>1, <3>3, <3>5
    <2>2. CASE UNCHANGED <<running, starts>>
      BY <1>1, <1>7, <1>8, <2>2 DEF TypeOK, JobsCounted, ReservationsKept, JobsKeepTo
    <2>3. new = Started(at, job.limit, None, QosOf(job))
      BY DEF new
    <2> QED
      BY <1>1, <2>1, <2>2, <2>3
  <1> HIDE DEF at
  <1>12. ASSUME NEW a \in 0 .. now, NEW o \in Nodes \ {n}, NEW free \in Shapes,
                Spares(o, free, running, Begun(o, a))
         PROVE  Spares(o, free, running', Begun(o, a)')
    <2>1. Begun(o, a)' = Begun(o, a) /\ Begun(o, a) \subseteq ReservationsOf(o)
      BY <1>1 DEF Begun, HeldAt
    <2>2. CASE running' = running
      BY <1>12, <2>1, <2>2
    <2>3. CASE running' = running \cup {new} /\ new.at = at
      <3>1. new.at \in Allocations /\ o \notin NodesOf(new.at)
        BY <1>5, <2>3
      <3>2. Spares(o, free, running \cup {new}, Begun(o, a))
        BY <1>12, <2>1, <3>1, SparesElsewhere
      <3> QED
        BY <2>1, <2>3, <3>2
    <2> QED
      BY <1>11, <2>2, <2>3
  <1>13. ASSUME NEW a \in 0 .. now, Spares(n, room[n], running, Begun(n, a))
         PROVE  Spares(n, room'[n], running', Begun(n, a)')
    <2>1. Begun(n, a)' = Begun(n, a) /\ Begun(n, a) \subseteq ReservationsOf(n)
      BY <1>1 DEF Begun, HeldAt
    <2>2. room'[n] = Minus(room[n], Asked(job)) /\ room[n] \in Shapes
      BY <1>1, <1>4, <1>6
    <2>3. CASE running' = running
      <3> DEFINE j == [at |-> at]
      <3>1. j.at \in Allocations /\ j.at[n] = Asked(job)
        BY <1>5
      <3> HIDE DEF j
      <3>2. Spares(n, Minus(room[n], j.at[n]), running, Begun(n, a))
        BY <1>4, <1>13, <2>1, <2>2, <3>1, SparesOneMore
      <3> QED
        BY <2>1, <2>2, <2>3, <3>1, <3>2
    <2>4. CASE running' = running \cup {new} /\ new.at = at
      <3>1. new.at \in Allocations /\ new.at[n] = Asked(job)
        BY <1>5, <2>4
      <3>2. Spares(n, Minus(room[n], new.at[n]), running \cup {new}, Begun(n, a))
        BY <1>4, <1>13, <2>1, <2>2, <3>1, SparesOneMore
      <3> QED
        BY <2>1, <2>2, <2>4, <3>1, <3>2
    <2> QED
      BY <1>11, <2>3, <2>4
  <1>14. CurrentCovers'
    <2>1. ASSUME nodes' # None
          PROVE  \E a \in 0 .. now' : nodes'.later = LaterSince(a) /\ Covers(nodes.free, nodes.current, a)'
      <3>1. PICK a \in 0 .. now : nodes.later = LaterSince(a) /\ Covers(nodes.free, nodes.current, a)
        BY <1>8, <2>1 DEF CurrentCovers
      <3>2. nodes.free \in [Nodes -> Shapes] /\ nodes.current \subseteq Nodes
        BY <1>8, <2>1 DEF TypeOK, NodeData
      <3>3. \A o \in nodes'.current : Spares(o, nodes'.free[o], running', Begun(o, a)')
        BY <1>8, <1>12, <2>1, <3>1, <3>2, CoversNodes
      <3>4. Covers(nodes.free, nodes.current, a)'
        BY <3>3 DEF Covers
      <3> QED
        BY <1>1, <1>8, <2>1, <3>1, <3>4
    <2>2. \E a \in 0 .. now' : table'.later = LaterSince(a) /\ Covers(room, table.current, a)'
      <3>1. PICK a \in 0 .. now : table.later = LaterSince(a) /\ Covers(room, table.current, a)
        BY <1>3 DEF CurrentCovers
      <3>2. table.current \subseteq Nodes
        BY <1>3 DEF TypeOK, TableData
      <3>3. ASSUME NEW o \in table.current
            PROVE  Spares(o, room'[o], running', Begun(o, a)')
        <4>1. o \in Nodes /\ Spares(o, room[o], running, Begun(o, a)) /\ room[o] \in Shapes
          BY <1>6, <3>1, <3>2, CoversNodes
        <4>2. CASE o = n
          BY <1>13, <4>1, <4>2
        <4>3. CASE o # n
          <5>1. room'[o] = room[o]
            BY <1>1, <1>6, <4>1, <4>3
          <5> QED
            BY <1>12, <4>1, <4>3, <5>1
        <4> QED
          BY <4>2, <4>3
      <3>4. Covers(room, table.current, a)'
        BY <1>1, <3>3 DEF Covers
      <3> QED
        BY <1>1, <3>1, <3>4
    <2>3. \A a : LaterSince(a)' = LaterSince(a)
      BY DEF LaterSince
    <2> QED
      BY <2>1, <2>2, <2>3 DEF CurrentCovers
  <1> QED
    BY <1>9, <1>11, <1>14

(* Rounding gives an integer.                                                *)
LEMMA RoundInt ==
    ASSUME NEW x \in Int
    PROVE  Round(x) \in Int
  <1>1. Split \in Nat /\ Split > 0
    BY TimeAssumption
  <1>2. x \div Split \in Int
    BY <1>1
  <1> QED
    BY <1>2 DEF Round

(* What is taken for used of a reservation is a natural number of parts of   *)
(* a CPU, and what is left of it one of CPUs.                                *)
LEMMA LeftAndUsed ==
    ASSUME TypeOK, JobsCounted, NEW n \in Nodes, NEW r \in ReservationsOf(n)
    PROVE  UsedBy(r, n) \in Nat /\ LeftOf(r, n) \in Nat /\ MemShare(n, LeftOf(r, n)) \in Nat
  <1> DEFINE js == {x \in JobsOf(queue.reserved, {r}) : n \in NodesOf(x.at)}
             u == [j \in js |-> j.cpus * (Split \div Cardinality(NodesOf(j.at)))]
  <1>1. js \subseteq queue.reserved /\ queue.reserved \subseteq Running /\ IsFiniteSet(queue.reserved)
    BY DEF TypeOK, JobsCounted, JobsOf
  <1>2. IsFiniteSet(js)
    BY <1>1, FS_Subset
  <1>3. Split \in Nat /\ IsFiniteSet(Nodes)
    BY TimeAssumption, ClusterAssumption
  <1>4. ASSUME NEW j \in js
        PROVE  u[j] \in Nat
    <2>1. j.cpus \in Nat /\ n \in NodesOf(j.at) /\ NodesOf(j.at) \subseteq Nodes
      BY <1>1 DEF Running, NodesOf
    <2>2. IsFiniteSet(NodesOf(j.at)) /\ Cardinality(NodesOf(j.at)) \in Nat
      BY <1>3, <2>1, FS_Subset, FS_CardinalityType
    <2>3. Cardinality(NodesOf(j.at)) # 0
      BY <2>1, <2>2, FS_EmptySet
    <2> DEFINE k == Split \div Cardinality(NodesOf(j.at))
    <2>4. k \in Nat
      BY <1>3, <2>2, <2>3, Quotients
    <2>5. j.cpus * k \in Nat
      <3> HIDE DEF k
      <3> QED
        BY <2>1, <2>4, Products
    <2> QED
      BY <2>5
  <1>5. UsedBy(r, n) \in Nat
    <2>1. UsedBy(r, n) = Sum(u, js)
      BY DEF UsedBy, SumFunction, Sum
    <2> HIDE DEF u, js
    <2> QED
      BY <1>2, <1>4, <2>1, SumNat
  <1> DEFINE x == ReservedCpus(r, n) * Split - UsedBy(r, n)
             left == Round(x)
  <1>6. left \in Int
    <2>1. ReservedCpus(r, n) * Split \in Nat
      BY <1>3, ReservedNat, Products
    <2>2. x \in Int
      BY <1>5, <2>1
    <2> HIDE DEF x
    <2> QED
      BY <2>2, RoundInt
  <1>7. LeftOf(r, n) = Max({0, left})
    BY DEF LeftOf
  <1>8. LeftOf(r, n) \in Nat
    <2> HIDE DEF left
    <2> QED
      BY <1>6, <1>7, MaxOfTwo
  <1> QED
    BY <1>5, <1>8, MemShareNat

(* Rounding does not go below a whole number.                                *)
LEMMA RoundAtLeast ==
    ASSUME NEW x \in Int, NEW w \in Int, x >= w * Split
    PROVE  Round(x) >= w
  <1> DEFINE q == x \div Split
             m == x % Split
  <1>1. Split \in Nat /\ Split > 0
    BY TimeAssumption
  <1>2. q \in Int /\ m \in 0 .. Split - 1 /\ x = Split * q + m
    BY <1>1
  <1>3. q >= w
    <2>1. SUFFICES ASSUME q <= w - 1 PROVE FALSE
      <3> HIDE DEF q
      <3> QED
        BY <1>2
    <2> DEFINE d == w - 1 - q
    <2>2. d \in Nat /\ w = q + 1 + d
      <3> HIDE DEF q, m
      <3> QED
        BY <1>2, <2>1
    <2>3. w * Split = Split * q + Split + d * Split /\ d * Split \in Nat
      <3> HIDE DEF q, m, d
      <3> QED
        BY <1>1, <1>2, <2>2
    <2>4. Split * q \in Int
      <3> HIDE DEF q, m, d
      <3> QED
        BY <1>1, <1>2
    <2> HIDE DEF q, m, d
    <2> QED
      BY <1>1, <1>2, <2>3, <2>4
  <1>4. Round(x) \in {q, q + 1}
    BY DEF Round
  <1> HIDE DEF q, m
  <1> QED
    BY <1>2, <1>3, <1>4

(* Products of three.                                                        *)
LEMMA ThreeFactors ==
    ASSUME NEW a \in Nat, NEW b \in Nat, NEW c \in Nat
    PROVE  (a * b) * c = a * (b * c)
  OBVIOUS

(* A part of a job on each of its nodes, as reserve counts it, is no more    *)
(* than the job has there, if that is at least an even part.                 *)
LEMMA EvenPart ==
    ASSUME NEW n \in Nodes, NEW at \in Allocations, n \in NodesOf(at), NEW c \in Nat,
           c <= at[n].cpus * Cardinality(NodesOf(at))
    PROVE  c * (Split \div Cardinality(NodesOf(at))) <= at[n].cpus * Split
  <1> DEFINE k == Cardinality(NodesOf(at))
             s == Split \div k
             a == at[n].cpus
  <1>1. IsFiniteSet(Nodes) /\ NodesOf(at) \subseteq Nodes /\ NodesOf(at) # {}
    BY ClusterAssumption DEF NodesOf
  <1>2. k \in 1 .. Cardinality(Nodes)
    <2>1. IsFiniteSet(NodesOf(at)) /\ k <= Cardinality(Nodes)
      BY <1>1, FS_Subset
    <2>2. k \in Nat /\ k # 0 /\ Cardinality(Nodes) \in Nat
      BY <1>1, <2>1, FS_CardinalityType, FS_EmptySet
    <2> QED
      BY <2>1, <2>2
  <1>3. Split \in Nat /\ Split % k = 0
    BY <1>2, TimeAssumption
  <1>4. s \in Nat /\ Split = k * s
    <2>1. k \in Nat /\ k > 0
      BY <1>2, FS_CardinalityType, <1>1
    <2> HIDE DEF k
    <2> QED
      BY <1>3, <2>1
  <1>5. a \in Nat /\ k \in Nat
    BY <1>1, <1>2, FS_CardinalityType DEF Allocations, Shapes
  <1>6. c * s <= (a * k) * s
    <2>1. a * k \in Nat /\ c <= a * k
      BY <1>5
    <2> HIDE DEF a, k, s
    <2> QED
      BY <1>4, <2>1, Products
  <1>7. (a * k) * s = a * (k * s)
    <2> HIDE DEF a, k, s
    <2> QED
      BY <1>4, <1>5, ThreeFactors
  <1> QED
    BY <1>4, <1>6, <1>7

(* What reserve takes for used of a reservation is no more than its jobs     *)
(* have there, if each it counts is there with at least an even part.        *)
LEMMA UsedIsThere ==
    ASSUME TypeOK, JobsCounted, NEW n \in Nodes, NEW r \in HeldAt(n, now), PartsAreThere(n)
    PROVE  ReservedCpus(r, n) - LeftOf(r, n) <= CpusOn(n, JobsOf(running, {r}))
  <1> DEFINE js == {x \in JobsOf(queue.reserved, {r}) : n \in NodesOf(x.at)}
             u == [j \in js |-> j.cpus * (Split \div Cardinality(NodesOf(j.at)))]
             v == [j \in js |-> j.at[n].cpus]
             own == JobsOf(running, {r})
  <1>1. r \in ReservationsOf(n) /\ Split \in Nat
    BY TimeAssumption DEF HeldAt
  <1>2. /\ js \subseteq queue.reserved /\ queue.reserved \subseteq Running
        /\ IsFiniteSet(queue.reserved) /\ js \subseteq own
    BY DEF TypeOK, JobsCounted, JobsOf, PartsAreThere
  <1>3. IsFiniteSet(js) /\ IsFiniteSet(own) /\ Spread(own)
    <2>1. own \subseteq running
      BY DEF JobsOf
    <2> QED
      BY <1>2, <2>1, FS_Subset, SomeRunning
  <1>4. ASSUME NEW j \in js
        PROVE  u[j] \in Nat /\ v[j] \in Nat /\ u[j] <= v[j] * Split
    <2> DEFINE k == Split \div Cardinality(NodesOf(j.at))
               a == j.at[n].cpus
    <2>1. /\ j.cpus \in Nat /\ j.at \in Allocations /\ n \in NodesOf(j.at)
          /\ j.cpus <= j.at[n].cpus * Cardinality(NodesOf(j.at))
      BY <1>2 DEF Running, PartsAreThere
    <2>2. j.cpus * k <= a * Split
      BY <2>1, EvenPart
    <2>3. a \in Nat
      BY <2>1 DEF Allocations, Shapes
    <2>4. j.cpus * k \in Nat
      <3>1. NodesOf(j.at) \subseteq Nodes /\ IsFiniteSet(Nodes) /\ NodesOf(j.at) # {}
        BY <2>1, ClusterAssumption DEF NodesOf
      <3>2. Cardinality(NodesOf(j.at)) \in Nat /\ Cardinality(NodesOf(j.at)) > 0
        BY <3>1, FS_Subset, FS_CardinalityType, FS_EmptySet
      <3>3. k \in Nat
        BY <1>1, <3>2, Quotients
      <3> HIDE DEF k
      <3> QED
        BY <2>1, <3>3, Products
    <2>5. u[j] = j.cpus * k /\ v[j] = a
      OBVIOUS
    <2> HIDE DEF u, v, k, a
    <2> QED
      BY <2>2, <2>3, <2>4, <2>5
  <1>5. UsedBy(r, n) = Sum(u, js) /\ CpusOn(n, js) = Sum(v, js)
    BY DEF UsedBy, CpusOn, SumFunction, Sum
  <1>6. UsedBy(r, n) <= CpusOn(n, js) * Split
    <2>1. Sum(u, js) <= Sum(v, js) * Split
      <3> HIDE DEF u, v, js
      <3> QED
        BY <1>1, <1>3, <1>4, SumTimes
    <2> QED
      BY <1>5, <2>1
  <1> DEFINE all == ReservedCpus(r, n)
             used == CpusOn(n, js)
             x == all * Split - UsedBy(r, n)
             left == Round(x)
  <1>7. all \in Nat /\ UsedBy(r, n) \in Nat
    BY <1>1, ReservedNat, LeftAndUsed
  <1>8. CpusOn(n, js) \in Nat /\ CpusOn(n, js) <= CpusOn(n, own) /\ CpusOn(n, own) \in Nat
    <2> HIDE DEF js, own
    <2> QED
      BY <1>2, <1>3, SizesOn, SizesOnFewer
  <1>9. x \in Int /\ x >= (all - used) * Split /\ all - used \in Int
    <2>1. (all - used) * Split = all * Split - used * Split
      <3> HIDE DEF all, used
      <3> QED
        BY <1>1, <1>7, <1>8 DEF used
    <2>2. all * Split \in Int /\ used * Split \in Int
      <3> HIDE DEF all
      <3> QED
        BY <1>1, <1>7, <1>8
    <2> HIDE DEF all, js
    <2> QED
      BY <1>6, <1>7, <1>8, <2>1, <2>2
  <1>10. left \in Int /\ left >= all - used
    <2> HIDE DEF x, all, used
    <2> QED
      BY <1>9, RoundInt, RoundAtLeast
  <1>11. LeftOf(r, n) = Max({0, left})
    BY DEF LeftOf
  <1>12. LeftOf(r, n) \in Int /\ LeftOf(r, n) >= left
    <2> HIDE DEF left
    <2> QED
      BY <1>10, <1>11, MaxOfTwo
  <1> HIDE DEF left, all, used, own, js
  <1> QED
    BY <1>7, <1>8, <1>10, <1>12 DEF all, used, own

(* What a poll shows as free of a node is no more than it has; and it leaves *)
(* room for what runs and for the active reservations, if each of their jobs *)
(* that is counted there is there with at least an even part.                *)
LEMMA PolledFree ==
    ASSUME TypeOK, JobsCounted, NEW n \in Nodes,
           NEW free, free = AtLeastZero(Minus(Total[n], Allocated(n)))
    PROVE  /\ free \in Shapes /\ free.cpus <= Total[n].cpus /\ free.mem <= Total[n].mem
           /\ ReservationsKept /\ PartsAreThere(n) => Spares(n, free, running, HeldAt(n, now))
  <1> DEFINE held == HeldAt(n, now)
             theirs == JobsOf(running, held)
             own == running \ theirs
             left == [r \in held |-> LeftOf(r, n)]
             share == [r \in held |-> MemShare(n, LeftOf(r, n))]
             resv == [r \in held |-> ReservedCpus(r, n)]
             part == [r \in held |-> JobsOf(running, {r})]
             used == [r \in held |-> CpusOn(n, part[r])]
             c == Total[n].cpus - (CpusOn(n, running) + SumFunction(left))
             m == Total[n].mem - (MemOn(n, running) + SumFunction(share))
  <1>1. held \subseteq ReservationsOf(n) /\ IsFiniteSet(held) /\ held \subseteq Reservations
    <2>1. held \subseteq ReservationsOf(n)
      BY DEF HeldAt
    <2> QED
      BY <2>1, FewerReservations DEF ReservationsOf
  <1>2. /\ IsFiniteSet(running) /\ Spread(running)
        /\ CpusOn(n, running) \in Nat /\ MemOn(n, running) \in Nat
    BY SomeRunning, SizesOn
  <1>3. /\ CpusOn(n, running) = CpusOn(n, own) + CpusOn(n, theirs)
        /\ CpusOn(n, own) \in Nat /\ CpusOn(n, theirs) \in Nat
    BY OwnAndReserved
  <1>4. ASSUME NEW r \in held
        PROVE  /\ left[r] \in Nat /\ share[r] \in Nat /\ resv[r] \in Nat
               /\ used[r] \in Nat /\ IsFiniteSet(part[r]) /\ Spread(part[r]) /\ part[r] \subseteq theirs
    <2>1. left[r] \in Nat /\ share[r] \in Nat /\ resv[r] \in Nat
      BY <1>1, LeftAndUsed, ReservedNat
    <2>2. part[r] \subseteq running /\ part[r] \subseteq theirs
      BY DEF JobsOf
    <2>3. IsFiniteSet(part[r]) /\ Spread(part[r])
      BY <2>2, SomeRunning
    <2>4. CpusOn(n, part[r]) \in Nat
      <3> HIDE DEF part
      <3> QED
        BY <2>3, SizesOn
    <2> QED
      BY <2>1, <2>2, <2>3, <2>4
  <1>5. /\ SumFunction(left) = Sum(left, held) /\ SumFunction(share) = Sum(share, held)
        /\ Reserved(n, held) = Sum(resv, held)
    BY DEF Reserved, SumFunction, Sum
  <1>6. /\ SumFunction(left) \in Nat /\ SumFunction(share) \in Nat
        /\ Sum(used, held) \in Nat /\ Reserved(n, held) \in Nat
    <2> HIDE DEF left, share, used, resv, held
    <2> QED
      BY <1>1, <1>4, <1>5, SumNat
  <1>7. Total[n].cpus \in Nat /\ Total[n].mem \in Nat
    BY NodeShape
  <1>8. free.cpus = Max({0, c}) /\ free.mem = Max({0, m})
    BY DEF AtLeastZero, Minus, Allocated
  <1>9. c \in Int /\ m \in Int /\ c <= Total[n].cpus /\ m <= Total[n].mem
    <2> HIDE DEF left, share
    <2> QED
      BY <1>2, <1>6, <1>7
  <1>10. /\ free.cpus = (IF 0 <= c THEN c ELSE 0)
         /\ free.mem = (IF 0 <= m THEN m ELSE 0)
    <2> HIDE DEF c, m
    <2> QED
      BY <1>8, <1>9, MaxOfTwo
  <1>11. free \in Shapes
    <2>1. free.cpus \in Nat /\ free.mem \in Nat
      <3> HIDE DEF c, m
      <3> QED
        BY <1>9, <1>10
    <2>2. free = [cpus |-> free.cpus, mem |-> free.mem]
      BY DEF AtLeastZero
    <2> QED
      BY <2>1, <2>2 DEF Shapes
  <1>12. free.cpus <= Total[n].cpus /\ free.mem <= Total[n].mem
    <2> HIDE DEF c, m
    <2> QED
      BY <1>7, <1>9, <1>10
  <1>13. ASSUME ReservationsKept, PartsAreThere(n)
         PROVE  Spares(n, free, running, held)
    <2>1. \A r \in held : resv[r] <= left[r] + used[r]
      <3> TAKE r \in held
      <3>1. ReservedCpus(r, n) - LeftOf(r, n) <= CpusOn(n, JobsOf(running, {r}))
        BY <1>13, UsedIsThere
      <3>2. /\ resv[r] = ReservedCpus(r, n) /\ left[r] = LeftOf(r, n)
            /\ used[r] = CpusOn(n, JobsOf(running, {r}))
        OBVIOUS
      <3>3. resv[r] \in Nat /\ left[r] \in Nat /\ used[r] \in Nat
        BY <1>4
      <3> HIDE DEF resv, left, used, held
      <3> QED
        BY <3>1, <3>2, <3>3
    <2>2. Sum(used, held) = CpusOn(n, theirs)
      <3> DEFINE v == [j \in theirs |-> j.at[n].cpus]
      <3>1. IsFiniteSet(theirs) /\ Spread(theirs)
        <4>1. theirs \subseteq running
          BY DEF JobsOf
        <4> QED
          BY <4>1, SomeRunning
      <3>2. \A j \in theirs : v[j] \in Nat
        BY <3>1 DEF Spread, Allocations, Shapes
      <3>3. \A r, s \in held : r # s => part[r] \cap part[s] = {}
        BY <1>1, TimeAssumption DEF JobsOf
      <3>4. UNION {part[r] : r \in held} = theirs
        BY DEF JobsOf
      <3>5. CpusOn(n, theirs) = Sum(v, theirs)
        BY DEF CpusOn, SumFunction, Sum
      <3>6. ASSUME NEW r \in held
            PROVE  used[r] = Sum(v, part[r]) /\ part[r] \subseteq theirs
        <4> DEFINE w == [j \in part[r] |-> j.at[n].cpus]
        <4>1. used[r] = Sum(w, part[r])
          BY DEF CpusOn, SumFunction, Sum
        <4>2. part[r] \subseteq theirs /\ IsFiniteSet(part[r])
          BY <1>4
        <4>3. \A j \in part[r] : w[j] \in Nat /\ w[j] = v[j]
          BY <3>2, <4>2
        <4>4. Sum(w, part[r]) = Sum(v, part[r])
          <5> HIDE DEF part, w, v
          <5> QED
            BY <4>2, <4>3, SumSame
        <4> QED
          BY <4>1, <4>2, <4>4
      <3> HIDE DEF held, theirs, part, used, v
      <3>7. Sum(used, held) = Sum(v, UNION {part[x] : x \in held})
        BY <1>1, <3>1, <3>2, <3>3, <3>6, SumOfParts
      <3> QED
        BY <3>4, <3>5, <3>7
    <2>3. Reserved(n, held) <= SumFunction(left) + CpusOn(n, theirs)
      <3>1. ASSUME NEW r \in held
            PROVE  /\ resv[r] \in Int /\ left[r] \in Nat /\ used[r] \in Nat
                   /\ resv[r] <= left[r] + used[r]
        <4>1. resv[r] \in Nat /\ left[r] \in Nat /\ used[r] \in Nat
          BY <1>4
        <4> HIDE DEF held, left, used, resv
        <4> QED
          BY <2>1, <4>1
      <3> HIDE DEF held, theirs, left, used, resv
      <3>2. Sum(resv, held) <= Sum(left, held) + Sum(used, held)
        BY <1>1, <3>1, SumOfTwo
      <3> QED
        BY <1>5, <2>2, <3>2
    <2>4. free.cpus > 0 => free.cpus + CpusOn(n, own) + Reserved(n, held) <= Total[n].cpus
      <3> HIDE DEF own, theirs, left, held
      <3> QED
        BY <1>2, <1>3, <1>6, <1>7, <1>10, <2>3
    <2>5. free.mem > 0 => free.mem + MemOn(n, running) <= Total[n].mem
      <3> HIDE DEF share
      <3> QED
        BY <1>2, <1>6, <1>7, <1>10
    <2> QED
      BY <2>4, <2>5 DEF Spares
  <1> QED
    BY <1>11, <1>12, <1>13

(* A poll of the nodes keeps the invariant: the snapshot is the cluster at   *)
(* this moment.                                                              *)
LEMMA PollNodesKeeps == IInv /\ PollNodes => IInv'
  <1> SUFFICES ASSUME IInv, PollNodes PROVE IInv'
    OBVIOUS
  <1> USE DEF IInv
  <1> DEFINE free(n) == AtLeastZero(Minus(Total[n], Allocated(n)))
  <1>1. /\ nodes' = [free |-> [n \in Nodes |-> free(n)], later |-> [n \in Nodes |-> LaterOn(n)],
                     at |-> now, current |-> {n \in Nodes : PartsAreThere(n)}]
        /\ UNCHANGED <<now, running, starts, queue, table, room>>
    BY DEF PollNodes
  <1>2. now \in Nat
    BY TimeAssumption DEF TypeOK
  <1>3. [n \in Nodes |-> LaterOn(n)] = LaterSince(now)
    BY DEF LaterOn, LaterSince
  <1>4. LaterSince(now) \in [Nodes -> SUBSET Later]
    BY LaterType
  <1>5. \A n \in Nodes : /\ free(n) \in Shapes
                         /\ free(n).cpus <= Total[n].cpus /\ free(n).mem <= Total[n].mem
    BY PolledFree
  <1>6. ASSUME NEW n \in Nodes, PartsAreThere(n)
        PROVE  Spares(n, free(n), running, HeldAt(n, now))
    BY <1>6, PolledFree
  <1>7. \A n \in Nodes : Begun(n, now) = HeldAt(n, now)
    BY DEF Begun, HeldAt, Active
  <1> HIDE DEF free
  <1>8. /\ nodes'.free = [n \in Nodes |-> free(n)] /\ nodes'.later = LaterSince(now)
        /\ nodes'.current = {n \in Nodes : PartsAreThere(n)}
        /\ nodes' \in NodeData
    BY <1>1, <1>2, <1>3, <1>4, <1>5 DEF NodeData
  <1>9. TypeOK'
    BY <1>1, <1>8 DEF TypeOK
  <1>10. JobsCounted' /\ ReservationsKept'
    BY <1>1 DEF JobsCounted, ReservationsKept, JobsKeepTo
  <1>11. DataKnown'
    <2>1. Within(nodes'.free)
      BY <1>5, <1>8 DEF Within
    <2>2. now \in 0 .. now'
      BY <1>1, <1>2
    <2> QED
      BY <1>1, <1>8, <2>1, <2>2 DEF DataKnown
  <1>12. CurrentCovers'
    <2>1. \A n, a : Begun(n, a)' = Begun(n, a)
      BY <1>1 DEF Begun, HeldAt
    <2>2. PICK a \in 0 .. now : a = now
      BY <1>2
    <2>3. \A n \in nodes'.current : Spares(n, nodes'.free[n], running', Begun(n, a)')
      BY <1>1, <1>6, <1>7, <1>8, <2>1, <2>2
    <2>4. Covers(nodes.free, nodes.current, a)'
      BY <2>3 DEF Covers
    <2>5. \A b : Covers(room, table.current, b)' <=> Covers(room, table.current, b)
      BY <1>1, <2>1 DEF Covers
    <2>6. \A b : LaterSince(b)' = LaterSince(b)
      BY DEF LaterSince
    <2> QED
      BY <1>1, <1>8, <2>2, <2>4, <2>5, <2>6 DEF CurrentCovers
  <1> QED
    BY <1>9, <1>10, <1>11, <1>12

(* The invariant is inductive.                                               *)
LEMMA StepKeeps == IInv /\ [Next]_vars => IInv'
  <1> SUFFICES ASSUME IInv, [Next]_vars PROVE IInv'
    OBVIOUS
  <1>1. now \in Nat /\ MaxNow \in Nat /\ now <= MaxNow
    BY TimeAssumption DEF IInv, TypeOK
  <1>2. CASE JobEnds
    BY <1>1, <1>2, TimePasses DEF JobEnds
  <1>3. CASE Tick
    BY <1>1, <1>3, TimePasses DEF Tick
  <1>4. CASE StartOther
    BY <1>4, StartOtherKeeps
  <1>5. CASE StartReserved
    BY <1>5, StartReservedKeeps
  <1>6. CASE PollQueue
    BY <1>6, PollQueueKeeps
  <1>7. CASE PollNodes
    BY <1>7, PollNodesKeeps
  <1>8. CASE Score
    BY <1>8, ScoreKeeps
  <1>9. CASE Submit
    BY <1>9, SubmitKeeps
  <1>10. CASE UNCHANGED vars
    BY <1>1, <1>10, TimePasses DEF vars
  <1> QED
    BY <1>2, <1>3, <1>4, <1>5, <1>6, <1>7, <1>8, <1>9, <1>10 DEF Next

(* The inductive invariant: the types, that every job that runs was counted, *)
(* that jobs in reservations keep to them, that data is of the reservations  *)
(* to come and of no more than the nodes have, and that it leaves room for   *)
(* all that runs and is reserved on the nodes of which it is current.        *)
THEOREM DataCovers == Spec => []IInv
  <1>1. Init => IInv
    BY InitHolds
  <1>2. IInv /\ [Next]_vars => IInv'
    BY StepKeeps
  <1> QED
    BY <1>1, <1>2, PTL DEF Spec

(* Every variable of the placement model always has its type: a pin never    *)
(* takes more of the plugin's copy than it shows (sjp.lua place), and there  *)
(* is an id for every job that starts.                                       *)
THEOREM TypeCorrect == Spec => []TypeOK
  <1>1. IInv => TypeOK
    BY DEF IInv
  <1> QED
    BY <1>1, DataCovers, PTL

-----------------------------------------------------------------------------
(* Room for a job, by the table's data, is room in which Slurm can start it, *)
(* on the nodes of which that is current; and what is left of the cap is     *)
(* enough for a job that is pinned.                                          *)
LEMMA CurrentPlaces == IInv => PlacedCanStart
  <1> SUFFICES ASSUME IInv, table # None, NEW job \in JobTypes, NEW parts \in Placed(job)
               PROVE  /\ OnlySpace(job) => \E n \in Nodes :
                            /\ parts \cap PartsOf[n] # {} /\ Holds(RoomFor(job)[n], Asked(job))
                            /\ n \in table.current => CanStart(n, job, job.limit)
                      /\ \A n \in PinOf(job, parts) :
                            /\ n \in table.current => CanStart(n, job, job.limit)
                            /\ CapKnown => UnderCap(job)
    BY DEF PlacedCanStart
  <1> USE DEF IInv
  <1>1. PICK a \in 0 .. now : table.later = LaterSince(a) /\ Covers(room, table.current, a)
    BY DEF CurrentCovers
  <1>2. Within(room)
    BY DEF DataKnown
  <1>3. /\ job.cpus \in Nat \ {0} /\ job.mem \in Nat \ {0} /\ job.limit \in Limits
        /\ "nomem" \notin job.opts => Asked(job) = [cpus |-> job.cpus, mem |-> job.mem]
    BY AskedShape
  <1>4. ASSUME NEW n \in Nodes, n \in table.current, "nomem" \notin job.opts,
               Holds(RoomFor(job)[n], Asked(job))
        PROVE  CanStart(n, job, job.limit)
    <2>1. Holds(free_of(room, LaterSince(a), now, job.limit, n), job)
      BY <1>1, <1>3, <1>4 DEF RoomFor, Holds
    <2>2. Spares(n, room[n], running, Begun(n, a))
      BY <1>1, <1>4, CoversNodes
    <2> QED
      BY <1>2, <1>3, <2>1, <2>2, RoomStarts
  <1>5. ASSUME OnlySpace(job)
        PROVE  \E n \in Nodes : /\ parts \cap PartsOf[n] # {} /\ Holds(RoomFor(job)[n], Asked(job))
                                /\ n \in table.current => CanStart(n, job, job.limit)
    <2>1. has_room(Asked(job), parts, RoomFor(job))
      BY DEF Placed
    <2>2. PICK n \in Nodes : Holds(RoomFor(job)[n], Asked(job)) /\ parts \cap PartsOf[n] # {}
      BY <2>1 DEF has_room
    <2>3. "nomem" \notin job.opts
      BY <1>5 DEF OnlySpace
    <2> QED
      BY <1>4, <2>2, <2>3
  <1>6. ASSUME NEW n \in PinOf(job, parts)
        PROVE  /\ n \in table.current => CanStart(n, job, job.limit)
               /\ CapKnown => UnderCap(job)
    <2>1. n \in Nodes /\ Holds(RoomFor(job)[n], Asked(job)) /\ pin_eligible(job)
      BY PinHasRoom
    <2>2. "nomem" \notin job.opts
      BY <2>1 DEF pin_eligible, NotPinned
    <2>3. ASSUME CapKnown, Cap # None, QosOf(job) = "capped"
          PROVE  UserCpus["capped"] + job.cpus <= Cap
      <3>1. table.left # None /\ UserCpus["capped"] <= Cap - table.left
        BY <2>3 DEF CapKnown
      <3>2. UserLeft(job) = table.left
        BY <2>3 DEF UserLeft, QosOf
      <3>3. job.cpus <= table.left
        BY <2>1, <3>1, <3>2 DEF pin_eligible
      <3>4. UserCpus["capped"] \in Nat
        <4>1. {j \in running : j.qos = "capped"} \subseteq running
          OBVIOUS
        <4> QED
          BY <4>1, SomeRunning DEF UserCpus, QOSes
      <3>5. table.left \in Int
        BY <3>1 DEF TypeOK, TableData
      <3>6. Cap \in Nat
        BY <2>3, TimeAssumption
      <3> QED
        BY <1>3, <3>1, <3>3, <3>4, <3>5, <3>6
    <2> QED
      BY <1>4, <2>1, <2>2, <2>3 DEF UnderCap
  <1> QED
    BY <1>5, <1>6

(* "place() places a batch job only where it can start": a job that asks for *)
(* space alone is placed for a node where Slurm can start it now and let it  *)
(* run to its limit beside every reservation, unless the data does not show  *)
(* that node as it is; so is a pinned one, which the cap, as far as it is    *)
(* known, also lets start.                                                   *)
THEOREM PlacedJobsCanStart == Spec => []PlacedCanStart
  BY CurrentPlaces, DataCovers, PTL

-----------------------------------------------------------------------------
(* The table's rows.                                                         *)
LEMMA BuiltRowsAdmit == IInv => RowsAdmit
  <1> SUFFICES ASSUME IInv, table # None, NEW b \in Buckets
               PROVE  LET job   == bucket_shape(b)
                          row   == table.rows[b]
                          roomy == {p \in Partitions : has_room(job, {p}, table.free)}
                      IN  /\ row # {}
                          /\ feasible(job) # {} => row \subseteq feasible(job)
                          /\ roomy # {} => row \subseteq roomy
                          /\ (\A n \in Nodes : phi_node(table.free[n]) <= Tolerance * job.cpus) =>
                                roomy \subseteq row
    BY DEF RowsAdmit
  <1> DEFINE job == bucket_shape(b)
             free == table.free
  <1>1. Within(free) /\ table.rows = build_table(free)
    BY DEF IInv, DataKnown
  <1>2. table.rows[b] = choose(job, free)
    BY <1>1 DEF build_table
  <1>3. job.cpus \in Nat /\ job.mem \in Nat
    BY BucketShapeType
  <1>4. {p \in Partitions : has_room(job, {p}, free)} = Roomy(job, free)
    <2>1. \A p, n : {p} \cap PartsOf[n] # {} <=> p \in PartsOf[n]
      OBVIOUS
    <2> QED
      BY <2>1 DEF has_room, Roomy
  <1> HIDE DEF job, free
  <1>5. /\ choose(job, free) # {}
        /\ feasible(job) # {} => choose(job, free) \subseteq feasible(job)
        /\ Roomy(job, free) # {} => choose(job, free) \subseteq Roomy(job, free)
        /\ (\A n \in Nodes : phi_node(free[n]) <= Tolerance * job.cpus) =>
              Roomy(job, free) \subseteq choose(job, free)
    BY <1>1, <1>3, ChooseAdmits
  <1> QED
    BY <1>2, <1>4, <1>5 DEF job, free

(* What build_table puts in a bucket is never nothing, able to hold the      *)
(* bucket's shape, and with room for it, when any partition is; a busy       *)
(* cluster's buckets admit every partition with room (policy.choose).        *)
THEOREM RowsAdmitRoom == Spec => []RowsAdmit
  BY BuiltRowsAdmit, DataCovers, PTL

-----------------------------------------------------------------------------
(* The answers.  Every partition has a node with the most CPUs and the most  *)
(* memory of the partition: what the caps of a partition say of one node.    *)
OneNodeHasAll == \A p \in Partitions : \E n \in Members(p) :
    Total[n].cpus = caps[p].cpus /\ Total[n].mem = caps[p].mem

(* packed_choice always has an answer, of partitions that exist.             *)
AnswerExists ==
    table # None => \A job \in {Asked(j) : j \in JobTypes} :
        \A parts \in packed_choice(table.rows, job) : parts # {} /\ parts \subseteq Partitions

(* With a table, the plugin always has an answer: no row or bucket is        *)
(* missing for any job.                                                      *)
THEOREM AnswersExist == Spec => []AnswerExists
  <1>1. IInv => AnswerExists
    BY AnswerType, AskedShape DEF AnswerExists, IInv
  <1> QED
    BY <1>1, DataCovers, PTL

(* When any node is big enough for a job, the answer has a partition with    *)
(* such a node: on every cluster whose partitions' caps are one node's.      *)
THEOREM AnswersHoldJobs ==
    ASSUME OneNodeHasAll
    PROVE  Spec => []AnswerHoldsJob
  <1>1. IInv => AnswerHoldsJob
    <2> SUFFICES ASSUME IInv, table # None, NEW job \in {Asked(j) : j \in JobTypes},
                        NEW parts \in packed_choice(table.rows, job)
                 PROVE  parts # {} /\ (feasible(job) # {} => parts \cap feasible(job) # {})
      BY DEF AnswerHoldsJob
    <2>1. job.cpus \in Nat /\ job.mem \in Nat
      BY AskedShape
    <2>2. /\ parts # {} /\ parts \subseteq Partitions
          /\ (\E p \in Partitions : Holds(caps[p], job)) => \A p \in parts : Holds(caps[p], job)
      BY <2>1, AnswerType DEF IInv
    <2>3. ASSUME feasible(job) # {}
          PROVE  parts \cap feasible(job) # {}
      <3>1. PICK p \in parts : TRUE
        BY <2>2
      <3>2. Holds(caps[p], job)
        BY <2>1, <2>2, <2>3, CapsHold
      <3>3. PICK n \in Members(p) : Total[n].cpus = caps[p].cpus /\ Total[n].mem = caps[p].mem
        BY <2>2 DEF OneNodeHasAll
      <3>4. Holds(Total[n], job)
        BY <3>2, <3>3 DEF Holds
      <3>5. p \in feasible(job)
        BY <3>3, <3>4 DEF feasible, Members
      <3> QED
        BY <3>5
    <2> QED
      BY <2>2, <2>3
  <1> QED
    BY <1>1, DataCovers, PTL

-----------------------------------------------------------------------------
(* The dry run.  No reservation starts so late that a dry run, which takes   *)
(* no limit for a fortnight, leaves it out.                                  *)
StartInTime == \A r \in Reservations : r.start < DryNoLimit

(* A dry run and the plugin count on the same free space.                    *)
LEMMA SameRoom ==
    ASSUME IInv, StartInTime, table # None, room = table.free, NEW job \in JobTypes
    PROVE  free_for(table.free, table.later, now, DryLimit(job)) = RoomFor(job)
  <1> DEFINE dry(n) == {r \in table.later[n] :
                          DryLimit(job) \in {0, NoLimit} \/ r.start < now + DryLimit(job)}
             real(n) == {r \in table.later[n] : job.limit = NoLimit \/ r.start < now + job.limit}
  <1>1. job.limit \in Limits /\ DryNoLimit \in Nat \ {0} /\ NoLimit \notin Nat
    BY TimeAssumption, PolicyAssumption
  <1>2. now \in Nat
    BY TimeAssumption DEF IInv, TypeOK
  <1>3. PICK a \in 0 .. now : table.later = LaterSince(a)
    BY DEF IInv, DataKnown
  <1>4. ASSUME NEW n \in Nodes
        PROVE  dry(n) = real(n)
    <2>1. CASE job.limit # NoLimit
      BY <1>1, <2>1 DEF DryLimit, Limits
    <2>2. CASE job.limit = NoLimit
      <3>1. DryLimit(job) = DryNoLimit
        BY <2>2 DEF DryLimit
      <3>2. \A r \in table.later[n] : r.start < now + DryNoLimit
        <4>1. table.later[n] = Image(KeptOf(n), StillToCome(n, a))
          BY <1>3, LaterRecords
        <4>2. \A r \in StillToCome(n, a) : r \in ReservationsOf(n) /\ KeptOf(n)[r].start = r.start
          BY LaterRecords DEF KeptOf, Kept
        <4>3. \A r \in ReservationsOf(n) : r.start \in Nat /\ r.start < now + DryNoLimit
          BY <1>1, <1>2, ReservedNat DEF StartInTime, ReservationsOf
        <4> QED
          BY <4>1, <4>2, <4>3 DEF Image
      <3> QED
        BY <2>2, <3>1, <3>2
    <2> QED
      BY <2>1, <2>2
  <1>5. ASSUME NEW n \in Nodes
        PROVE  /\ reserved_before(table.later, now, DryLimit(job))[n] = SharesOf(dry(n))
               /\ free_of(room, table.later, now, job.limit, n)
                    = AtLeastZero(Minus(table.free[n], SharesOf(real(n))))
    BY DEF reserved_before, free_of
  <1>6. \A n \in Nodes : AtLeastZero(Minus(table.free[n],
                            reserved_before(table.later, now, DryLimit(job))[n]))
                         = free_of(room, table.later, now, job.limit, n)
    <2> HIDE DEF dry, real
    <2> QED
      BY <1>4, <1>5
  <1> QED
    BY <1>6 DEF free_for, RoomFor

(* Nothing has room for a job that no node can hold.                         *)
LEMMA NoRoomForAll ==
    ASSUME IInv, table # None, NEW job \in JobTypes, NEW parts,
           has_room(Asked(job), parts, RoomFor(job))
    PROVE  \E p \in Partitions : Holds(caps[p], Asked(job))
  <1>1. PICK n \in Nodes : Holds(RoomFor(job)[n], Asked(job)) /\ parts \cap PartsOf[n] # {}
    BY DEF has_room
  <1>2. Within(room) /\ Asked(job).cpus \in Nat /\ Asked(job).mem \in Nat
    BY AskedShape DEF IInv, DataKnown
  <1>3. Holds(room[n], Asked(job))
    BY <1>1, RoomInCopy DEF IInv
  <1>4. Holds(Total[n], Asked(job))
    <2>1. /\ room[n].cpus \in Nat /\ room[n].mem \in Nat
          /\ room[n].cpus <= Total[n].cpus /\ room[n].mem <= Total[n].mem
      BY <1>2 DEF Within, Shapes
    <2> QED
      BY <1>2, <1>3, <2>1, NodeShape DEF Holds
  <1>5. PICK p \in PartsOf[n] : TRUE
    BY <1>1
  <1>6. p \in feasible(Asked(job))
    BY <1>4, <1>5 DEF feasible
  <1> QED
    BY <1>2, <1>6, CapsHold

(* Where squeue shows the size of a job, a dry run takes it for the same;    *)
(* and where it shows what the plugin's rules go by, they say the same.      *)
LEMMA SameJob ==
    ASSUME NEW job \in JobTypes, SizeShown(job)
    PROVE  /\ Seen(job) = Asked(job) /\ job.opts \cap Declined = {}
           /\ RulesShown(job) => (dry_eligible(job) <=> pin_eligible(job))
  <1>1. job.mem \in Nat \ {0} /\ MemFloor \in Nat \ {0} /\ job.mem >= MemFloor
    BY TimeAssumption DEF SizeShown
  <1>2. Max({job.mem, MemFloor}) = job.mem
    <2> DEFINE a == job.mem
    <2>1. a \in Int /\ MemFloor \in Int /\ a >= MemFloor
      BY <1>1
    <2> HIDE DEF a
    <2>2. Max({a, MemFloor}) = a
      BY <2>1, MaxOfTwo
    <2> QED
      BY <2>2 DEF a
  <1>3. "nomem" \notin job.opts /\ job.opts \cap Declined = {}
    BY DEF SizeShown
  <1>4. Seen(job) = Asked(job)
    BY <1>2, <1>3, AskedShape DEF Seen
  <1>5. ASSUME RulesShown(job)
        PROVE  dry_eligible(job) <=> pin_eligible(job)
    <2>1. QosOf(job) = "capped" /\ UserLeft(job) = table.left
      BY <1>5 DEF RulesShown, QosOf, UserLeft
    <2>2. job.opts \cap DryNotPinned = {} <=> job.opts \cap NotPinned = {}
      BY <1>3, <1>5 DEF RulesShown, DryNotPinned, NotPinned
    <2> QED
      BY <2>1, <2>2 DEF dry_eligible, pin_eligible
  <1> QED
    BY <1>3, <1>4, <1>5

(* A dry run reports what the plugin does with the job, from the same table  *)
(* (Daemon.evaluate against sjp.place): as long as no reservation is more    *)
(* than a fortnight away, for jobs of no less than MemFloor with none of the *)
(* options that squeue does not show.                                        *)
THEOREM DryRunsAgree ==
    ASSUME StartInTime
    PROVE  Spec => []DryRunAgrees
  <1>1. IInv => DryRunAgrees
    <2> SUFFICES ASSUME IInv, Recent, room = table.free, NEW job \in JobTypes, SizeShown(job)
                 PROVE  /\ evaluate(job).placed <=> Placed(job) # {}
                        /\ \A parts \in Placed(job) :
                              /\ evaluate(job).would = parts
                              /\ RulesShown(job) => evaluate(job).pin = PinOf(job, parts)
      BY DEF DryRunAgrees
    <2> DEFINE asked == Asked(job)
               would == plugin_lookup(table.rows, asked)
               nf == free_for(table.free, table.later, now, DryLimit(job))
    <2>1. table # None
      BY DEF Recent
    <2>2. nf = RoomFor(job)
      BY <2>1, SameRoom
    <2>3. /\ Seen(job) = asked /\ job.opts \cap Declined = {}
          /\ RulesShown(job) => (dry_eligible(job) <=> pin_eligible(job))
      BY SameJob
    <2>4. /\ evaluate(job).placed = has_room(asked, would, nf)
          /\ has_room(asked, would, nf) =>
                /\ evaluate(job).would = would
                /\ RulesShown(job) => evaluate(job).pin = PinOf(job, would)
      BY <2>2, <2>3 DEF evaluate, PinOf
    <2>5. Placed(job) = {parts \in packed_choice(table.rows, asked) : has_room(asked, parts, nf)}
      BY <2>2, <2>3 DEF Placed
    <2>6. asked.cpus \in Nat /\ asked.mem \in Nat
      BY AskedShape
    <2>7. CASE \E p \in Partitions : Holds(caps[p], asked)
      <3>1. packed_choice(table.rows, asked) = {would}
        <4> HIDE DEF asked
        <4> QED
          BY <2>6, <2>7, LookupTwins
      <3> HIDE DEF asked, would, nf
      <3>2. has_room(asked, would, nf) => Placed(job) = {would}
        BY <2>5, <3>1
      <3>3. ~has_room(asked, would, nf) => Placed(job) = {}
        BY <2>5, <3>1
      <3> QED
        BY <2>4, <3>2, <3>3
    <2>8. CASE ~ \E p \in Partitions : Holds(caps[p], asked)
      <3>1. \A parts : ~has_room(asked, parts, nf)
        BY <2>1, <2>2, <2>8, NoRoomForAll
      <3> HIDE DEF asked, would, nf
      <3> QED
        BY <2>4, <2>5, <3>1
    <2> QED
      BY <2>7, <2>8
  <1> QED
    BY <1>1, DataCovers, PTL

-----------------------------------------------------------------------------
(* A pin never goes against the tiers: a node where Slurm could start the    *)
(* job has room for it beside all that runs, and if the plugin's copy shows  *)
(* that room it is one that pick_node considered.                            *)
LEMMA PinsByTier == IInv => PinKeepsTier
  <1> SUFFICES ASSUME IInv, table # None, NEW job \in JobTypes, NEW parts \in Placed(job),
                      NEW n \in PinOf(job, parts), NEW o \in Nodes,
                      CanStart(o, job, job.limit), Holds(RoomFor(job)[o], FreeOn(o)),
                      NEW p \in parts \cap PartsOf[o]
               PROVE  \E q \in parts \cap PartsOf[n] : Tier[q] >= Tier[p]
    BY DEF PinKeepsTier
  <1> USE DEF IInv
  <1>1. /\ job.cpus \in Nat \ {0} /\ job.mem \in Nat \ {0} /\ job.limit \in Limits
        /\ "nomem" \notin job.opts => Asked(job) = [cpus |-> job.cpus, mem |-> job.mem]
    BY AskedShape
  <1>2. /\ n \in pick_node(Asked(job), parts, RoomFor(job)) /\ pin_eligible(job)
        /\ parts \subseteq Partitions
    BY PinHasRoom
  <1>3. Asked(job) = [cpus |-> job.cpus, mem |-> job.mem]
    BY <1>1, <1>2 DEF pin_eligible, NotPinned
  <1> DEFINE held == HeldAt(o, now)
             theirs == JobsOf(running, held)
             own == running \ theirs
  <1>4. /\ CpusOn(o, own) + Reserved(o, held) + job.cpus <= Total[o].cpus
        /\ MemOn(o, running) + job.mem <= Total[o].mem
    <2>1. {j \in running : now = now \/ j.end > now} = running
      OBVIOUS
    <2>2. now \in now .. Min({EndOf(job.limit) - 1, MaxNow})
      BY <1>1, ThisMoment
    <2>3. LET there == {j \in running : now = now \/ j.end > now}
          IN  /\ CpusOn(o, there \ JobsOf(there, held)) + Reserved(o, held) + job.cpus
                    <= Total[o].cpus
              /\ MemOn(o, there) + job.mem <= Total[o].mem
      BY <2>2 DEF CanStart
    <2> QED
      BY <2>1, <2>3
  <1>5. CpusOn(o, theirs) <= Reserved(o, held) /\ Reserved(o, held) \in Nat
    <2>1. held \subseteq ReservationsOf(o)
      BY DEF HeldAt
    <2> QED
      BY <2>1, ReservedJobs, FewerReservations
  <1>6. /\ CpusOn(o, running) = CpusOn(o, own) + CpusOn(o, theirs)
        /\ CpusOn(o, own) \in Nat /\ CpusOn(o, theirs) \in Nat /\ MemOn(o, running) \in Nat
    BY OwnAndReserved, SomeRunning, SizesOn
  <1>7. Total[o].cpus \in Nat /\ Total[o].mem \in Nat
    BY NodeShape
  <1>8. FreeOn(o).cpus >= job.cpus /\ FreeOn(o).mem >= job.mem
    <2>1. FreeOn(o).cpus = Total[o].cpus - CpusOn(o, running) /\ FreeOn(o).mem = Total[o].mem - MemOn(o, running)
      BY DEF FreeOn, Minus
    <2> HIDE DEF own, theirs, held
    <2> QED
      BY <1>1, <1>4, <1>5, <1>6, <1>7, <2>1
  <1>9. RoomFor(job)[o] \in Shapes
    <2> DEFINE s == Minus(room[o], SharesOf(Before(table.later, o, job.limit)))
    <2>1. PICK a \in 0 .. now : table.later = LaterSince(a)
      BY DEF DataKnown
    <2>2. IsFiniteSet(Before(table.later, o, job.limit)) /\ Sized(Before(table.later, o, job.limit))
      BY <2>1, LaterRecords, SharesOfFewer DEF Before
    <2>3. /\ SharesOf(Before(table.later, o, job.limit)).cpus \in Nat
          /\ SharesOf(Before(table.later, o, job.limit)).mem \in Nat
      BY <2>2, SharesOfFewer
    <2>4. room[o].cpus \in Nat /\ room[o].mem \in Nat
      BY DEF TypeOK, Shapes
    <2>5. s.cpus \in Int /\ s.mem \in Int
      BY <2>3, <2>4 DEF Minus
    <2>6. RoomFor(job)[o] = AtLeastZero(s)
      BY DEF RoomFor, free_of, Before
    <2> HIDE DEF s
    <2>7. AtLeastZero(s) \in Shapes
      <3> DEFINE c == s.cpus
                 m == s.mem
      <3>1. Max({0, c}) \in Nat /\ Max({0, m}) \in Nat
        <4>1. c \in Int /\ m \in Int
          BY <2>5
        <4> HIDE DEF c, m
        <4> QED
          BY <4>1, MaxOfTwo
      <3> QED
        BY <3>1 DEF AtLeastZero, Shapes
    <2> QED
      BY <2>6, <2>7
  <1>10. Holds(RoomFor(job)[o], Asked(job))
    <2>1. RoomFor(job)[o].cpus >= FreeOn(o).cpus /\ RoomFor(job)[o].mem >= FreeOn(o).mem
      BY DEF Holds
    <2>2. RoomFor(job)[o].cpus \in Nat /\ RoomFor(job)[o].mem \in Nat
      BY <1>9 DEF Shapes
    <2>3. FreeOn(o).cpus \in Int /\ FreeOn(o).mem \in Int
      BY <1>6, <1>7 DEF FreeOn, Minus
    <2> QED
      BY <1>1, <1>3, <1>8, <2>1, <2>2, <2>3 DEF Holds
  <1> QED
    BY <1>2, <1>10, PinnedNode

(* The same as a property of every behaviour (sjp.pick_node).                *)
THEOREM PinsKeepTier == Spec => []PinKeepsTier
  BY PinsByTier, DataCovers, PTL
=============================================================================
