----------------------- MODULE UniBlakeThreads_proofs -----------------------
(***************************************************************************)
(* For every number of threads, kernels and calls: with plain stores that  *)
(* become visible in program order, nobody calls a kernel that is not      *)
(* there, and threads agree on the kernel until one is forced.             *)
(***************************************************************************)
EXTENDS UniBlakeThreads, FiniteSetTheorems, SequenceTheorems,
        WellFoundedInduction, TLAPS

Named  == {"fn", "id"}
Static == {"fn", "id", "initialized"}
Value  == Kernel \union {"null", "auto", TRUE, FALSE}

\* The stores that Install can issue.
Stored ==
  [name : Named, value : Kernel] \union [name : {"initialized"}, value : {TRUE}]

TypeCorrect ==
  /\ g \in [Static -> Value]
  /\ stores \in [Thread -> Seq(Stored)]
  /\ pc \in [Thread -> {"idle", "selftest", "ready", "hashing"}]
  /\ called \in [Thread -> SUBSET Value]
  /\ told \in [Thread -> SUBSET Value]

\* A kernel is in the static n already, or one of these stores puts it there.
Filled(n, ss) == g[n] \in Kernel \/ \E j \in 1 .. Len(ss) : ss[j].name = n

\* g_initialized follows the kernel and its name, in the statics and on the way.
Published ==
  /\ g["initialized"] = TRUE => \A n \in Named : g[n] \in Kernel
  /\ \A t \in Thread : \A i \in 1 .. Len(stores[t]) :
       stores[t][i].name = "initialized" =>
         \A n \in Named : \/ g[n] \in Kernel
                          \/ \E j \in 1 .. i - 1 : stores[t][j].name = n

\* A thread past ensure_init finds both in place.
Prepared ==
  \A t \in Thread :
    pc[t] \in {"ready", "hashing"} => \A n \in Named : Filled(n, stores[t])

KernelsRead == \A t \in Thread : called[t] \subseteq Kernel /\ told[t] \subseteq Kernel

IInv == TypeCorrect /\ Published /\ Prepared /\ KernelsRead

-----------------------------------------------------------------------------
\* A set of numbers has a least.
LEMMA Least ==
  ASSUME NEW T \in SUBSET Nat, T # {}
  PROVE  \E x \in T : \A y \in T : x <= y
<1>1. PICK x \in T : \A y \in T : ~(<<y, x>> \in OpToRel(<, Nat))
  BY NatLessThanWellFounded, WFMin
<1>2. \A y \in T : ~(y < x)
  BY <1>1 DEF OpToRel
<1>3. QED
  BY <1>2

\* A set of numbers up to n has a greatest.
LEMMA Greatest ==
  ASSUME NEW n \in Nat, NEW S \in SUBSET (1 .. n), S # {}
  PROVE  \E i \in S : \A j \in S : j <= i
<1> DEFINE T == {m \in Nat : \E i \in S : m = n - i}
<1>1. T # {}
  <2>1. PICK i \in S : TRUE
    OBVIOUS
  <2>2. n - i \in T
    BY <2>1
  <2>3. QED
    BY <2>2
<1>2. PICK x \in T : \A y \in T : x <= y
  BY <1>1, Least
<1>3. PICK i \in S : x = n - i
  OBVIOUS
<1>4. \A j \in S : n - j \in T
  OBVIOUS
<1>5. \A j \in S : j <= i
  BY <1>2, <1>3, <1>4
<1>6. QED
  BY <1>5

\* Three more elements at the end.
LEMMA AppendThree ==
  ASSUME NEW S, NEW old \in Seq(S), NEW add \in Seq(S), Len(add) = 3
  PROVE  /\ old \o add \in Seq(S)
         /\ Len(old \o add) = Len(old) + 3
         /\ \A i \in 1 .. Len(old) : (old \o add)[i] = old[i]
         /\ (old \o add)[Len(old) + 1] = add[1]
         /\ (old \o add)[Len(old) + 2] = add[2]
         /\ (old \o add)[Len(old) + 3] = add[3]
<1>1. /\ old \o add \in Seq(S)
      /\ Len(old \o add) = Len(old) + 3
      /\ \A i \in 1 .. Len(old) + 3 :
           (old \o add)[i] = IF i <= Len(old) THEN old[i] ELSE add[i - Len(old)]
  <2>1. /\ old \o add \in Seq(S)
        /\ Len(old \o add) = Len(old) + Len(add)
        /\ \A i \in 1 .. Len(old) + Len(add) :
             (old \o add)[i] = IF i <= Len(old) THEN old[i] ELSE add[i - Len(old)]
    BY ConcatProperties, Zenon
  <2>2. QED
    BY <2>1, Zenon
<1>2. Len(old) \in Nat
  OBVIOUS
<1> DEFINE new == old \o add
<1> HIDE DEF new
<1>3. \A i \in 1 .. Len(old) : new[i] = old[i]
  BY <1>1, <1>2 DEF new
<1>4. \A i \in 1 .. 3 : new[Len(old) + i] = add[i]
  <2> TAKE i \in 1 .. 3
  <2>1. Len(old) + i \in 1 .. Len(old) + 3 /\ ~(Len(old) + i <= Len(old))
    BY <1>2
  <2>2. Len(old) + i - Len(old) = i
    BY <1>2
  <2>3. QED
    BY <1>1, <2>1, <2>2 DEF new
<1>5. QED
  BY <1>1, <1>3, <1>4 DEF new

\* The first element gone, as Visible takes it out.
LEMMA DropFirst ==
  ASSUME NEW S, NEW old \in Seq(S), 1 \in 1 .. Len(old)
  PROVE  /\ SubSeq(old, 1, 1 - 1) \o SubSeq(old, 1 + 1, Len(old)) \in Seq(S)
         /\ Len(SubSeq(old, 1, 1 - 1) \o SubSeq(old, 1 + 1, Len(old))) = Len(old) - 1
         /\ \A j \in 1 .. Len(old) - 1 :
              (SubSeq(old, 1, 1 - 1) \o SubSeq(old, 1 + 1, Len(old)))[j] = old[j + 1]
<1> DEFINE a == SubSeq(old, 1, 0)
           b == SubSeq(old, 2, Len(old))
<1>1. Len(old) \in Nat /\ \A j \in 1 .. Len(old) : old[j] \in S
  OBVIOUS
<1>2. a \in Seq(S) /\ Len(a) = 0
  BY <1>1, SubSeqProperties
<1>3. /\ b \in Seq(S)
      /\ Len(b) = Len(old) - 1
      /\ \A j \in 1 .. Len(old) - 2 + 1 : b[j] = old[2 + j - 1]
  <2>1. \A j \in 2 .. Len(old) : old[j] \in S
    BY <1>1
  <2>2. /\ b \in Seq(S)
        /\ Len(b) = IF 2 <= Len(old) THEN Len(old) - 2 + 1 ELSE 0
        /\ \A j \in 1 .. Len(old) - 2 + 1 : b[j] = old[2 + j - 1]
    BY <1>1, <2>1, SubSeqProperties
  <2> HIDE DEF b
  <2>3. CASE 2 <= Len(old)
    BY <1>1, <2>2, <2>3
  <2>4. CASE ~(2 <= Len(old))
    <3>1. Len(b) = 0
      BY <2>2, <2>4
    <3>2. Len(old) = 1
      <4> DEFINE n == Len(old)
      <4>1. n \in Nat /\ 1 \in 1 .. n
        BY <1>1
      <4>2. ~(2 <= n)
        BY <2>4
      <4> HIDE DEF n
      <4>3. n = 1
        BY <4>1, <4>2
      <4>4. QED
        BY <4>3 DEF n
    <3>3. QED
      BY <2>2, <3>1, <3>2
  <2>5. QED
    BY <2>3, <2>4
<1>4. \A j \in 1 .. Len(old) - 1 : b[j] = old[j + 1]
  <2> HIDE DEF b
  <2> TAKE j \in 1 .. Len(old) - 1
  <2>1. j \in 1 .. Len(old) - 2 + 1 /\ 2 + j - 1 = j + 1
    BY <1>1
  <2>2. QED
    BY <1>3, <2>1
<1> HIDE DEF a, b
<1>5. /\ a \o b \in Seq(S)
      /\ Len(a \o b) = Len(old) - 1
      /\ \A j \in 1 .. Len(old) - 1 : (a \o b)[j] = b[j]
  <2>1. /\ a \o b \in Seq(S)
        /\ Len(a \o b) = Len(a) + Len(b)
        /\ \A j \in 1 .. Len(a) + Len(b) :
             (a \o b)[j] = IF j <= Len(a) THEN a[j] ELSE b[j - Len(a)]
    BY <1>2, <1>3, ConcatProperties
  <2>2. \A j \in 1 .. Len(old) - 1 : ~(j <= 0) /\ j - 0 = j
    OBVIOUS
  <2>3. 0 + (Len(old) - 1) = Len(old) - 1
    BY <1>1
  <2>4. QED
    BY <1>2, <1>3, <2>1, <2>2, <2>3
<1>6. SubSeq(old, 1, 1 - 1) = a /\ SubSeq(old, 1 + 1, Len(old)) = b
  BY DEF a, b
<1>7. QED
  BY <1>4, <1>5, <1>6

\* A thread reads a store of its own or what everybody sees.
LEMMA ReadProperties ==
  ASSUME TypeCorrect, NEW t \in Thread, NEW n \in Static
  PROVE  \/ /\ Read(t, n) = g[n]
            /\ \A i \in 1 .. Len(stores[t]) : stores[t][i].name # n
         \/ \E i \in 1 .. Len(stores[t]) :
              stores[t][i].name = n /\ Read(t, n) = stores[t][i].value
<1> DEFINE mine == {i \in 1 .. Len(stores[t]) : stores[t][i].name = n}
           last == CHOOSE i \in mine : \A j \in mine : j <= i
<1>1. Read(t, n) = IF mine = {} THEN g[n] ELSE stores[t][last].value
  BY DEF Read
<1>2. CASE mine = {}
  BY <1>1, <1>2
<1>3. CASE mine # {}
  <2>1. Len(stores[t]) \in Nat
    BY DEF TypeCorrect
  <2>2. \E i \in mine : \A j \in mine : j <= i
    <3> HIDE DEF mine
    <3>1. mine \in SUBSET (1 .. Len(stores[t]))
      BY DEF mine
    <3>2. QED
      BY <1>3, <2>1, <3>1, Greatest
  <2>3. last \in mine
    <3> HIDE DEF mine
    <3>1. QED
      BY <2>2
  <2> HIDE DEF last
  <2>4. QED
    BY <1>1, <1>3, <2>3
<1>4. QED
  BY <1>2, <1>3

\* The fields of a store that Install can issue.
LEMMA StoredProperties ==
  ASSUME NEW s \in Stored
  PROVE  \/ s.name \in Named /\ s.value \in Kernel
         \/ s.name = "initialized" /\ s.value = TRUE
  BY DEF Stored, Named

LEMMA InstallProperties ==
  ASSUME NEW k \in Kernel
  PROVE  /\ Install(k) \in Seq(Stored)
         /\ Len(Install(k)) = 3
         /\ Install(k)[1].name = "fn" /\ Install(k)[1].value = k
         /\ Install(k)[2].name = "id" /\ Install(k)[2].value = k
         /\ Install(k)[3].name = "initialized" /\ Install(k)[3].value = TRUE
<1> DEFINE a == Store("fn", k)
           b == Store("id", k)
           c == Store("initialized", TRUE)
<1>1. a \in Stored /\ b \in Stored
  BY DEF Store, Stored, Named
<1>2. c \in Stored
  BY DEF Store, Stored
<1>3. a.name = "fn" /\ a.value = k /\ b.name = "id" /\ b.value = k
  BY DEF Store
<1>4. c.name = "initialized" /\ c.value = TRUE
  BY DEF Store
<1>5. Install(k) = <<a, b, c>>
  BY DEF Install
<1> HIDE DEF a, b, c
<1>6. QED
  BY <1>1, <1>2, <1>3, <1>4, <1>5

-----------------------------------------------------------------------------
\* A thread for which static n is filled reads a kernel from it.
LEMMA FilledIsRead ==
  ASSUME TypeCorrect, NEW t \in Thread, NEW n \in Named, Filled(n, stores[t])
  PROVE  Read(t, n) \in Kernel
<1>1. n \in Static /\ n # "initialized"
  BY DEF Named, Static
<1>2. \A i \in 1 .. Len(stores[t]) : stores[t][i] \in Stored
  BY DEF TypeCorrect
<1>3. \A i \in 1 .. Len(stores[t]) : stores[t][i].name = n => stores[t][i].value \in Kernel
  BY <1>1, <1>2, StoredProperties
<1>4. QED
  BY <1>1, <1>3, ReadProperties DEF Filled

\* Issuing the three stores keeps what was on its way and its order.
LEMMA InstallKeeps ==
  ASSUME TypeCorrect, Published, NEW t \in Thread, NEW k \in Kernel,
         stores' = [stores EXCEPT ![t] = @ \o Install(k)], UNCHANGED g
  PROVE  /\ stores' \in [Thread -> Seq(Stored)]
         /\ Published'
         /\ \A n \in Named : Filled(n, stores[t])'
         /\ \A u \in Thread : \A n \in Named :
              Filled(n, stores[u]) => Filled(n, stores[u])'
<1> DEFINE old == stores[t]
           new == stores'[t]
<1>1. old \in Seq(Stored) /\ Len(old) \in Nat
  BY DEF TypeCorrect
<1>2. new = old \o Install(k) /\ \A u \in Thread : u # t => stores'[u] = stores[u]
  BY DEF TypeCorrect
<1>3. Install(k) \in Seq(Stored) /\ Len(Install(k)) = 3
  BY InstallProperties
<1>4. /\ new \in Seq(Stored)
      /\ Len(new) = Len(old) + 3
      /\ \A i \in 1 .. Len(old) : new[i] = old[i]
  BY <1>1, <1>2, <1>3, AppendThree
<1>5. stores' \in [Thread -> Seq(Stored)]
  BY <1>4 DEF TypeCorrect
<1>6. /\ new[Len(old) + 1].name = "fn"
      /\ new[Len(old) + 2].name = "id"
      /\ new[Len(old) + 3].name = "initialized"
  <2>1. /\ new[Len(old) + 1] = Install(k)[1]
        /\ new[Len(old) + 2] = Install(k)[2]
        /\ new[Len(old) + 3] = Install(k)[3]
    BY <1>1, <1>2, <1>3, AppendThree
  <2>2. /\ Install(k)[1].name = "fn"
        /\ Install(k)[2].name = "id"
        /\ Install(k)[3].name = "initialized"
    BY InstallProperties
  <2>3. QED
    BY <2>1, <2>2
<1>7. \A n \in Named : \E j \in {Len(old) + 1, Len(old) + 2} : new[j].name = n
  BY <1>6 DEF Named
<1>8. \A n \in Named : Filled(n, stores[t])'
  <2> TAKE n \in Named
  <2>1. PICK j \in {Len(old) + 1, Len(old) + 2} : new[j].name = n
    BY <1>7
  <2>2. j \in 1 .. Len(new)
    BY <1>1, <1>4
  <2>3. QED
    BY <2>1, <2>2 DEF Filled
<1>9. \A u \in Thread : \A n \in Named : Filled(n, stores[u]) => Filled(n, stores[u])'
  BY <1>2, <1>8 DEF Filled
<1>10. ASSUME NEW i \in 1 .. Len(new), new[i].name = "initialized", NEW n \in Named
       PROVE  g[n] \in Kernel \/ \E j \in 1 .. i - 1 : new[j].name = n
  <2>1. CASE i \in 1 .. Len(old)
    <3>1. g[n] \in Kernel \/ \E j \in 1 .. i - 1 : old[j].name = n
      BY <1>4, <1>10, <2>1 DEF Published
    <3>2. \A j \in 1 .. i - 1 : new[j] = old[j]
      BY <1>1, <1>4, <2>1
    <3>3. QED
      BY <3>1, <3>2
  <2>2. CASE i \notin 1 .. Len(old)
    <3>1. i = Len(old) + 3
      <4> HIDE DEF old, new
      <4>1. i \in {Len(old) + 1, Len(old) + 2, Len(old) + 3}
        BY <1>1, <1>4, <2>2
      <4>2. QED
        BY <1>6, <1>10, <4>1
    <3>2. {Len(old) + 1, Len(old) + 2} \subseteq 1 .. i - 1
      BY <1>1, <3>1
    <3>3. QED
      BY <1>7, <3>2
  <2>3. QED
    BY <2>1, <2>2
<1>11. Published'
  BY <1>2, <1>10 DEF Published
<1>12. QED
  BY <1>5, <1>8, <1>9, <1>11

\* The oldest store of a thread reaching the others keeps what the others and it
\* itself find.
LEMMA VisibleKeeps ==
  ASSUME TypeCorrect, Published, InOrder, NEW t \in Thread, NEW i, Visible(t, i)
  PROVE  /\ g' \in [Static -> Value]
         /\ stores' \in [Thread -> Seq(Stored)]
         /\ Published'
         /\ \A u \in Thread : \A n \in Named :
              Filled(n, stores[u]) => Filled(n, stores[u])'
<1> DEFINE old == stores[t]
           new == stores'[t]
           s == old[1]
<1>1. old \in Seq(Stored) /\ Len(old) \in Nat
  BY DEF TypeCorrect
<1>2. i = 1 /\ 1 \in 1 .. Len(old) /\ g' = [g EXCEPT ![s.name] = s.value]
  BY DEF Visible
<1>3. /\ new = SubSeq(old, 1, 1 - 1) \o SubSeq(old, 1 + 1, Len(old))
      /\ \A u \in Thread : u # t => stores'[u] = stores[u]
  BY <1>2 DEF Visible, TypeCorrect
<1>4. /\ new \in Seq(Stored)
      /\ Len(new) = Len(old) - 1
      /\ \A j \in 1 .. Len(old) - 1 : new[j] = old[j + 1]
  BY <1>1, <1>2, <1>3, DropFirst
<1>5. stores' \in [Thread -> Seq(Stored)]
  BY <1>4 DEF Visible, TypeCorrect
<1>6. s \in Stored
  BY <1>1, <1>2
<1>7. s.name \in Static /\ s.value \in Value
  BY <1>6, StoredProperties DEF Named, Static, Value
<1>8. g' \in [Static -> Value] /\ g'[s.name] = s.value
      /\ \A n \in Static : n # s.name => g'[n] = g[n]
  BY <1>2, <1>7 DEF TypeCorrect
<1>9. \A n \in Named : n \in Static /\ n # "initialized"
  BY DEF Named, Static
<1>10. \A n \in Named : g[n] \in Kernel \/ s.name = n => g'[n] \in Kernel
  BY <1>6, <1>8, <1>9, StoredProperties
<1> HIDE DEF old, new, s
<1>11. ASSUME NEW n \in Named, NEW m \in 0 .. Len(old) - 1,
              g[n] \in Kernel \/ \E j \in 1 .. m + 1 : old[j].name = n
       PROVE  g'[n] \in Kernel \/ \E j \in 1 .. m : new[j].name = n
  <2>1. CASE g[n] \in Kernel
    BY <1>10, <2>1
  <2>2. CASE \E j \in 1 .. m + 1 : old[j].name = n
    <3>1. PICK j \in 1 .. m + 1 : old[j].name = n
      BY <2>2
    <3>2. CASE j = 1
      BY <1>10, <3>1, <3>2 DEF s
    <3>3. CASE j # 1
      <4>1. j - 1 \in 1 .. m /\ j - 1 \in 1 .. Len(old) - 1
        BY <1>1, <3>3
      <4>2. new[j - 1] = old[j]
        BY <1>4, <4>1
      <4>3. QED
        BY <3>1, <4>1, <4>2
    <3>4. QED
      BY <3>2, <3>3
  <2>3. QED
    BY <1>11, <2>1, <2>2
<1>12. \A u \in Thread : \A n \in Named : Filled(n, stores[u]) => Filled(n, stores[u])'
  <2> SUFFICES ASSUME NEW u \in Thread, NEW n \in Named, Filled(n, stores[u])
               PROVE  g'[n] \in Kernel \/ \E j \in 1 .. Len(stores'[u]) : stores'[u][j].name = n
    BY DEF Filled
  <2>1. CASE u = t
    <3>1. Len(old) - 1 \in 0 .. Len(old) - 1 /\ Len(old) - 1 + 1 = Len(old)
      BY <1>1, <1>2
    <3>2. g[n] \in Kernel \/ \E j \in 1 .. Len(old) : old[j].name = n
      BY <2>1 DEF Filled, old
    <3>3. g'[n] \in Kernel \/ \E j \in 1 .. Len(old) - 1 : new[j].name = n
      BY <1>11, <3>1, <3>2
    <3>4. QED
      BY <1>4, <2>1, <3>3 DEF new
  <2>2. CASE u # t
    BY <1>3, <1>10, <2>2 DEF Filled
  <2>3. QED
    BY <2>1, <2>2
<1>13. g'["initialized"] = TRUE => \A n \in Named : g'[n] \in Kernel
  <2>1. CASE s.name = "initialized"
    <3>1. \A n \in Named : g[n] \in Kernel
      BY <1>2, <2>1 DEF Published, old, s
    <3>2. QED
      BY <1>10, <3>1
  <2>2. CASE s.name # "initialized"
    <3>1. g'["initialized"] = g["initialized"]
      BY <1>8, <2>2 DEF Static
    <3>2. QED
      BY <1>10, <3>1 DEF Published
  <2>3. QED
    BY <2>1, <2>2
<1>14. ASSUME NEW u \in Thread, NEW p \in 1 .. Len(stores'[u]),
              stores'[u][p].name = "initialized", NEW n \in Named
       PROVE  g'[n] \in Kernel \/ \E j \in 1 .. p - 1 : stores'[u][j].name = n
  <2>1. CASE u = t
    <3>1. p \in 1 .. Len(old) - 1 /\ p + 1 \in 1 .. Len(old) /\ p - 1 \in 0 .. Len(old) - 1
      BY <1>1, <1>4, <2>1 DEF new
    <3>2. old[p + 1].name = "initialized"
      BY <1>4, <1>14, <2>1, <3>1 DEF new
    <3>3. g[n] \in Kernel \/ \E j \in 1 .. (p + 1) - 1 : old[j].name = n
      BY <3>1, <3>2 DEF Published, old
    <3>4. (p + 1) - 1 = (p - 1) + 1
      BY <3>1
    <3>5. g'[n] \in Kernel \/ \E j \in 1 .. p - 1 : new[j].name = n
      BY <1>11, <3>1, <3>3, <3>4
    <3>6. QED
      BY <2>1, <3>5 DEF new
  <2>2. CASE u # t
    BY <1>3, <1>10, <1>14, <2>2 DEF Published
  <2>3. QED
    BY <2>1, <2>2
<1>15. Published'
  BY <1>13, <1>14 DEF Published
<1>16. QED
  BY <1>5, <1>8, <1>12, <1>15


-----------------------------------------------------------------------------
LEMMA IInvInit == Init => IInv
<1> SUFFICES ASSUME Init PROVE IInv
  OBVIOUS
<1>1. g \in [Static -> Value]
  <2>1. DOMAIN g = Static /\ g = [n \in Static |-> g[n]]
    BY DEF Init, Static
  <2>2. g["fn"] = "null" /\ g["id"] = "auto" /\ g["initialized"] = FALSE
    BY DEF Init
  <2>3. "null" \in Value /\ "auto" \in Value /\ FALSE \in Value
    BY DEF Value
  <2>4. \A n \in Static : g[n] \in Value
    BY <2>2, <2>3 DEF Static
  <2>5. QED
    BY <2>1, <2>4
<1>2. TypeCorrect
  BY <1>1 DEF Init, TypeCorrect
<1>3. g["initialized"] = FALSE
  BY DEF Init
<1>4. Published /\ Prepared /\ KernelsRead
  BY <1>3 DEF Init, Published, Prepared, KernelsRead
<1>5. QED
  BY <1>2, <1>4 DEF IInv

\* What EnsureInit reads before it goes on without a self-test.
LEMMA InitializedIsFilled ==
  ASSUME TypeCorrect, Published, NEW t \in Thread, Read(t, "initialized") = TRUE
  PROVE  \A n \in Named : Filled(n, stores[t])
<1>1. CASE g["initialized"] = TRUE
  BY <1>1 DEF Published, Filled
<1>2. CASE \E i \in 1 .. Len(stores[t]) : stores[t][i].name = "initialized"
  <2>1. PICK i \in 1 .. Len(stores[t]) : stores[t][i].name = "initialized"
    BY <1>2
  <2>2. Len(stores[t]) \in Nat
    BY DEF TypeCorrect
  <2>3. 1 .. i - 1 \subseteq 1 .. Len(stores[t])
    BY <2>2
  <2>4. QED
    BY <2>1, <2>3 DEF Published, Filled
<1>3. QED
  BY <1>1, <1>2, ReadProperties DEF Static

LEMMA IInvNext ==
  ASSUME InOrder, IInv, [Next]_vars
  PROVE  IInv'
<1> USE DEF IInv
<1>1. CASE UNCHANGED vars
  BY <1>1 DEF vars, TypeCorrect, Published, Prepared, KernelsRead, Filled
<1>2. ASSUME NEW t \in Thread, EnsureInit(t)
      PROVE  IInv'
  <2>1. TypeCorrect' /\ Published' /\ KernelsRead'
    <3>1. UNCHANGED <<g, stores, called, told>>
      BY <1>2 DEF EnsureInit
    <3>2. PICK where \in {"selftest", "ready"} : pc' = [pc EXCEPT ![t] = where]
      BY <1>2 DEF EnsureInit, Goto
    <3>3. TypeCorrect'
      BY <3>1, <3>2 DEF TypeCorrect
    <3>4. QED
      BY <3>1, <3>3 DEF Published, KernelsRead
  <2>2. ASSUME NEW u \in Thread, pc'[u] \in {"ready", "hashing"}, NEW n \in Named
        PROVE  Filled(n, stores[u])
    <3>1. CASE u = t
      <4>1. Read(t, "initialized") = TRUE
        <5>1. Read(t, "initialized") \in BOOLEAN => Read(t, "initialized") = TRUE
          BY <1>2, <2>2, <3>1 DEF EnsureInit, Goto, TypeCorrect
        <5>2. QED
          BY <1>2, <2>2, <3>1 DEF EnsureInit, Goto, TypeCorrect
      <4>2. QED
        BY <3>1, <4>1, InitializedIsFilled
    <3>2. CASE u # t
      BY <1>2, <2>2, <3>2 DEF EnsureInit, Goto, TypeCorrect, Prepared
    <3>3. QED
      BY <3>1, <3>2
  <2>3. Prepared'
    BY <1>2, <2>2 DEF EnsureInit, Prepared, Filled
  <2>4. QED
    BY <2>1, <2>3
<1>3. ASSUME NEW t \in Thread, Gate(t)
      PROVE  IInv'
  <2>1. /\ stores' \in [Thread -> Seq(Stored)]
        /\ Published'
        /\ \A n \in Named : Filled(n, stores[t])'
        /\ \A u \in Thread : \A n \in Named : Filled(n, stores[u]) => Filled(n, stores[u])'
    BY <1>3, InstallKeeps, ChosenAssumption DEF Gate, Probe
  <2>2. TypeCorrect' /\ KernelsRead'
    BY <1>3, <2>1 DEF Gate, Goto, TypeCorrect, KernelsRead
  <2>3. \A u \in Thread : u # t => pc'[u] = pc[u]
    BY <1>3 DEF Gate, Goto, TypeCorrect
  <2>4. Prepared'
    BY <2>1, <2>3 DEF Prepared
  <2>5. QED
    BY <2>1, <2>2, <2>4
<1>4. ASSUME NEW t \in Thread, NEW k \in Kernel, ForceKernel(t, k)
      PROVE  IInv'
  <2>1. /\ stores' \in [Thread -> Seq(Stored)]
        /\ Published'
        /\ \A u \in Thread : \A n \in Named : Filled(n, stores[u]) => Filled(n, stores[u])'
    BY <1>4, InstallKeeps DEF ForceKernel
  <2>2. TypeCorrect' /\ KernelsRead'
    BY <1>4, <2>1 DEF ForceKernel, TypeCorrect, KernelsRead
  <2>3. Prepared'
    BY <1>4, <2>1 DEF ForceKernel, Prepared
  <2>4. QED
    BY <2>1, <2>2, <2>3
<1>5. ASSUME NEW t \in Thread, ActiveKernel(t)
      PROVE  IInv'
  <2>1. Read(t, "id") \in Kernel
    BY <1>5, FilledIsRead DEF ActiveKernel, Prepared, Named
  <2>2. TypeCorrect' /\ KernelsRead'
    BY <1>5, <2>1 DEF ActiveKernel, Goto, TypeCorrect, KernelsRead, Value
  <2>3. Published' /\ Prepared'
    BY <1>5 DEF ActiveKernel, Goto, TypeCorrect, Published, Prepared, Filled
  <2>4. QED
    BY <2>2, <2>3
<1>6. ASSUME NEW t \in Thread, Update(t)
      PROVE  IInv'
  <2>1. Read(t, "fn") \in Kernel
    BY <1>6, FilledIsRead DEF Update, Prepared, Named
  <2>2. called' \in [Thread -> SUBSET Value] /\ \A u \in Thread : called'[u] \subseteq Kernel
    <3>1. CASE CallKernel(t)
      BY <2>1, <3>1 DEF CallKernel, TypeCorrect, KernelsRead, Value
    <3>2. CASE UNCHANGED called
      BY <3>2 DEF TypeCorrect, KernelsRead
    <3>3. QED
      BY <1>6, <3>1, <3>2 DEF Update
  <2>3. TypeCorrect' /\ KernelsRead'
    BY <1>6, <2>2 DEF Update, Goto, TypeCorrect, KernelsRead
  <2>4. Published'
    BY <1>6 DEF Update, Published
  <2>5. Prepared'
    BY <1>6 DEF Update, Goto, TypeCorrect, Prepared, Filled
  <2>6. QED
    BY <2>3, <2>4, <2>5
<1>7. ASSUME NEW t \in Thread, Final(t)
      PROVE  IInv'
  <2>1. Read(t, "fn") \in Kernel
    BY <1>7, FilledIsRead DEF Final, Prepared, Named
  <2>2. TypeCorrect' /\ KernelsRead'
    BY <1>7, <2>1 DEF Final, CallKernel, Goto, TypeCorrect, KernelsRead, Value
  <2>3. Published'
    BY <1>7 DEF Final, Published
  <2>4. Prepared'
    BY <1>7 DEF Final, Goto, TypeCorrect, Prepared, Filled
  <2>5. QED
    BY <2>2, <2>3, <2>4
<1>8. ASSUME NEW t \in Thread, NEW i, Visible(t, i)
      PROVE  IInv'
  <2>1. /\ g' \in [Static -> Value]
        /\ stores' \in [Thread -> Seq(Stored)]
        /\ Published'
        /\ \A u \in Thread : \A n \in Named : Filled(n, stores[u]) => Filled(n, stores[u])'
    BY <1>8, VisibleKeeps
  <2>2. UNCHANGED <<pc, called, told>>
    BY <1>8 DEF Visible
  <2>3. TypeCorrect' /\ KernelsRead' /\ Prepared'
    BY <2>1, <2>2 DEF TypeCorrect, KernelsRead, Prepared
  <2>4. QED
    BY <2>1, <2>3
<1>9. QED
  BY <1>1, <1>2, <1>3, <1>4, <1>5, <1>6, <1>7, <1>8 DEF Next

\* Nobody calls through the pointer before a kernel is in it, for any number of
\* threads and calls: the stores of one thread, in the order written, put the
\* kernel before the flag, and nothing is written back.
THEOREM ThreadsNeverNull ==
  ASSUME InOrder
  PROVE  Spec => []NeverNull
<1>1. IInv => NeverNull
  BY KernelAssumption DEF IInv, KernelsRead, NeverNull
<1>2. QED
  BY <1>1, IInvInit, IInvNext, PTL DEF Spec


-----------------------------------------------------------------------------
\* While nobody forces one, the only kernel is the chosen one, in the statics, on
\* the way to them, and in what threads have read.
Agreed ==
  ~forced =>
    /\ \A n \in Named : g[n] \in Kernel => g[n] = Chosen
    /\ \A t \in Thread : \A i \in 1 .. Len(stores[t]) :
         stores[t][i].name \in Named => stores[t][i].value = Chosen
    /\ \A t \in Thread : called[t] \subseteq {Chosen} /\ told[t] \subseteq {Chosen}

\* A thread for which static n is filled reads the chosen kernel from it.
LEMMA ChosenIsRead ==
  ASSUME TypeCorrect, Agreed, ~forced, NEW t \in Thread, NEW n \in Named,
         Filled(n, stores[t])
  PROVE  Read(t, n) = Chosen
<1>1. n \in Static /\ Read(t, n) \in Kernel
  BY FilledIsRead DEF Named, Static
<1>2. QED
  BY <1>1, ReadProperties DEF Agreed

LEMMA AgreedNext ==
  ASSUME InOrder, IInv, Agreed, [Next]_vars
  PROVE  Agreed'
<1> USE DEF IInv
<1>1. CASE UNCHANGED vars
  BY <1>1 DEF vars, Agreed
<1>2. ASSUME NEW t \in Thread, EnsureInit(t)
      PROVE  Agreed'
  BY <1>2 DEF EnsureInit, Agreed
<1>3. ASSUME NEW t \in Thread, Gate(t)
      PROVE  Agreed'
  <2> SUFFICES ASSUME ~forced PROVE Agreed'
    BY <1>3 DEF Gate, Agreed
  <2> DEFINE old == stores[t]
             new == stores'[t]
  <2>1. old \in Seq(Stored) /\ Len(old) \in Nat
    BY DEF TypeCorrect
  <2>2. new = old \o Install(Chosen) /\ \A u \in Thread : u # t => stores'[u] = stores[u]
    BY <1>3 DEF Gate, Probe, TypeCorrect
  <2>3. Install(Chosen) \in Seq(Stored) /\ Len(Install(Chosen)) = 3
    BY InstallProperties, ChosenAssumption
  <2>4. ASSUME NEW i \in 1 .. Len(new), new[i].name \in Named
        PROVE  new[i].value = Chosen
    <3>1. Len(new) = Len(old) + 3
      BY <2>1, <2>2, <2>3, AppendThree
    <3>2. CASE i \in 1 .. Len(old)
      <4>1. new[i] = old[i]
        BY <2>1, <2>2, <2>3, <3>2, AppendThree
      <4>2. QED
        BY <2>4, <3>2, <4>1 DEF Agreed
    <3>3. CASE i \notin 1 .. Len(old)
      <4>1. /\ new[Len(old) + 1].value = Chosen
            /\ new[Len(old) + 2].value = Chosen
            /\ new[Len(old) + 3].name = "initialized"
        <5>1. /\ new[Len(old) + 1] = Install(Chosen)[1]
              /\ new[Len(old) + 2] = Install(Chosen)[2]
              /\ new[Len(old) + 3] = Install(Chosen)[3]
          BY <2>1, <2>2, <2>3, AppendThree
        <5>2. /\ Install(Chosen)[1].value = Chosen
              /\ Install(Chosen)[2].value = Chosen
              /\ Install(Chosen)[3].name = "initialized"
          BY InstallProperties, ChosenAssumption
        <5>3. QED
          BY <5>1, <5>2
      <4>2. i \in {Len(old) + 1, Len(old) + 2, Len(old) + 3}
        <5> HIDE DEF old, new
        <5>1. QED
          BY <2>1, <3>1, <3>3
      <4>3. QED
        BY <2>4, <4>1, <4>2 DEF Named
    <3>4. QED
      BY <3>2, <3>3
  <2>5. UNCHANGED <<g, called, told, forced>>
    BY <1>3 DEF Gate
  <2>6. \A u \in Thread : \A j \in 1 .. Len(stores'[u]) :
          stores'[u][j].name \in Named => stores'[u][j].value = Chosen
    <3> TAKE u \in Thread
    <3>1. CASE u = t
      BY <2>4, <3>1
    <3>2. CASE u # t
      <4>1. stores'[u] = stores[u]
        BY <2>2, <3>2
      <4>2. QED
        BY <4>1 DEF Agreed
    <3>3. QED
      BY <3>1, <3>2
  <2>7. \A u \in Thread : called'[u] \subseteq {Chosen} /\ told'[u] \subseteq {Chosen}
    BY <2>5 DEF Agreed
  <2>8. \A n \in Named : g'[n] \in Kernel => g'[n] = Chosen
    BY <2>5 DEF Agreed
  <2>9. QED
    BY <2>6, <2>7, <2>8 DEF Agreed
<1>4. ASSUME NEW t \in Thread, NEW k \in Kernel, ForceKernel(t, k)
      PROVE  Agreed'
  BY <1>4 DEF ForceKernel, Agreed
<1>5. ASSUME NEW t \in Thread, ActiveKernel(t)
      PROVE  Agreed'
  <2> SUFFICES ASSUME ~forced PROVE Agreed'
    BY <1>5 DEF ActiveKernel, Agreed
  <2>1. Read(t, "id") = Chosen
    BY <1>5, ChosenIsRead DEF ActiveKernel, Prepared, Named
  <2>2. QED
    BY <1>5, <2>1 DEF ActiveKernel, Agreed, TypeCorrect
<1>6. ASSUME NEW t \in Thread, Update(t) \/ Final(t)
      PROVE  Agreed'
  <2> SUFFICES ASSUME ~forced PROVE Agreed'
    BY <1>6 DEF Update, Final, Agreed
  <2>1. Read(t, "fn") = Chosen
    BY <1>6, ChosenIsRead DEF Update, Final, Prepared, Named
  <2>2. \A u \in Thread : called'[u] \subseteq {Chosen}
    <3>1. CASE CallKernel(t)
      BY <1>6, <2>1, <3>1 DEF CallKernel, Update, Final, Agreed, TypeCorrect
    <3>2. CASE UNCHANGED called
      BY <1>6, <3>2 DEF Update, Final, Agreed
    <3>3. QED
      BY <1>6, <3>1, <3>2 DEF Update, Final
  <2>3. UNCHANGED <<g, stores, told, forced>>
    BY <1>6 DEF Update, Final
  <2>4. QED
    BY <2>2, <2>3 DEF Agreed
<1>7. ASSUME NEW t \in Thread, NEW i, Visible(t, i)
      PROVE  Agreed'
  <2> SUFFICES ASSUME ~forced PROVE Agreed'
    BY <1>7 DEF Visible, Agreed
  <2> DEFINE old == stores[t]
             new == stores'[t]
             s == old[1]
  <2>1. old \in Seq(Stored) /\ Len(old) \in Nat
    BY DEF TypeCorrect
  <2>2. /\ i = 1 /\ 1 \in 1 .. Len(old)
        /\ g' = [g EXCEPT ![s.name] = s.value]
        /\ UNCHANGED <<called, told, forced>>
    BY <1>7 DEF Visible
  <2>3. /\ new = SubSeq(old, 1, 1 - 1) \o SubSeq(old, 1 + 1, Len(old))
        /\ \A u \in Thread : u # t => stores'[u] = stores[u]
    BY <1>7, <2>2 DEF Visible, TypeCorrect
  <2>4. Len(new) = Len(old) - 1 /\ \A j \in 1 .. Len(old) - 1 : new[j] = old[j + 1]
    BY <2>1, <2>2, <2>3, DropFirst
  <2>5. \A j \in 1 .. Len(new) : new[j].name \in Named => new[j].value = Chosen
    <3> TAKE j \in 1 .. Len(new)
    <3>1. j + 1 \in 1 .. Len(old) /\ new[j] = old[j + 1]
      BY <2>1, <2>4
    <3>2. QED
      BY <3>1 DEF Agreed
  <2>6. s.name \in Named => s.value = Chosen
    BY <2>2 DEF Agreed
  <2>7. \A n \in Named : g'[n] \in Kernel => g'[n] = Chosen
    <3> HIDE DEF s
    <3>1. \A n \in Named : n \in Static
      BY DEF Named, Static
    <3>2. QED
      BY <2>2, <2>6, <3>1 DEF Agreed, TypeCorrect
  <2>8. \A u \in Thread : \A j \in 1 .. Len(stores'[u]) :
          stores'[u][j].name \in Named => stores'[u][j].value = Chosen
    <3> TAKE u \in Thread
    <3>1. CASE u = t
      BY <2>5, <3>1
    <3>2. CASE u # t
      <4>1. stores'[u] = stores[u]
        BY <2>3, <3>2
      <4>2. QED
        BY <4>1 DEF Agreed
    <3>3. QED
      BY <3>1, <3>2
  <2>9. \A u \in Thread : called'[u] \subseteq {Chosen} /\ told'[u] \subseteq {Chosen}
    BY <2>2 DEF Agreed
  <2>10. QED
    BY <2>7, <2>8, <2>9 DEF Agreed
<1>8. QED
  BY <1>1, <1>2, <1>3, <1>4, <1>5, <1>6, <1>7 DEF Next

\* Threads that race through ensure_init, however many, run and name one kernel.
THEOREM ThreadsOneKernel ==
  ASSUME InOrder
  PROVE  Spec => []OneKernel
<1>1. Init => Agreed
  <2> SUFFICES ASSUME Init PROVE Agreed
    OBVIOUS
  <2>1. \A n \in Named : g[n] \in {"null", "auto"}
    BY DEF Init, Named
  <2>2. QED
    BY <2>1, KernelAssumption DEF Init, Agreed
<1>2. ASSUME Agreed
      PROVE  OneKernel
  <2> DEFINE read == UNION {called[t] \union told[t] : t \in Thread}
  <2> SUFFICES ASSUME ~forced PROVE Cardinality(read) <= 1
    BY DEF OneKernel
  <2>1. read \in SUBSET {Chosen}
    BY <1>2 DEF Agreed
  <2>2. IsFiniteSet({Chosen}) /\ Cardinality({Chosen}) = 1
    BY FS_Singleton
  <2> HIDE DEF read
  <2>3. QED
    BY <2>1, <2>2, FS_Subset
<1>3. QED
  BY <1>1, <1>2, IInvInit, IInvNext, AgreedNext, PTL DEF Spec

=============================================================================
