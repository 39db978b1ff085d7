--------------------------- MODULE CachePool_proof ---------------------------
(* Proofs about CachePool, for every number of entries, blocks and levels. *)
EXTENDS CachePool, Integers, FiniteSetTheorems, WellFoundedInduction, NaturalsInduction, TLAPS

-----------------------------------------------------------------------------
(* Linked lists *)

(***************************************************************************)
(* A list is a set of entries and a place for each of them, a number that  *)
(* grows along the list: taking an entry out leaves the places of all      *)
(* others as they are.                                                     *)
(***************************************************************************)
Places == [Entry -> Int]

\* The pointer of an entry points at the one with the next place.
Linked(nx, A, pos) ==
  \A c \in A :
    IF nx[c] = NULL THEN \A d \in A : pos[d] <= pos[c]
    ELSE /\ nx[c] \in A /\ pos[c] < pos[nx[c]]
         /\ \A d \in A : pos[d] <= pos[c] \/ pos[nx[c]] <= pos[d]

Starts(h, A, pos) == IF h = NULL THEN A = {} ELSE h \in A /\ \A d \in A : pos[h] <= pos[d]

EndsAt(t, A, pos) == IF t = 0 THEN A = {} ELSE t \in A /\ \A d \in A : pos[d] <= pos[t]

\* The entries of A are the list that begins with h.
IsList(nx, h, A, pos) ==
  /\ A \subseteq Entry
  /\ \A c, d \in A : pos[c] = pos[d] => c = d
  /\ Linked(nx, A, pos) /\ Starts(h, A, pos)

\* NULL is no entry, and slot 0 is the head of the list in use.
LEMMA Zero == NULL \notin Entry /\ Slot = Entry \union {0} /\ Size \in Nat
  BY PoolAssumption DEF NULL, Entry, Slot

\* The list is a matter of the pointers and places of its entries only.
LEMMA SameList ==
  ASSUME NEW nx, NEW nx2, NEW h, NEW A, NEW pos, NEW pos2, IsList(nx, h, A, pos),
         \A c \in A : nx2[c] = nx[c] /\ pos2[c] = pos[c]
  PROVE  IsList(nx2, h, A, pos2)
  <1>1. Linked(nx2, A, pos2)
    BY DEF IsList, Linked
  <1>2. Starts(h, A, pos2)
    BY DEF IsList, Starts
  <1> QED
    BY <1>1, <1>2 DEF IsList

\* The slot p, the head or an entry, points at c in nx, and past it in nx2.
LedPast(nx, nx2, p, c) ==
  c = nx[p] /\ c # NULL /\ nx2[p] = nx[c] /\ \A s \in Slot : s # p /\ s # c => nx2[s] = nx[s]

\* c is the entry of A after the slot p.
Follows(c, p, A, pos) ==
  /\ c \in A
  /\ p # 0 => pos[p] < pos[c] /\ \A d \in A : pos[d] <= pos[p] \/ pos[c] <= pos[d]
  /\ p = 0 => \A d \in A : pos[c] <= pos[d]

\* An entry that is led past is off its list, the others keep their order.
LEMMA Removed ==
  ASSUME NEW nx \in [Slot -> Slot], NEW pos \in Places, NEW A, IsList(nx, nx[0], A, pos),
         NEW p \in {0} \union A, NEW c, NEW nx2, LedPast(nx, nx2, p, c)
  PROVE  Follows(c, p, A, pos) /\ c # p /\ IsList(nx2, nx2[0], A \ {c}, pos)
  <1> DEFINE d == nx[c]
  <1>1. A \subseteq Entry /\ 0 \notin A /\ NULL = 0 /\ p \in Slot
    BY Zero DEF IsList, NULL
  <1>1a. c = nx[p] /\ c # NULL /\ nx2[p] = nx[c] /\ \A s \in Slot : s # p /\ s # c => nx2[s] = nx[s]
    BY DEF LedPast
  <1>2. c \in A /\ (p # 0 => pos[p] < pos[c] /\ \A e \in A : pos[e] <= pos[p] \/ pos[c] <= pos[e])
        /\ (p = 0 => \A e \in A : pos[c] <= pos[e])
    BY <1>1, <1>1a DEF IsList, Linked, Starts
  <1>3. \A e \in A : pos[e] \in Int
    BY <1>1 DEF Places
  <1>4. c # p /\ c \in Slot /\ d \in Slot /\ c # 0
    <2>1. c # 0 /\ c \in Slot
      BY <1>1, <1>2, Zero
    <2>2. c # p
      <3>1. CASE p = 0
        BY <2>1, <3>1
      <3>2. CASE p # 0
        BY <1>2, <1>3, <3>2
      <3> QED
        BY <3>1, <3>2
    <2>3. d \in Slot
      BY <2>1
    <2> QED
      BY <2>1, <2>2, <2>3
  <1>5. nx2[p] = d /\ \A s \in Slot : s # p /\ s # c => nx2[s] = nx[s]
    BY <1>1a
  <1>6. /\ \A a, b \in A : pos[a] = pos[b] => a = b
        /\ d # NULL => d \in A /\ pos[c] < pos[d] /\ \A e \in A : pos[e] <= pos[c] \/ pos[d] <= pos[e]
        /\ d = NULL => \A e \in A : pos[e] <= pos[c]
    BY <1>2 DEF IsList, Linked
  <1>7. \A a \in A : /\ nx[a] = NULL => \A b \in A : pos[b] <= pos[a]
                     /\ nx[a] # NULL => /\ nx[a] \in A /\ pos[a] < pos[nx[a]]
                                        /\ \A b \in A : pos[b] <= pos[a] \/ pos[nx[a]] <= pos[b]
    BY DEF IsList, Linked
  <1> HIDE DEF d
  <1>8. Linked(nx2, A \ {c}, pos)
    <2>1. SUFFICES ASSUME NEW a \in A \ {c}
                   PROVE  IF nx2[a] = NULL THEN \A b \in A \ {c} : pos[b] <= pos[a]
                          ELSE /\ nx2[a] \in A \ {c} /\ pos[a] < pos[nx2[a]]
                               /\ \A b \in A \ {c} : pos[b] <= pos[a] \/ pos[nx2[a]] <= pos[b]
      BY DEF Linked
    <2>2. CASE a = p
      <3>1. nx2[a] = d /\ p # 0
        BY <1>1, <1>5, <2>2
      <3>2. CASE d = NULL
        BY <1>2, <1>3, <1>6, <2>2, <3>1, <3>2
      <3>3. CASE d # NULL
        <4>1. d \in A /\ pos[d] > pos[c] /\ pos[c] > pos[p] /\ d # c
          BY <1>2, <1>3, <1>6, <3>1, <3>3
        <4>2. \A b \in A \ {c} : pos[b] <= pos[p] \/ pos[d] <= pos[b]
          BY <1>2, <1>3, <1>6, <3>1, <3>3
        <4> QED
          <5>1. d \in A \ {c} /\ pos[p] < pos[d]
            <6>1. p \in A /\ c \in A
              BY <1>2, <3>1
            <6>2. pos[p] \in Int /\ pos[c] \in Int /\ pos[d] \in Int
              BY <1>3, <4>1, <6>1
            <6> QED
              BY <4>1, <6>2
          <5> QED
            BY <2>2, <3>1, <3>3, <4>2, <5>1
      <3> QED
        BY <3>2, <3>3
    <2>3. CASE a # p
      <3>1. nx2[a] = nx[a]
        BY <1>1, <1>5, <2>3, Zero
      <3>2. nx[a] # c
        <4>1. ASSUME nx[a] = c PROVE FALSE
          <5>1. pos[a] < pos[c] /\ \A b \in A : pos[b] <= pos[a] \/ pos[c] <= pos[b]
            BY <1>1, <1>2, <1>7, <4>1
          <5>2. CASE p = 0
            BY <1>2, <1>3, <5>1, <5>2
          <5>3. CASE p # 0
            <6>1. p \in A /\ pos[p] <= pos[a] /\ pos[a] <= pos[p]
              BY <1>2, <1>3, <5>1, <5>3
            <6> QED
              BY <1>3, <1>6, <2>3, <6>1
          <5> QED
            BY <5>2, <5>3
        <4> QED
          BY <4>1
      <3> QED
        BY <1>7, <3>1, <3>2
    <2> QED
      BY <2>2, <2>3
  <1>9. Starts(nx2[0], A \ {c}, pos)
    <2>1. CASE p = 0
      <3>1. nx2[0] = d
        BY <1>5, <2>1
      <3>2. CASE d = NULL
        <4>1. \A e \in A : pos[e] = pos[c]
          BY <1>2, <1>3, <1>6, <2>1, <3>2
        <4> QED
          BY <1>2, <1>6, <3>1, <3>2, <4>1 DEF Starts
      <3>3. CASE d # NULL
        <4>1. \A e \in A \ {c} : pos[d] <= pos[e]
          BY <1>2, <1>3, <1>6, <2>1, <3>3
        <4> QED
          <5>1. d \in A \ {c}
            BY <1>2, <1>3, <1>6, <3>3
          <5> QED
            BY <3>1, <3>3, <4>1, <5>1 DEF Starts
      <3> QED
        BY <3>2, <3>3
    <2>2. CASE p # 0
      <3>1. nx2[0] = nx[0]
        BY <1>1, <1>4, <1>5, <2>2, Zero
      <3>2. nx[0] \in A /\ \A e \in A : pos[nx[0]] <= pos[e]
        BY <2>2 DEF IsList, Starts
      <3>3. nx[0] # c /\ nx[0] # NULL
        BY <1>1, <1>2, <1>3, <2>2, <3>2
      <3> QED
        BY <3>1, <3>2, <3>3 DEF Starts
    <2> QED
      BY <2>1, <2>2
  <1> QED
    BY <1>2, <1>4, <1>5, <1>6, <1>8, <1>9 DEF IsList, Follows

\* An entry that is in no list is put before the head of one.
LEMMA Pushed ==
  ASSUME NEW nx, NEW nx2, NEW pos \in Places, NEW A, NEW h, IsList(nx, h, A, pos),
         NEW c \in Entry, c \notin A, nx2[c] = h, \A a \in A : nx2[a] = nx[a]
  PROVE  \E n \in Int : IsList(nx2, c, A \union {c}, [pos EXCEPT ![c] = n])
  <1> DEFINE n    == IF h = NULL THEN 0 ELSE pos[h] - 1
             pos2 == [pos EXCEPT ![c] = n]
  <1>1. A \subseteq Entry /\ (\A a, b \in A : pos[a] = pos[b] => a = b) /\ c # NULL
    BY Zero DEF IsList
  <1>2. h # NULL => h \in A /\ \A a \in A : pos[h] <= pos[a]
    BY DEF IsList, Starts
  <1>2a. h = NULL => A = {}
    BY DEF IsList, Starts
  <1>3. n \in Int /\ \A a \in A : pos[a] \in Int /\ n < pos[a]
    BY <1>1, <1>2, <1>2a DEF Places
  <1>4. pos2[c] = n /\ \A a \in A : pos2[a] = pos[a]
    BY <1>1 DEF Places
  <1>5. h # NULL => n = pos[h] - 1
    OBVIOUS
  <1>6. n \in Int
    BY <1>3
  <1> HIDE DEF n, pos2
  <1>7. Linked(nx2, A, pos2)
    <2>1. IsList(nx2, h, A, pos2)
      BY <1>4, SameList
    <2> QED
      BY <2>1 DEF IsList
  <1>8. Linked(nx2, A \union {c}, pos2)
    <2>1. SUFFICES ASSUME NEW a \in A \union {c}
                   PROVE  IF nx2[a] = NULL THEN \A b \in A \union {c} : pos2[b] <= pos2[a]
                          ELSE /\ nx2[a] \in A \union {c} /\ pos2[a] < pos2[nx2[a]]
                               /\ \A b \in A \union {c} : pos2[b] <= pos2[a] \/ pos2[nx2[a]] <= pos2[b]
      BY DEF Linked
    <2>2. CASE a = c
      BY <1>2, <1>2a, <1>3, <1>4, <1>5, <2>2
    <2>3. CASE a # c
      BY <1>3, <1>4, <1>7, <2>3 DEF Linked
    <2> QED
      BY <2>2, <2>3
  <1>9. Starts(c, A \union {c}, pos2)
    BY <1>1, <1>3, <1>4 DEF Starts
  <1>10. \A a, b \in A \union {c} : pos2[a] = pos2[b] => a = b
    BY <1>1, <1>3, <1>4
  <1>11. IsList(nx2, c, A \union {c}, pos2)
    BY <1>1, <1>8, <1>9, <1>10 DEF IsList
  <1> QED
    BY <1>6, <1>11 DEF pos2

\* The list that begins at slot 0 and ends with t.
ListTo(nx, t, A, pos) == IsList(nx, nx[0], A, pos) /\ EndsAt(t, A, pos)

\* An entry that is in no list is put behind the last one.
Extends(nx, nx2, t, c) == nx2 = [nx EXCEPT ![c] = NULL, ![t] = c]

\* An entry that tail_ is made to point at is the last of its list.
LEMMA AppendedOne ==
  ASSUME NEW nx \in [Slot -> Slot], NEW pos \in Places, NEW A, NEW t \in Slot, ListTo(nx, t, A, pos),
         NEW c \in Entry, c \notin A, NEW nx2, Extends(nx, nx2, t, c)
  PROVE  t # c /\ \E n \in Int : ListTo(nx2, c, A \union {c}, [pos EXCEPT ![c] = n])
  <1> DEFINE n    == IF t = 0 THEN 0 ELSE pos[t] + 1
             pos2 == [pos EXCEPT ![c] = n]
  <1>0. IsList(nx, nx[0], A, pos) /\ EndsAt(t, A, pos) /\ nx2 = [nx EXCEPT ![c] = NULL, ![t] = c]
    BY DEF ListTo, Extends
  <1>1. A \subseteq Entry /\ (\A a, b \in A : pos[a] = pos[b] => a = b) /\ c # NULL /\ NULL = 0 /\ c \in Slot /\ 0 \in Slot
    BY <1>0, Zero DEF IsList, NULL
  <1>2. t # 0 => t \in A /\ \A a \in A : pos[a] <= pos[t]
    BY <1>0 DEF EndsAt
  <1>2a. t = 0 => A = {}
    BY <1>0 DEF EndsAt
  <1>3. n \in Int /\ \A a \in A : pos[a] \in Int /\ n > pos[a]
    BY <1>1, <1>2, <1>2a DEF Places
  <1>4. pos2[c] = n /\ \A a \in A : pos2[a] = pos[a]
    BY <1>1 DEF Places
  <1>5. t # c
    BY <1>1, <1>2
  <1>6. nx2 \in [Slot -> Slot] /\ nx2[t] = c /\ nx2[c] = NULL /\ \A s \in Slot : s # c /\ s # t => nx2[s] = nx[s]
    BY <1>0, <1>1, <1>5
  <1>7. n \in Int
    BY <1>3
  <1> HIDE DEF n, pos2
  <1>8. Linked(nx2, A \union {c}, pos2)
    <2>1. SUFFICES ASSUME NEW a \in A \union {c}
                   PROVE  IF nx2[a] = NULL THEN \A b \in A \union {c} : pos2[b] <= pos2[a]
                          ELSE /\ nx2[a] \in A \union {c} /\ pos2[a] < pos2[nx2[a]]
                               /\ \A b \in A \union {c} : pos2[b] <= pos2[a] \/ pos2[nx2[a]] <= pos2[b]
      BY DEF Linked
    <2>2. CASE a = c
      BY <1>3, <1>4, <1>6, <2>2
    <2>3. CASE a = t /\ a # c
      <3>1. t # 0 /\ t \in A /\ nx2[a] = c
        BY <1>1, <1>2, <1>6, <2>3, Zero
      <3> QED
        BY <1>1, <1>2, <1>3, <1>4, <2>3, <3>1
    <2>4. CASE a # t /\ a # c
      <3>1. nx2[a] = nx[a] /\ a \in A /\ t # 0 /\ t \in A /\ pos[a] < pos[t]
        <4>1. a \in A /\ a \in Slot /\ t # 0
          BY <1>1, <1>2a, <2>4, Zero
        <4>2. t \in A /\ pos[a] <= pos[t] /\ pos[a] # pos[t]
          BY <1>1, <1>2, <2>4, <4>1
        <4>3. pos[a] \in Int /\ pos[t] \in Int
          BY <1>3, <4>1, <4>2
        <4> QED
          BY <1>6, <2>4, <4>1, <4>2, <4>3
      <3>2. nx[a] # NULL /\ nx[a] \in A /\ pos[a] < pos[nx[a]]
            /\ \A d \in A : pos[d] <= pos[a] \/ pos[nx[a]] <= pos[d]
        BY <1>0, <1>3, <3>1 DEF IsList, Linked
      <3>3. pos[nx[a]] < n
        BY <1>3, <3>2
      <3> QED
        <4>1. pos2[a] = pos[a] /\ pos2[nx2[a]] = pos[nx[a]] /\ pos[nx[a]] <= pos2[c]
          BY <1>3, <1>4, <3>1, <3>2, <3>3
        <4>2. \A d \in A : pos2[d] <= pos2[a] \/ pos2[nx2[a]] <= pos2[d]
          BY <1>4, <3>2, <4>1
        <4> QED
          BY <3>1, <3>2, <4>1, <4>2
    <2> QED
      BY <2>2, <2>3, <2>4
  <1>9. Starts(nx2[0], A \union {c}, pos2)
    <2>1. CASE t = 0
      <3>1. nx2[0] = c /\ A \union {c} = {c} /\ pos2[c] <= pos2[c]
        BY <1>2a, <1>4, <1>6, <1>7, <2>1
      <3> QED
        BY <1>1, <3>1 DEF Starts
    <2>2. CASE t # 0
      <3>1. nx2[0] = nx[0]
        BY <1>1, <1>6, <2>2
      <3>2. nx[0] # NULL /\ nx[0] \in A /\ \A d \in A : pos[nx[0]] <= pos[d]
        BY <1>0, <1>2, <2>2 DEF IsList, Starts
      <3> QED
        <4>1. pos[nx[0]] <= n
          BY <1>3, <3>2
        <4>2. \A d \in A \union {c} : pos2[nx[0]] <= pos2[d]
          BY <1>4, <3>2, <4>1
        <4> QED
          BY <3>1, <3>2, <4>2 DEF Starts
    <2> QED
      BY <2>1, <2>2
  <1>10. \A a, b \in A \union {c} : pos2[a] = pos2[b] => a = b
    BY <1>1, <1>3, <1>4
  <1>11. EndsAt(c, A \union {c}, pos2)
    BY <1>1, <1>3, <1>4 DEF EndsAt
  <1>12. ListTo(nx2, c, A \union {c}, pos2)
    BY <1>1, <1>8, <1>9, <1>10, <1>11 DEF IsList, ListTo
  <1> QED
    BY <1>5, <1>7, <1>12 DEF pos2

\* A list is put behind the last entry of another one.
LeadsTo(nx, nx2, t, h) == nx2 = [nx EXCEPT ![t] = h]

\* The places of B are moved behind those of A.
MovedBehind(A, B, pos, pos2) ==
  /\ \A c \in Entry \ B : pos2[c] = pos[c]
  /\ \A c, d \in B : pos2[c] <= pos2[d] <=> pos[c] <= pos[d]
  /\ \A c \in A, d \in B : pos2[c] < pos2[d]

\* Two lists of which the end of one leads to the head of the other are one list.
LEMMA Joined ==
  ASSUME NEW nx \in [Slot -> Slot], NEW pos \in Places, NEW A, NEW t \in Slot, ListTo(nx, t, A, pos),
         NEW B, NEW h, h # NULL, IsList(nx, h, B, pos), A \intersect B = {},
         NEW nx2, LeadsTo(nx, nx2, t, h)
  PROVE  \E pos2 \in Places : IsList(nx2, nx2[0], A \union B, pos2) /\ MovedBehind(A, B, pos, pos2)
  <1> DEFINE k    == IF t = 0 THEN 0 ELSE pos[t] + 1 - pos[h]
             pos2 == [c \in Entry |-> IF c \in B THEN pos[c] + k ELSE pos[c]]
  <1>0. IsList(nx, nx[0], A, pos) /\ EndsAt(t, A, pos) /\ nx2 = [nx EXCEPT ![t] = h]
    BY DEF ListTo, LeadsTo
  <1>1. /\ A \subseteq Entry /\ B \subseteq Entry /\ NULL = 0 /\ 0 \notin Entry /\ Slot = Entry \union {0}
        /\ \A a, b \in A : pos[a] = pos[b] => a = b
        /\ \A a, b \in B : pos[a] = pos[b] => a = b
    BY <1>0, Zero DEF IsList, NULL
  <1>2. h \in B /\ \A b \in B : pos[h] <= pos[b]
    BY DEF IsList, Starts
  <1>3. (t # 0 => t \in A /\ \A a \in A : pos[a] <= pos[t]) /\ (t = 0 => A = {})
    BY <1>0 DEF EndsAt
  <1>4. \A c \in Entry : pos[c] \in Int
    BY DEF Places
  <1>5. k \in Int
    BY <1>1, <1>2, <1>3, <1>4
  <1>6. t # 0 => pos[h] + k = pos[t] + 1
    BY <1>1, <1>2, <1>3, <1>4
  <1> HIDE DEF k
  <1>7. /\ pos2 \in Places /\ (\A c \in B : pos2[c] = pos[c] + k) /\ \A c \in Entry \ B : pos2[c] = pos[c]
    BY <1>1, <1>4, <1>5 DEF Places
  <1>8. \A c \in A : pos2[c] = pos[c]
    BY <1>1, <1>7
  <1> HIDE DEF pos2
  <1>9. \A c \in A, d \in B : pos2[c] < pos2[d]
    <2>1. SUFFICES ASSUME NEW c \in A, NEW d \in B PROVE pos[c] < pos[d] + k
      BY <1>7, <1>8
    <2>2. pos[c] \in Int /\ pos[d] \in Int /\ pos[t] \in Int /\ pos[h] \in Int
      BY <1>1, <1>2, <1>3, <1>4
    <2>3. pos[c] <= pos[t] /\ pos[h] <= pos[d] /\ pos[h] + k = pos[t] + 1
      BY <1>2, <1>3, <1>6
    <2> QED
      BY <1>5, <2>2, <2>3
  <1>10. \A c, d \in B : pos2[c] <= pos2[d] <=> pos[c] <= pos[d]
    <2>1. SUFFICES ASSUME NEW c \in B, NEW d \in B PROVE pos[c] + k <= pos[d] + k <=> pos[c] <= pos[d]
      BY <1>7
    <2>2. pos[c] \in Int /\ pos[d] \in Int
      BY <1>1, <1>4
    <2> QED
      BY <1>5, <2>2
  <1>11. \A c \in Entry : pos2[c] \in Int
    BY <1>7 DEF Places
  <1>12. nx2 \in [Slot -> Slot] /\ nx2[t] = h /\ \A s \in Slot \ {t} : nx2[s] = nx[s]
    BY <1>0, <1>1, <1>2
  <1>13. \A a, b \in A \union B : pos2[a] = pos2[b] => a = b
    <2>1. SUFFICES ASSUME NEW a \in A \union B, NEW b \in A \union B, pos2[a] = pos2[b] PROVE a = b
      OBVIOUS
    <2>2. CASE a \in A /\ b \in A
      BY <1>1, <1>8, <2>1, <2>2
    <2>3. CASE a \in B /\ b \in B
      <3>1. pos2[a] <= pos2[b] /\ pos2[b] <= pos2[a] /\ pos[a] \in Int /\ pos[b] \in Int
        BY <1>1, <1>4, <1>11, <2>1, <2>3
      <3>2. pos[a] <= pos[b] /\ pos[b] <= pos[a]
        BY <1>10, <2>3, <3>1
      <3> QED
        BY <1>1, <2>3, <3>1, <3>2
    <2>4. CASE (a \in A /\ b \in B) \/ (a \in B /\ b \in A)
      <3>1. pos2[a] \in Int /\ pos2[b] \in Int
        BY <1>1, <1>11
      <3>2. pos2[a] < pos2[b] \/ pos2[b] < pos2[a]
        BY <1>9, <2>4
      <3> QED
        BY <2>1, <3>1, <3>2
    <2>5. (a \in A \/ a \in B) /\ (b \in A \/ b \in B)
      OBVIOUS
    <2> QED
      BY <2>2, <2>3, <2>4, <2>5
  <1>14. Linked(nx2, A \union B, pos2)
    <2>1. SUFFICES ASSUME NEW a \in A \union B
                   PROVE  IF nx2[a] = NULL THEN \A b \in A \union B : pos2[b] <= pos2[a]
                          ELSE /\ nx2[a] \in A \union B /\ pos2[a] < pos2[nx2[a]]
                               /\ \A b \in A \union B : pos2[b] <= pos2[a] \/ pos2[nx2[a]] <= pos2[b]
      BY DEF Linked
    <2>2. CASE a = t
      <3>1. nx2[a] = h /\ t \in A
        BY <1>1, <1>3, <1>12, <2>1, <2>2
      <3>2. \A b \in A : pos2[b] <= pos2[a]
        BY <1>3, <1>8, <2>2, <3>1
      <3>3. \A b \in B : pos2[h] <= pos2[b]
        BY <1>2, <1>10
      <3> QED
        BY <1>2, <1>9, <2>2, <3>1, <3>2, <3>3
    <2>3. CASE a # t /\ a \in A
      <3>1. nx2[a] = nx[a] /\ t \in A /\ pos[a] < pos[t]
        <4>1. t \in A /\ pos[a] <= pos[t] /\ pos[a] # pos[t]
          BY <1>1, <1>3, <2>3
        <4>2. pos[a] \in Int /\ pos[t] \in Int
          BY <1>1, <1>4, <2>3, <4>1
        <4> QED
          BY <1>1, <1>12, <2>3, <4>1, <4>2
      <3>2. /\ nx[a] = NULL => \A d \in A : pos[d] <= pos[a]
            /\ nx[a] # NULL => /\ nx[a] \in A /\ pos[a] < pos[nx[a]]
                               /\ \A d \in A : pos[d] <= pos[a] \/ pos[nx[a]] <= pos[d]
        BY <1>0, <2>3 DEF IsList, Linked
      <3>3. nx[a] # NULL
        <4>1. pos[a] \in Int /\ pos[t] \in Int
          BY <1>1, <1>4, <2>3, <3>1
        <4> QED
          BY <3>1, <3>2, <4>1
      <3>4. \A b \in B : pos2[nx[a]] <= pos2[b]
        <4>1. \A b \in B : pos2[nx[a]] < pos2[b] /\ pos2[nx[a]] \in Int /\ pos2[b] \in Int
          BY <1>1, <1>9, <1>11, <3>2, <3>3
        <4> QED
          BY <4>1
      <3> QED
        BY <1>8, <2>3, <3>1, <3>2, <3>3, <3>4
    <2>4. CASE a \in B
      <3>1. nx2[a] = nx[a]
        BY <1>1, <1>3, <1>12, <2>4
      <3>2. /\ nx[a] = NULL => \A d \in B : pos[d] <= pos[a]
            /\ nx[a] # NULL => /\ nx[a] \in B /\ pos[a] < pos[nx[a]]
                               /\ \A d \in B : pos[d] <= pos[a] \/ pos[nx[a]] <= pos[d]
        BY <2>4 DEF IsList, Linked
      <3>3. \A b \in A : pos2[b] <= pos2[a]
        <4>1. \A b \in A : pos2[b] < pos2[a] /\ pos2[b] \in Int /\ pos2[a] \in Int
          BY <1>1, <1>9, <1>11, <2>4
        <4> QED
          BY <4>1
      <3>4. CASE nx[a] = NULL
        BY <1>10, <2>4, <3>1, <3>2, <3>3, <3>4
      <3>5. CASE nx[a] # NULL
        <4>1. \A d \in B : pos2[d] <= pos2[a] \/ pos2[nx[a]] <= pos2[d]
          BY <1>10, <2>4, <3>2, <3>5
        <4>2. pos2[a] < pos2[nx[a]]
          <5>1. pos[a] \in Int /\ pos[nx[a]] \in Int
            BY <1>1, <1>4, <2>4, <3>2, <3>5
          <5> QED
            BY <1>5, <1>7, <2>4, <3>2, <3>5, <5>1
        <4> QED
          BY <3>1, <3>2, <3>3, <3>5, <4>1, <4>2
      <3> QED
        BY <3>4, <3>5
    <2> QED
      BY <2>2, <2>3, <2>4
  <1>15. Starts(nx2[0], A \union B, pos2)
    <2>1. CASE t = 0
      <3>1. nx2[0] = h /\ A \union B = B /\ \A b \in B : pos2[h] <= pos2[b]
        BY <1>2, <1>3, <1>10, <1>12, <2>1
      <3> QED
        BY <1>2, <3>1 DEF Starts
    <2>2. CASE t # 0
      <3>1. nx2[0] = nx[0]
        BY <1>1, <1>12, <2>2
      <3>2. nx[0] # NULL /\ nx[0] \in A /\ \A d \in A : pos2[nx[0]] <= pos2[d]
        BY <1>0, <1>3, <1>8, <2>2 DEF IsList, Starts
      <3>3. \A b \in B : pos2[nx[0]] < pos2[b] /\ pos2[nx[0]] \in Int /\ pos2[b] \in Int
        BY <1>1, <1>9, <1>11, <3>2
      <3>4. \A b \in B : pos2[nx[0]] <= pos2[b]
        BY <3>3
      <3> QED
        BY <3>1, <3>2, <3>4 DEF Starts
    <2> QED
      BY <2>1, <2>2
  <1>16. IsList(nx2, nx2[0], A \union B, pos2)
    BY <1>1, <1>13, <1>14, <1>15 DEF IsList
  <1> QED
    BY <1>7, <1>9, <1>10, <1>16 DEF MovedBehind

-----------------------------------------------------------------------------
(* Walking along a list *)

\* A set of naturals has a least member, by induction on the numbers below one.
LEMMA Smallest ==
  ASSUME NEW T, T \subseteq Nat, T # {}
  PROVE  \E x \in T : \A y \in T : x <= y
  <1>1. PICK x \in T : \A y \in T : ~ (<<y, x>> \in OpToRel(<, Nat))
    BY NatLessThanWellFounded, WFMin
  <1>2. \A y \in T : ~ (y < x)
    BY <1>1 DEF OpToRel
  <1> QED
    BY <1>2

\* What is there for 0, and for m + 1 if it is there for m, is there for all.
LEMMA Induct ==
  ASSUME NEW T, 0 \in T, \A m \in Nat : m \in T => m + 1 \in T
  PROVE  Nat \subseteq T
  <1>1. SUFFICES ASSUME Nat \ T # {} PROVE FALSE
    OBVIOUS
  <1>2. PICK m \in Nat \ T : \A y \in Nat \ T : m <= y
    BY <1>1, Smallest
  <1>3. m # 0 /\ m - 1 \in Nat
    BY <1>2
  <1>4. m - 1 \in T
    BY <1>2, <1>3
  <1> QED
    BY <1>2, <1>3, <1>4

WalkOf(nx, c) ==
  LET w[n \in 0 .. Size] == IF n = 0 THEN c ELSE IF w[n - 1] = NULL THEN NULL ELSE nx[w[n - 1]]
  IN  w

\* w goes from c along the pointers, and stays where there is none.
Walks(w, nx, c, m) ==
  /\ w \in [0 .. m -> Slot] /\ w[0] = c
  /\ \A n \in 1 .. m : w[n] = IF w[n - 1] = NULL THEN NULL ELSE nx[w[n - 1]]

\* The walk along the pointers that List and Ends are defined by exists.
LEMMA WalkIsThere ==
  ASSUME NEW nx \in [Slot -> Slot], NEW c \in Slot
  PROVE  Walks(WalkOf(nx, c), nx, c, Size)
  <1> DEFINE T == {m \in Nat : \E w : Walks(w, nx, c, m)}
  <1>1. 0 \in T
    <2>1. Walks([n \in 0 .. 0 |-> c], nx, c, 0)
      BY DEF Walks
    <2> QED
      BY <2>1
  <1>2. ASSUME NEW m \in Nat, m \in T PROVE m + 1 \in T
    <2>1. PICK w : Walks(w, nx, c, m)
      BY <1>2
    <2> DEFINE x == IF w[m] = NULL THEN NULL ELSE nx[w[m]]
               v == [n \in 0 .. m + 1 |-> IF n = m + 1 THEN x ELSE w[n]]
    <2>2. x \in Slot
      BY <2>1, Zero DEF Walks, NULL
    <2> HIDE DEF x
    <2>3. v \in [0 .. m + 1 -> Slot] /\ v[0] = c /\ v[m + 1] = x /\ \A n \in 0 .. m : v[n] = w[n]
      BY <2>1, <2>2 DEF Walks
    <2> HIDE DEF v
    <2>4. ASSUME NEW n \in 1 .. m + 1
          PROVE  v[n] = IF v[n - 1] = NULL THEN NULL ELSE nx[v[n - 1]]
      <3>1. CASE n = m + 1
        BY <2>3, <3>1 DEF x
      <3>2. CASE n # m + 1
        <4>1. n \in 1 .. m /\ n \in 0 .. m /\ n - 1 \in 0 .. m
          BY <3>2
        <4> QED
          BY <2>1, <2>3, <4>1 DEF Walks
      <3> QED
        BY <3>1, <3>2
    <2>5. Walks(v, nx, c, m + 1)
      BY <2>3, <2>4 DEF Walks
    <2> QED
      BY <2>5
  <1>3. Size \in T
    <2> HIDE DEF T
    <2> QED
      BY <1>1, <1>2, Induct, Zero
  <1>4. PICK w : Walks(w, nx, c, Size)
    BY <1>3
  <1> DEFINE Eq(f) == f = [n \in 0 .. Size |-> IF n = 0 THEN c ELSE IF f[n - 1] = NULL THEN NULL ELSE nx[f[n - 1]]]
  <1>5. Eq(w)
    <2>1. \A n \in 0 .. Size : w[n] = IF n = 0 THEN c ELSE IF w[n - 1] = NULL THEN NULL ELSE nx[w[n - 1]]
      BY <1>4, Zero DEF Walks
    <2>2. w = [n \in 0 .. Size |-> w[n]]
      BY <1>4 DEF Walks
    <2> QED
      BY <2>1, <2>2
  <1>6. Eq(CHOOSE f : Eq(f))
    <2> HIDE DEF Eq
    <2> QED
      BY <1>5, Zenon
  <1> DEFINE v == CHOOSE f : Eq(f)
  <1>7. WalkOf(nx, c) = v
    BY DEF WalkOf
  <1>8. v = [n \in 0 .. Size |-> IF n = 0 THEN c ELSE IF v[n - 1] = NULL THEN NULL ELSE nx[v[n - 1]]]
    BY <1>6
  <1> HIDE DEF v
  <1>9. v[0] = c /\ DOMAIN v = 0 .. Size /\ v = [n \in 0 .. Size |-> v[n]]
        /\ \A n \in 1 .. Size : v[n] = IF v[n - 1] = NULL THEN NULL ELSE nx[v[n - 1]]
    <2>1. 0 \in 0 .. Size /\ \A n \in 1 .. Size : n \in 0 .. Size /\ n # 0
      BY Zero
    <2>2. DOMAIN v = 0 .. Size /\ \A n \in 0 .. Size : v[n] = IF n = 0 THEN c ELSE IF v[n - 1] = NULL THEN NULL ELSE nx[v[n - 1]]
      BY <1>8, Zenon
    <2>3. v = [n \in 0 .. Size |-> v[n]]
      BY <1>8, <2>2, Zenon
    <2> QED
      BY <2>1, <2>2, <2>3
  <1>10. \A n \in 0 .. Size : v[n] \in Slot
    <2> DEFINE D == {n \in Nat : n \in 0 .. Size => v[n] \in Slot}
    <2>1. 0 \in D
      BY <1>9
    <2>2. ASSUME NEW m \in Nat, m \in D PROVE m + 1 \in D
      <3>1. SUFFICES ASSUME m + 1 \in 0 .. Size PROVE v[m + 1] \in Slot
        OBVIOUS
      <3>2. m \in 0 .. Size /\ m + 1 \in 1 .. Size /\ m + 1 - 1 = m
        BY <3>1, Zero
      <3>3. v[m] \in Slot /\ v[m + 1] = IF v[m] = NULL THEN NULL ELSE nx[v[m]]
        BY <1>9, <2>2, <3>2
      <3> QED
        BY <3>3, Zero DEF NULL
    <2> HIDE DEF D
    <2>3. Nat \subseteq D
      BY <2>1, <2>2, Induct
    <2> USE DEF D
    <2> QED
      BY <2>3
  <1> QED
    BY <1>7, <1>9, <1>10 DEF Walks

\* The walk from an entry of a list visits what is from there to the end, and ends.
\* B is what of the list A is reached from c.
From(c, B, A, pos) == (c = NULL /\ B = {}) \/ (c \in A /\ B = {d \in A : pos[c] <= pos[d]})

Visits(w, B) == w[Size] = NULL /\ {w[n] : n \in 0 .. Size} \ {NULL} = B

\* The walk from an entry visits that entry and those behind it.
LEMMA WalkVisits ==
  ASSUME NEW nx \in [Slot -> Slot], NEW pos \in Places, NEW A, NEW h, IsList(nx, h, A, pos),
         NEW c, NEW B, From(c, B, A, pos)
  PROVE  Visits(WalkOf(nx, c), B)
  <1> DEFINE w == WalkOf(nx, c)
  <1>0. (c = NULL /\ B = {}) \/ (c \in A /\ B = {d \in A : pos[c] <= pos[d]})
    BY DEF From
  <1>1. /\ A \subseteq Entry /\ NULL \notin A /\ NULL \in Slot /\ Size \in Nat /\ c \in Slot
        /\ \A a, b \in A : pos[a] = pos[b] => a = b
        /\ \A a \in A : pos[a] \in Int
    BY <1>0, Zero DEF IsList, Places, NULL
  <1>2. Walks(w, nx, c, Size)
    BY <1>1, WalkIsThere
  <1>3. \A a \in A : /\ nx[a] = NULL => \A b \in A : pos[b] <= pos[a]
                     /\ nx[a] # NULL => /\ nx[a] \in A /\ pos[a] < pos[nx[a]]
                                        /\ \A b \in A : pos[b] <= pos[a] \/ pos[nx[a]] <= pos[b]
    BY DEF IsList, Linked
  <1> HIDE DEF w
  <1> DEFINE Seen(n) == {w[k] : k \in 0 .. n}
             \* After n steps: the end, or the entry before which there are n.
             Done(n) == w[n] = NULL /\ Seen(n) \ {NULL} = B
             On(n)   == /\ w[n] \in A /\ Seen(n) = {d \in B : pos[d] <= pos[w[n]]} /\ w[n] \in B
                        /\ IsFiniteSet(Seen(n)) /\ Cardinality(Seen(n)) = n + 1
             T       == {n \in Nat : n <= Size => Done(n) \/ On(n)}
  <1>4. 0 \in T
    <2>1. w[0] = c /\ Seen(0) = {c}
      BY <1>2 DEF Walks
    <2> HIDE DEF Seen
    <2>2. CASE c = NULL
      BY <1>0, <1>1, <2>1, <2>2
    <2>3. CASE c # NULL
      <3>1. c \in A /\ B = {d \in A : pos[c] <= pos[d]}
        BY <1>0, <2>3
      <3>2. {d \in B : pos[d] <= pos[c]} = {c}
        <4>1. \A d \in B : pos[d] <= pos[c] => d = c
          BY <1>1, <3>1
        <4>2. c \in B /\ pos[c] <= pos[c]
          BY <1>1, <3>1
        <4> QED
          BY <4>1, <4>2
      <3>3. IsFiniteSet({c}) /\ Cardinality({c}) = 1
        BY FS_Singleton
      <3>4. c \in B
        BY <1>1, <3>1
      <3> QED
        BY <2>1, <3>1, <3>2, <3>3, <3>4
    <2> QED
      BY <2>2, <2>3
  <1>5. ASSUME NEW m \in Nat, m \in T PROVE m + 1 \in T
    <2>1. SUFFICES ASSUME m + 1 <= Size PROVE Done(m + 1) \/ On(m + 1)
      OBVIOUS
    <2>2. m \in 0 .. Size /\ m + 1 \in 1 .. Size /\ m + 1 - 1 = m /\ m <= Size
      BY <1>1, <2>1
    <2>3. w[m + 1] = IF w[m] = NULL THEN NULL ELSE nx[w[m]]
      BY <1>2, <2>2 DEF Walks
    <2>4. Seen(m + 1) = Seen(m) \union {w[m + 1]}
      <3>1. 0 .. m + 1 = 0 .. m \union {m + 1}
        OBVIOUS
      <3> QED
        BY <3>1
    <2>5. Done(m) \/ On(m)
      BY <1>5, <2>2
    <2>6. CASE Done(m)
      <3> HIDE DEF Seen
      <3> QED
        BY <2>3, <2>4, <2>6
    <2>7. CASE On(m)
      <3>1. w[m] \in A /\ w[m] # NULL /\ w[m + 1] = nx[w[m]] /\ w[m] \in B
        BY <1>1, <2>3, <2>7
      <3>2. Seen(m) = {d \in B : pos[d] <= pos[w[m]]} /\ IsFiniteSet(Seen(m)) /\ Cardinality(Seen(m)) = m + 1
        BY <2>7
      <3> HIDE DEF Seen
      <3>3. CASE nx[w[m]] = NULL
        <4>1. B \subseteq A
          BY <1>0
        <4>2. Seen(m) = B
          BY <1>3, <3>1, <3>2, <3>3, <4>1
        <4> QED
          BY <1>1, <2>4, <3>1, <3>3, <4>1, <4>2
      <3>4. CASE nx[w[m]] # NULL
        <4> DEFINE d == nx[w[m]]
        <4>1. d \in A /\ pos[w[m]] < pos[d] /\ \A b \in A : pos[b] <= pos[w[m]] \/ pos[d] <= pos[b]
          BY <1>3, <3>1, <3>4
        <4>2. B \subseteq A /\ B = {b \in A : pos[c] <= pos[b]} /\ c \in A
          BY <1>0, <3>1
        <4> HIDE DEF d
        <4>3. d \in B
          <5>1. pos[c] \in Int /\ pos[w[m]] \in Int /\ pos[d] \in Int /\ pos[c] <= pos[w[m]]
            BY <1>1, <3>1, <4>1, <4>2
          <5> QED
            BY <4>1, <4>2, <5>1
        <4>4. d \notin Seen(m)
          <5>1. pos[w[m]] \in Int /\ pos[d] \in Int
            BY <1>1, <3>1, <4>1
          <5> QED
            BY <3>2, <4>1, <5>1
        <4>5. {b \in B : pos[b] <= pos[d]} = {b \in B : pos[b] <= pos[w[m]]} \union {d}
          <5>1. ASSUME NEW b \in B PROVE pos[b] <= pos[d] <=> pos[b] <= pos[w[m]] \/ b = d
            <6>1. pos[b] \in Int /\ pos[w[m]] \in Int /\ pos[d] \in Int /\ b \in A
              BY <1>1, <3>1, <4>1, <4>2
            <6>2. pos[b] = pos[d] => b = d
              BY <1>1, <4>1, <6>1
            <6> QED
              BY <4>1, <6>1, <6>2
          <5> QED
            BY <4>3, <5>1
        <4>6. IsFiniteSet(Seen(m) \union {d}) /\ Cardinality(Seen(m) \union {d}) = m + 1 + 1
          BY <3>2, <4>4, FS_AddElement
        <4>7. w[m + 1] = d
          BY <3>1 DEF d
        <4> QED
          BY <2>4, <3>2, <4>1, <4>3, <4>5, <4>6, <4>7
      <3> QED
        BY <3>3, <3>4
    <2> QED
      BY <2>5, <2>6, <2>7
  <1>6. Done(Size) \/ On(Size)
    <2>1. Nat \subseteq T
      <3> HIDE DEF T
      <3> QED
        BY <1>4, <1>5, Induct
    <2> HIDE DEF Done, On
    <2>2. \A n \in Nat : n \in T => (n <= Size => Done(n) \/ On(n))
      OBVIOUS
    <2> HIDE DEF T
    <2> QED
      BY <1>1, <2>1, <2>2
  <1>7. ~On(Size)
    <2>1. SUFFICES ASSUME On(Size) PROVE FALSE
      OBVIOUS
    <2>2. Seen(Size) \subseteq Entry /\ Cardinality(Seen(Size)) = Size + 1
      BY <1>0, <1>1, <2>1
    <2>3. IsFiniteSet(Entry) /\ Cardinality(Entry) = Size
      <3>1. IsFiniteSet(1 .. Size) /\ Cardinality(1 .. Size) = IF 1 > Size THEN 0 ELSE Size - 1 + 1
        BY <1>1, FS_Interval
      <3> QED
        BY <1>1, <3>1 DEF Entry
    <2> HIDE DEF Seen
    <2>4. Cardinality(Seen(Size)) <= Cardinality(Entry)
      BY <2>2, <2>3, FS_Subset
    <2> QED
      BY <1>1, <2>2, <2>3, <2>4
  <1>8. Done(Size)
    BY <1>6, <1>7
  <1> QED
    BY <1>8 DEF w, Visits

-----------------------------------------------------------------------------
(* The invariant *)

Types ==
  /\ next \in [Slot -> Slot] /\ tail \in Slot /\ free \in Slot
  /\ block \in [Entry -> SUBSET Block] /\ lock \in [Entry -> BOOLEAN]
  /\ level \in [Entry -> Nat] /\ lru \in [Entry -> Nat]
  /\ touched \subseteq Block /\ pinned \subseteq Block
  /\ op \in Op

\* U is the used list, F the free one, and S the stack of a check.  When the stack is
\* appended, its first entry brings the rest of it along.
Shape(U, F, S, pos) ==
  /\ U \union S \union F = Entry /\ (U \union S) \intersect F = {}
  /\ used = Cardinality(U \union S)
  /\ IsList(next, next[0], U, pos) /\ IsList(next, free, F, pos)
  /\ IF Checking THEN IsList(next, op.c, S, pos) ELSE S = {} /\ EndsAt(tail, U, pos)
  /\ op.name = "check" => S \intersect U = {} /\ op.p \in {0} \union U
  /\ op.name = "relink" => \/ S \intersect U = {} /\ EndsAt(op.p, U, pos)
                           \/ op.p \in U /\ S = {d \in U : pos[op.p] < pos[d]}

IsBlock(s) == \E b \in Block : s = {b}
Filling    == op.name \in {"alloc", "reclaim"}

\* What the entries have: all but the one that is being filled have a block and a lock.
Holds(U, S) ==
  /\ \A c \in Entry : level[c] <= lru[c]
  /\ \A c \in U \union S : (Filling /\ c = op.c) \/ (lock[c] /\ IsBlock(block[c]))
  /\ op.name = "take" \/ Filling => IsBlock(op.b) /\ op.v \in Level
  /\ Filling => op.c \in U /\ level[op.c] = op.v /\ lru[op.c] = op.v
  /\ op.name = "alloc" => op.p \in {0} \union U /\ next[op.p] = op.c /\ op.c = tail

\* The entries are in the order in which they went idle.  A check has made those that it
\* has passed older than those it has not come to.
Aging(U, S, pos) ==
  /\ \A c, d \in U : pos[c] <= pos[d] => Idle(d) <= Idle(c)
  /\ op.name = "check" =>
       \A c, d \in U : op.p # 0 /\ pos[c] <= pos[op.p] /\ pos[op.p] < pos[d] => Idle(d) < Idle(c)
  /\ \A c \in S : Idle(c) = 0

Picture(U, F, S, pos) == Shape(U, F, S, pos) /\ Holds(U, S) /\ Aging(U, S, pos)

Inv == Types /\ \E U, F, S \in SUBSET Entry, pos \in Places : Picture(U, F, S, pos)

\* There are Size entries.
LEMMA EntryIsFinite == IsFiniteSet(Entry) /\ Cardinality(Entry) = Size
  <1>1. IsFiniteSet(1 .. Size) /\ Cardinality(1 .. Size) = IF 1 > Size THEN 0 ELSE Size - 1 + 1
    BY Zero, FS_Interval
  <1> QED
    BY <1>1, Zero DEF Entry

\* Types of the parts of an operation.
LEMMA OpFields ==
  ASSUME op \in Op
  PROVE  /\ op.name \in {"none", "take", "alloc", "reclaim", "check", "relink"}
         /\ op.p \in Slot /\ op.c \in Slot /\ op.b \subseteq Block /\ op.v \in Level \union {0}
  BY DEF Op

\* The ages are numbers below the limit.
LEMMA LevelsAreNumbers == \A v \in Level \union {0} : v \in Nat /\ (v \in Level => v < Limit) /\ Limit \in Nat
  BY PoolAssumption

\* An operation that goes on is an operation.
LEMMA OpWith ==
  ASSUME NEW o \in Op, NEW nm \in {"none", "take", "alloc", "reclaim", "check", "relink"},
         NEW p \in Slot, NEW c \in Slot
  PROVE  /\ [o EXCEPT !.name = nm] \in Op /\ [o EXCEPT !.c = c] \in Op /\ [o EXCEPT !.p = p] \in Op
         /\ [o EXCEPT !.p = p, !.c = c] \in Op /\ [o EXCEPT !.name = nm, !.p = p, !.c = c] \in Op
  BY DEF Op

\* No operation is one of them.
LEMMA NoneIsOp == None \in Op /\ None.name = "none" /\ None.p = 0 /\ None.c = 0
  BY Zero DEF None, Op, NULL

\* What begins is an operation.
LEMMA NewOp ==
  ASSUME NEW b \in Block, NEW v \in Level
  PROVE  [None EXCEPT !.name = "take", !.b = {b}, !.v = v] \in Op /\ [None EXCEPT !.name = "check"] \in Op
  BY Zero DEF None, Op, NULL

\* free_cache leaves everything in its range.
LEMMA FreeCacheTypes ==
  ASSUME Types, NEW p \in Slot, next[p] # NULL, free_cache(p)
  PROVE  /\ next' \in [Slot -> Slot] /\ tail' \in Slot /\ free' \in Slot
         /\ block' \in [Entry -> SUBSET Block] /\ lock' \in [Entry -> BOOLEAN]
         /\ level' \in [Entry -> Nat] /\ lru' \in [Entry -> Nat]
         /\ touched' \subseteq Block
  <1> DEFINE c == next[p]
  <1>1. c \in Slot /\ c \in Entry /\ next[c] \in Slot /\ free \in Slot /\ tail \in Slot
    BY Zero DEF Types, NULL
  <1>2. next' = [next EXCEPT ![p] = next[c], ![c] = free] /\ next \in [Slot -> Slot]
    BY DEF free_cache, Types
  <1>3. /\ block' = [block EXCEPT ![c] = {}] /\ lock' = [lock EXCEPT ![c] = FALSE]
        /\ level' = [level EXCEPT ![c] = 0] /\ lru' = [lru EXCEPT ![c] = 0]
    BY DEF free_cache
  <1>4. tail' \in {p, tail} /\ free' = c /\ touched' \subseteq touched
    BY DEF free_cache
  <1> HIDE DEF c
  <1>5. next' \in [Slot -> Slot]
    BY <1>1, <1>2
  <1>6. block' \in [Entry -> SUBSET Block] /\ lock' \in [Entry -> BOOLEAN]
    BY <1>3 DEF Types
  <1>7. level' \in [Entry -> Nat] /\ lru' \in [Entry -> Nat]
    BY <1>3 DEF Types
  <1> QED
    BY <1>1, <1>4, <1>5, <1>6, <1>7 DEF Types

\* Every step keeps the types.
LEMMA TypesNext ==
  ASSUME Types, [Next]_vars
  PROVE  Types'
  <1>1. /\ next \in [Slot -> Slot] /\ tail \in Slot /\ free \in Slot
        /\ block \in [Entry -> SUBSET Block] /\ lock \in [Entry -> BOOLEAN]
        /\ level \in [Entry -> Nat] /\ lru \in [Entry -> Nat]
        /\ touched \subseteq Block /\ pinned \subseteq Block /\ op \in Op
        /\ op.p \in Slot /\ op.c \in Slot /\ op.b \subseteq Block /\ op.v \in Nat
        /\ 0 \in Slot /\ NULL = 0 /\ None \in Op
    BY OpFields, LevelsAreNumbers, NoneIsOp, Zero DEF Types, NULL
  <1>2. CASE UNCHANGED vars
    BY <1>1, <1>2 DEF Types, vars, listVars, entryVars
  <1>3. ASSUME NEW b \in Block, NEW v \in Level, alloc_cache(b, v) PROVE Types'
    BY <1>1, <1>3, NewOp DEF Types, alloc_cache, listVars, entryVars
  <1>4. CASE Evict
    BY <1>1, <1>4, FreeCacheTypes DEF Types, Evict
  <1>5. CASE NoCache \/ Map \/ EndOfList
    BY <1>1, <1>5, OpWith DEF Types, NoCache, Map, EndOfList, listVars, entryVars
  <1>6. CASE Take
    <2> DEFINE c == free
    <2>1. c \in Slot /\ c \in Entry /\ next[c] \in Slot
      BY <1>1, <1>6, Zero DEF Take
    <2>2. next' \in [Slot -> Slot]
      BY <1>1, <1>6, <2>1 DEF Take
    <2>3. level' \in [Entry -> Nat] /\ lru' \in [Entry -> Nat]
      BY <1>1, <1>6 DEF Take
    <2>4. op' \in Op
      BY <1>1, <1>6, <2>1, OpWith DEF Take
    <2> QED
      BY <1>1, <1>6, <2>1, <2>2, <2>3, <2>4 DEF Types, Take
  <1>7. CASE MapFails
    <2>1. CASE next[op.p] # NULL
      BY <1>1, <1>7, <2>1, FreeCacheTypes DEF Types, MapFails
    <2>2. CASE next[op.p] = NULL
      <3> DEFINE c == next[op.p]
      <3>1. c \in Slot /\ c \notin Entry /\ next[c] \in Slot
        BY <1>1, <2>2, Zero
      <3>2. next' \in [Slot -> Slot]
        BY <1>1, <1>7, <3>1 DEF MapFails, free_cache
      <3>3. block' \in [Entry -> SUBSET Block] /\ lock' \in [Entry -> BOOLEAN]
        BY <1>1, <1>7 DEF MapFails, free_cache
      <3>4. level' \in [Entry -> Nat] /\ lru' \in [Entry -> Nat]
        BY <1>1, <1>7 DEF MapFails, free_cache
      <3>5. tail' \in Slot /\ free' \in Slot /\ touched' \subseteq Block /\ UNCHANGED pinned /\ op' = None
        BY <1>1, <1>7, <3>1 DEF MapFails, free_cache
      <3> QED
        BY <1>1, <3>2, <3>3, <3>4, <3>5 DEF Types
    <2> QED
      BY <2>1, <2>2
  <1>8. CASE Reclaim
    BY <1>1, <1>8, FreeCacheTypes DEF Types, Reclaim
  <1>9. CASE Mapped
    BY <1>1, <1>9 DEF Types, Mapped, listVars
  <1>10. CASE check_caches
    <2>1. op' \in Op
      BY <1>1, <1>10, OpWith DEF check_caches
    <2> QED
      BY <1>1, <1>10, <2>1 DEF Types, check_caches, listVars, entryVars
  <1>11. CASE Touched
    <2> DEFINE c == next[op.p]
    <2>1. c \in Slot /\ c \in Entry /\ next[c] \in Slot
      BY <1>1, <1>11, Zero DEF Touched
    <2>2. next' \in [Slot -> Slot]
      BY <1>1, <1>11, <2>1 DEF Touched
    <2>3. level[c] \in Nat /\ lru' = [lru EXCEPT ![c] = level[c]]
      BY <1>1, <1>11, <2>1 DEF Touched
    <2>4. lru' \in [Entry -> Nat]
      BY <1>1, <2>3
    <2>5. op' \in Op
      BY <1>1, <1>11, <2>1, OpWith DEF Touched
    <2> QED
      BY <1>1, <1>11, <2>2, <2>4, <2>5 DEF Types, Touched
  <1>12. CASE Untouched
    <2> DEFINE c == next[op.p]
    <2>1. c \in Slot /\ c \in Entry /\ lru[c] + 1 \in Nat
      BY <1>1, <1>12, Zero DEF Untouched
    <2>2. lru' = [lru EXCEPT ![c] = lru[c] + 1]
      BY <1>12 DEF Untouched
    <2>3. lru' \in [Entry -> Nat]
      BY <1>1, <2>1, <2>2
    <2>4. op' \in Op
      BY <1>1, <1>12, <2>1, OpWith DEF Untouched
    <2> QED
      BY <1>1, <1>12, <2>3, <2>4 DEF Types, Untouched, listVars
  <1>13. CASE Relink
    <2>1. next' \in [Slot -> Slot] /\ next[op.c] \in Slot
      BY <1>1, <1>13 DEF Relink
    <2>2. op' \in Op
      BY <1>1, <1>13, <2>1, OpWith DEF Relink
    <2> QED
      BY <1>1, <1>13, <2>1, <2>2 DEF Types, Relink, entryVars
  <1>14. CASE Relinked
    BY <1>1, <1>14 DEF Types, Relinked, entryVars
  <1>15. ASSUME NEW b \in Block, Read(b) \/ Pin(b) \/ Unpin(b) PROVE Types'
    BY <1>1, <1>15 DEF Types, Read, Pin, Unpin, listVars, entryVars
  <1> QED
    BY <1>2, <1>3, <1>4, <1>5, <1>6, <1>7, <1>8, <1>9, <1>10, <1>11, <1>12, <1>13, <1>14, <1>15 DEF Next

-----------------------------------------------------------------------------
(* Allocation: an entry is freed, taken and filled *)

\* Giving one entry another place number.
LEMMA Moved ==
  ASSUME NEW pos \in Places, NEW c \in Entry, NEW n \in Int
  PROVE  /\ [pos EXCEPT ![c] = n] \in Places
         /\ [pos EXCEPT ![c] = n][c] = n
         /\ \A d \in Entry : d # c => [pos EXCEPT ![c] = n][d] = pos[d]
  BY DEF Places

\* free_cache takes an entry out of the used list, whether it is the head or the tail,
\* and puts it before the free ones.
LEMMA FreeCacheLists ==
  ASSUME Types, NEW U, NEW F, NEW pos \in Places, Shape(U, F, {}, pos), ~Checking,
         NEW p \in {0} \union U, NEW c, c = next[p], c # NULL, free_cache(p)
  PROVE  /\ c \in U /\ c \in Entry
         /\ p = 0 => \A d \in U : pos[c] <= pos[d]
         /\ used' = Cardinality(U \ {c})
         /\ \E n \in Int : LET pos2 == [pos EXCEPT ![c] = n]
                           IN  /\ IsList(next', next'[0], U \ {c}, pos2)
                               /\ IsList(next', free', F \union {c}, pos2)
                               /\ EndsAt(tail', U \ {c}, pos2)
  <1>1. /\ U \union F = Entry /\ U \intersect F = {} /\ used = Cardinality(U)
        /\ IsList(next, next[0], U, pos) /\ IsList(next, free, F, pos) /\ EndsAt(tail, U, pos)
    BY DEF Shape
  <1>2. next \in [Slot -> Slot] /\ free \in Slot /\ tail \in Slot
    BY DEF Types
  <1>3. next' = [next EXCEPT ![p] = next[next[p]], ![next[p]] = free] /\ free' = c
    BY DEF free_cache
  <1>4. /\ c \in U /\ c # p /\ next' \in [Slot -> Slot]
        /\ IsList(next', next'[0], U \ {c}, pos)
        /\ next'[c] = free
        /\ \A s \in Slot : s # p /\ s # c => next'[s] = next[s]
        /\ p # 0 => pos[p] < pos[c] /\ \A d \in U : pos[d] <= pos[p] \/ pos[c] <= pos[d]
        /\ p = 0 => \A d \in U : pos[c] <= pos[d]
    <2>1. c \in Slot /\ p \in Slot /\ c # p
      <3>1. U \subseteq Entry /\ \A d \in U : pos[d] \in Int
        BY <1>1 DEF Places
      <3>2. p # 0 => pos[p] < pos[c] /\ c \in U /\ p \in U
        BY <1>1, Zero DEF IsList, Linked, NULL
      <3> QED
        BY <1>2, <3>1, <3>2, Zero DEF NULL
    <2>2. /\ next' \in [Slot -> Slot] /\ next'[p] = next[c] /\ next'[c] = free
          /\ \A s \in Slot : s # p /\ s # c => next'[s] = next[s]
      BY <1>2, <1>3, <2>1
    <2>3. LedPast(next, next', p, c)
      BY <2>2 DEF LedPast
    <2>4. Follows(c, p, U, pos) /\ c # p /\ IsList(next', next'[0], U \ {c}, pos)
      BY <1>1, <1>2, <2>3, Removed
    <2> QED
      BY <2>2, <2>4 DEF Follows
  <1>5. c \in Entry /\ c \notin F /\ p \notin F /\ F \subseteq Slot
    <2>1. F \subseteq Entry /\ U \subseteq Entry
      BY <1>1
    <2>2. c \in Entry /\ c \notin F
      BY <1>1, <1>4, <2>1
    <2>3. p \notin F
      BY <1>1, <2>1, Zero DEF NULL
    <2> QED
      BY <2>1, <2>2, <2>3, Zero
  <1>6. \A a \in F : next'[a] = next[a]
    BY <1>4, <1>5
  <1>7. PICK n \in Int : IsList(next', c, F \union {c}, [pos EXCEPT ![c] = n])
    BY <1>1, <1>4, <1>5, <1>6, Pushed
  <1> DEFINE pos2 == [pos EXCEPT ![c] = n]
  <1>8. \A d \in Entry : d # c => pos2[d] = pos[d]
    BY <1>5, Moved
  <1> HIDE DEF pos2
  <1>9. \A d \in U \ {c} : pos2[d] = pos[d]
    BY <1>1, <1>8
  <1>10. IsList(next', next'[0], U \ {c}, pos2)
    BY <1>4, <1>9, SameList
  <1>11. EndsAt(tail', U \ {c}, pos2)
    <2>1. tail' = IF tail = c THEN p ELSE tail
      BY DEF free_cache
    <2>2. tail # 0 /\ tail \in U /\ \A d \in U : pos[d] <= pos[tail]
      BY <1>1, <1>4 DEF EndsAt
    <2>3. \A d \in U : pos[d] \in Int /\ \A e \in U : pos[d] = pos[e] => d = e
      BY <1>1 DEF Places, IsList
    <2>4. CASE tail # c
      BY <1>9, <2>1, <2>2, <2>4 DEF EndsAt
    <2>5. CASE tail = c /\ p = 0
      <3>1. \A d \in U : d = c
        BY <1>4, <2>2, <2>3, <2>5
      <3> QED
        BY <2>1, <2>5, <3>1 DEF EndsAt
    <2>6. CASE tail = c /\ p # 0
      <3>1. p \in U \ {c}
        BY <1>4, <2>6
      <3>2. ASSUME NEW d \in U \ {c} PROVE pos[d] <= pos[p]
        <4>1. pos[d] <= pos[p] \/ (pos[c] <= pos[d] /\ pos[d] <= pos[c])
          BY <1>4, <2>2, <2>6
        <4>2. ~(pos[c] <= pos[d] /\ pos[d] <= pos[c])
          BY <1>4, <2>3
        <4> QED
          BY <4>1, <4>2
      <3>3. tail' = p /\ p # 0
        BY <2>1, <2>6
      <3> QED
        BY <1>9, <3>1, <3>2, <3>3 DEF EndsAt
    <2> QED
      BY <2>4, <2>5, <2>6
  <1>12. used' = Cardinality(U \ {c})
    <2>1. IsFiniteSet(U)
      BY <1>1, EntryIsFinite, FS_Subset
    <2>2. Cardinality(U \ {c}) = Cardinality(U) - 1
      BY <1>4, <2>1, FS_RemoveElement
    <2> QED
      BY <1>1, <2>2 DEF free_cache
  <1> QED
    BY <1>3, <1>4, <1>5, <1>7, <1>10, <1>11, <1>12 DEF pos2

\* What free_cache leaves in the other entries.
LEMMA FreeCacheEntries ==
  ASSUME Types, NEW p, NEW c \in Entry, c = next[p], free_cache(p)
  PROVE  /\ level'[c] = 0 /\ lru'[c] = 0
         /\ \A d \in Entry : d # c =>
              lock'[d] = lock[d] /\ block'[d] = block[d] /\ level'[d] = level[d] /\ lru'[d] = lru[d]
  BY DEF Types, free_cache

\* c has gone from the list to the free ones.
GivenBack(U, F, pos, c) == \E n \in Int : Picture(U \ {c}, F \union {c}, {}, [pos EXCEPT ![c] = n])

\* The step of an allocation that frees the entry at slot p.
Frees(p) ==
  /\ next[p] # NULL /\ free_cache(p)
  /\ \/ UNCHANGED op /\ op.name \in {"take", "reclaim"} /\ (op.name = "reclaim" => op.c # next[p])
     \/ op' = None /\ op.name = "alloc" /\ op.c = next[p]

\* free_cache takes an entry off the list in use and puts it on the free one.
LEMMA FreeStep ==
  ASSUME Types, NEW U, NEW F, NEW pos \in Places, Picture(U, F, {}, pos), ~Checking,
         NEW p \in {0} \union U, Frees(p)
  PROVE  \E c \in U : /\ c = next[p] /\ c \in Entry
                      /\ p = 0 => \A d \in U : Idle(d) <= Idle(c)
                      /\ \A d \in Entry \ {c} : Idle(d)' = Idle(d)
                      /\ GivenBack(U, F, pos, c)'
  <1>0. PICK c : c = next[p]
    OBVIOUS
  <1>0a. /\ c = next[p] /\ c # NULL /\ free_cache(p)
        /\ \/ UNCHANGED op /\ op.name \in {"take", "reclaim"} /\ (op.name = "reclaim" => op.c # c)
           \/ op' = None /\ op.name = "alloc" /\ op.c = c
    BY <1>0 DEF Frees
  <1>1. Shape(U, F, {}, pos) /\ Holds(U, {}) /\ Aging(U, {}, pos)
    BY DEF Picture
  <1>2. c \in U /\ c \in Entry /\ used' = Cardinality(U \ {c})
        /\ (p = 0 => \A d \in U : pos[c] <= pos[d])
    BY <1>0a, <1>1, FreeCacheLists
  <1>3. PICK n \in Int : LET pos2 == [pos EXCEPT ![c] = n]
                         IN  /\ IsList(next', next'[0], U \ {c}, pos2)
                             /\ IsList(next', free', F \union {c}, pos2)
                             /\ EndsAt(tail', U \ {c}, pos2)
    BY <1>0a, <1>1, FreeCacheLists
  <1>4. /\ level'[c] = 0 /\ lru'[c] = 0
        /\ \A d \in Entry : d # c =>
             lock'[d] = lock[d] /\ block'[d] = block[d] /\ level'[d] = level[d] /\ lru'[d] = lru[d]
    BY <1>0a, <1>2, FreeCacheEntries
  <1>5. U \union F = Entry /\ U \intersect F = {} /\ U \subseteq Entry
    BY <1>1 DEF Shape
  <1>6. ~Checking' /\ op'.name # "check" /\ op'.name # "relink" /\ op'.name # "alloc"
    BY <1>0a, NoneIsOp DEF Checking
  <1> DEFINE pos2 == [pos EXCEPT ![c] = n]
  <1>7. \A d \in U \ {c} : pos2[d] = pos[d] /\ d \in Entry /\ d # c
    BY <1>2, <1>5, Moved
  <1>8. Shape(U \ {c}, F \union {c}, {}, pos2)'
    BY <1>2, <1>3, <1>5, <1>6 DEF Shape
  <1> HIDE DEF pos2
  <1>9. Holds(U \ {c}, {})'
    <2>1. \A d \in Entry : level'[d] <= lru'[d]
      BY <1>1, <1>4 DEF Holds
    <2>2. \A d \in U \ {c} : (Filling' /\ d = op'.c) \/ (lock'[d] /\ IsBlock(block'[d]))
      <3>1. SUFFICES ASSUME NEW d \in U \ {c}
                     PROVE  (Filling' /\ d = op'.c) \/ (lock'[d] /\ IsBlock(block'[d]))
        OBVIOUS
      <3>2. lock'[d] = lock[d] /\ block'[d] = block[d]
        BY <1>4, <1>7
      <3>3. (Filling /\ d = op.c) \/ (lock[d] /\ IsBlock(block[d]))
        BY <1>1 DEF Holds
      <3>4. CASE UNCHANGED op
        BY <3>2, <3>3, <3>4 DEF Filling
      <3>5. CASE op.c = c
        BY <3>2, <3>3, <3>5
      <3> QED
        BY <1>0a, <3>4, <3>5
    <2>3. (op'.name = "take" \/ Filling' => IsBlock(op'.b) /\ op'.v \in Level)
      BY <1>0a, <1>1, NoneIsOp DEF Holds, Filling
    <2>4. Filling' => op'.c \in U \ {c} /\ level'[op'.c] = op'.v /\ lru'[op'.c] = op'.v
      <3>1. SUFFICES ASSUME Filling' PROVE op'.c \in U \ {c} /\ level'[op'.c] = op'.v /\ lru'[op'.c] = op'.v
        OBVIOUS
      <3>2. UNCHANGED op /\ op.name = "reclaim" /\ op.c # c
        BY <1>0a, <3>1, NoneIsOp DEF Filling
      <3>3. op.c \in U /\ level[op.c] = op.v /\ lru[op.c] = op.v
        BY <1>1, <3>2 DEF Holds, Filling
      <3> QED
        BY <1>4, <1>5, <3>2, <3>3
    <2> QED
      BY <1>6, <2>1, <2>2, <2>3, <2>4 DEF Holds, IsBlock, Filling
  <1>10. Aging(U \ {c}, {}, pos2)'
    <2>1. \A d \in U \ {c} : Idle(d)' = Idle(d)
      BY <1>4, <1>7 DEF Idle
    <2>2. \A d, e \in U \ {c} : pos2[d] <= pos2[e] => Idle(e) <= Idle(d)
      BY <1>1, <1>7 DEF Aging
    <2> QED
      BY <1>6, <2>1, <2>2 DEF Aging, Idle
  <1>11. p = 0 => \A d \in U : Idle(d) <= Idle(c)
    BY <1>1, <1>2 DEF Aging
  <1>12. GivenBack(U, F, pos, c)'
    BY <1>8, <1>9, <1>10 DEF pos2, Picture, GivenBack
  <1>13. \A d \in Entry \ {c} : Idle(d)' = Idle(d)
    BY <1>4 DEF Idle
  <1> QED
    BY <1>0a, <1>2, <1>11, <1>12, <1>13

\* What is after an entry of a list is a list.
LEMMA Suffix ==
  ASSUME NEW nx, NEW h, NEW A, NEW pos \in Places, IsList(nx, h, A, pos), NEW c \in A
  PROVE  IsList(nx, nx[c], {d \in A : pos[c] < pos[d]}, pos)
  <1> DEFINE B == {d \in A : pos[c] < pos[d]}
  <1>1. /\ A \subseteq Entry /\ \A a, b \in A : pos[a] = pos[b] => a = b
        /\ \A a \in A : pos[a] \in Int
    BY DEF IsList, Places
  <1>2. \A a \in A : /\ nx[a] = NULL => \A b \in A : pos[b] <= pos[a]
                     /\ nx[a] # NULL => /\ nx[a] \in A /\ pos[a] < pos[nx[a]]
                                        /\ \A b \in A : pos[b] <= pos[a] \/ pos[nx[a]] <= pos[b]
    BY DEF IsList, Linked
  <1>3. \A d : d \in B <=> d \in A /\ pos[c] < pos[d]
    OBVIOUS
  <1> HIDE DEF B
  <1>4. Linked(nx, B, pos)
    <2>1. SUFFICES ASSUME NEW a \in B
                   PROVE  IF nx[a] = NULL THEN \A b \in B : pos[b] <= pos[a]
                          ELSE /\ nx[a] \in B /\ pos[a] < pos[nx[a]]
                               /\ \A b \in B : pos[b] <= pos[a] \/ pos[nx[a]] <= pos[b]
      BY DEF Linked
    <2>2. CASE nx[a] = NULL
      BY <1>2, <1>3, <2>2
    <2>3. CASE nx[a] # NULL
      <3>1. nx[a] \in A /\ pos[a] < pos[nx[a]] /\ pos[c] < pos[a]
        BY <1>2, <1>3, <2>3
      <3>2. pos[c] \in Int /\ pos[a] \in Int /\ pos[nx[a]] \in Int
        BY <1>1, <1>3, <3>1
      <3>3. nx[a] \in B
        BY <1>3, <3>1, <3>2
      <3> QED
        BY <1>2, <1>3, <2>3, <3>3
    <2> QED
      BY <2>2, <2>3
  <1>5. Starts(nx[c], B, pos)
    <2>1. CASE nx[c] = NULL
      <3>1. B = {}
        BY <1>1, <1>2, <1>3, <2>1
      <3> QED
        BY <2>1, <3>1 DEF Starts
    <2>2. CASE nx[c] # NULL
      <3>1. \A b \in B : pos[nx[c]] <= pos[b]
        BY <1>1, <1>2, <1>3, <2>2
      <3>2. nx[c] \in B
        BY <1>2, <1>3, <2>2
      <3> QED
        BY <2>2, <3>1, <3>2 DEF Starts
    <2> QED
      BY <2>1, <2>2
  <1>6. B \subseteq A
    BY <1>3
  <1>7. IsList(nx, nx[c], B, pos)
    BY <1>1, <1>4, <1>5, <1>6 DEF IsList
  <1> QED
    BY <1>7 DEF B

\* The head of a list is taken off.
LEMMA Popped ==
  ASSUME NEW nx, NEW h, NEW A, NEW pos \in Places, IsList(nx, h, A, pos), h # NULL
  PROVE  h \in A /\ IsList(nx, nx[h], A \ {h}, pos)
  <1>1. h \in A /\ \A d \in A : pos[h] <= pos[d]
    BY DEF IsList, Starts
  <1>2. (\A a, b \in A : pos[a] = pos[b] => a = b) /\ \A a \in A : pos[a] \in Int
    BY DEF IsList, Places
  <1>3. {d \in A : pos[h] < pos[d]} = A \ {h}
    BY <1>1, <1>2
  <1>4. IsList(nx, nx[h], {d \in A : pos[h] < pos[d]}, pos)
    BY <1>1, Suffix
  <1> QED
    BY <1>1, <1>3, <1>4

\* The first free entry is appended to the used list.
Taken(U, F, pos, c) == \E n \in Int : Picture(U \union {c}, F \ {c}, {}, [pos EXCEPT ![c] = n])

\* alloc_cache takes the head of the free list and puts it behind tail_.
LEMMA TakeStep ==
  ASSUME Types, NEW U, NEW F, NEW pos \in Places, Picture(U, F, {}, pos), Take
  PROVE  \E c \in F : /\ c = free /\ c \in Entry /\ c \notin U
                      /\ Idle(c)' = 0 /\ \A d \in Entry \ {c} : Idle(d)' = Idle(d)
                      /\ Taken(U, F, pos, c)'
  <1>0. PICK c : c = free
    OBVIOUS
  <1>1. Shape(U, F, {}, pos) /\ Holds(U, {}) /\ Aging(U, {}, pos)
    BY DEF Picture
  <1>2. op.name = "take" /\ c # NULL /\ ~Checking
    BY <1>0 DEF Take, Checking
  <1>3. /\ U \union F = Entry /\ U \intersect F = {} /\ used = Cardinality(U)
        /\ IsList(next, next[0], U, pos) /\ IsList(next, c, F, pos) /\ EndsAt(tail, U, pos)
    BY <1>0, <1>1, <1>2 DEF Shape
  <1>4. next \in [Slot -> Slot] /\ free \in Slot /\ tail \in Slot /\ op \in Op
        /\ level \in [Entry -> Nat] /\ lru \in [Entry -> Nat]
    BY DEF Types
  <1>5. c \in F /\ IsList(next, next[c], F \ {c}, pos)
    BY <1>2, <1>3, Popped
  <1>6. U \subseteq Entry /\ F \subseteq Entry /\ c \in Entry /\ c \notin U /\ 0 \notin Entry /\ Slot = Entry \union {0}
    BY <1>3, <1>5, Zero DEF NULL
  <1>7. next' = [next EXCEPT ![c] = NULL, ![tail] = c] /\ tail' = c /\ used' = used + 1 /\ free' = next[c]
    BY <1>0 DEF Take
  <1>7a. ListTo(next, tail, U, pos) /\ Extends(next, next', tail, c)
    BY <1>3, <1>7 DEF ListTo, Extends
  <1>8. /\ \A s \in Slot : s # c /\ s # tail => next'[s] = next[s]
        /\ tail # c /\ next'[tail] = c
    <2>1. tail # c
      BY <1>4, <1>6, <1>7a, AppendedOne
    <2> QED
      BY <1>4, <1>6, <1>7, <2>1
  <1>9. PICK n \in Int : ListTo(next', c, U \union {c}, [pos EXCEPT ![c] = n])
    BY <1>4, <1>6, <1>7a, AppendedOne
  <1> DEFINE pos2 == [pos EXCEPT ![c] = n]
  <1>10. pos2 \in Places /\ \A d \in Entry : d # c => pos2[d] = pos[d]
    BY <1>6, Moved
  <1>11. IsList(next', next'[0], U \union {c}, pos2) /\ EndsAt(c, U \union {c}, pos2)
    BY <1>9 DEF ListTo
  <1> HIDE DEF pos2
  <1>12. tail \in {0} \union U
    BY <1>3 DEF EndsAt
  <1>13. IsList(next', free', F \ {c}, pos2)
    <2>1. \A a \in F \ {c} : next'[a] = next[a] /\ pos2[a] = pos[a]
      <3>1. \A a \in F \ {c} : a \in Slot /\ a # c /\ a # tail /\ a \in Entry
        BY <1>3, <1>6, <1>12
      <3> QED
        BY <1>8, <1>10, <3>1
    <2>2. IsList(next', next[c], F \ {c}, pos2)
      BY <1>5, <2>1, SameList
    <2> QED
      BY <1>7, <2>2
  <1>14. used' = Cardinality(U \union {c})
    <2>1. IsFiniteSet(U)
      BY <1>6, EntryIsFinite, FS_Subset
    <2>2. Cardinality(U \union {c}) = Cardinality(U) + 1
      BY <1>6, <2>1, FS_AddElement
    <2> QED
      BY <1>3, <1>7, <2>2
  <1>15. op'.name = "alloc" /\ op'.p = tail /\ op'.c = c /\ op'.b = op.b /\ op'.v = op.v
    <2>1. op' = [op EXCEPT !.name = "alloc", !.p = tail, !.c = c]
      BY <1>0 DEF Take
    <2> QED
      BY <1>4, <2>1 DEF Op
  <1>16. /\ lock' = lock /\ block' = block
         /\ level' = [level EXCEPT ![c] = op.v] /\ lru' = [lru EXCEPT ![c] = op.v]
    BY <1>0 DEF Take
  <1>17. /\ level'[c] = op.v /\ lru'[c] = op.v
         /\ \A d \in Entry : d # c => level'[d] = level[d] /\ lru'[d] = lru[d]
    BY <1>4, <1>6, <1>16
  <1>18. Shape(U \union {c}, F \ {c}, {}, pos2)'
    <2>1. (U \union {c}) \union {} \union (F \ {c}) = Entry /\ (U \union {c} \union {}) \intersect (F \ {c}) = {}
          /\ U \union {c} \union {} = U \union {c}
      BY <1>3, <1>5, <1>6
    <2>2. ~Checking' /\ op'.name # "check" /\ op'.name # "relink"
      BY <1>15 DEF Checking
    <2> QED
      BY <1>7, <1>11, <1>13, <1>14, <2>1, <2>2 DEF Shape
  <1>19. Holds(U \union {c}, {})'
    <2>1. IsBlock(op.b) /\ op.v \in Level /\ op.v \in Nat
      BY <1>1, <1>2, LevelsAreNumbers DEF Holds
    <2>2. \A d \in Entry : level'[d] <= lru'[d]
      BY <1>1, <1>17, <2>1 DEF Holds
    <2>3. \A d \in U : lock'[d] /\ IsBlock(block'[d])
      BY <1>1, <1>2, <1>16 DEF Holds, Filling
    <2>4. \A d \in U \union {c} \union {} : d = op'.c \/ (lock'[d] /\ IsBlock(block'[d]))
      BY <1>15, <2>3
    <2>5. op'.c \in U \union {c} /\ op'.p \in {0} \union (U \union {c}) /\ next'[op'.p] = op'.c /\ op'.c = tail'
      BY <1>7, <1>8, <1>12, <1>15
    <2>6. level'[op'.c] = op'.v /\ lru'[op'.c] = op'.v
      BY <1>15, <1>17
    <2>7. Filling'
      BY <1>15 DEF Filling
    <2> QED
      BY <1>15, <2>1, <2>2, <2>4, <2>5, <2>6, <2>7 DEF Holds, IsBlock
  <1>20. Aging(U \union {c}, {}, pos2)'
    <2>1. \A d \in U : Idle(d)' = Idle(d) /\ Idle(d) >= 0 /\ pos2[d] = pos[d]
      <3>1. SUFFICES ASSUME NEW d \in U PROVE Idle(d)' = Idle(d) /\ Idle(d) >= 0 /\ pos2[d] = pos[d]
        OBVIOUS
      <3>2. d \in Entry /\ d # c /\ level[d] \in Nat /\ lru[d] \in Nat /\ level[d] <= lru[d]
        BY <1>1, <1>4, <1>6 DEF Holds
      <3> QED
        BY <1>10, <1>17, <3>2 DEF Idle
    <2>2. Idle(c)' = 0
      <3>1. op.v \in Nat
        BY <1>1, <1>2, LevelsAreNumbers DEF Holds
      <3> QED
        BY <1>17, <3>1 DEF Idle
    <2>3. \A d \in U : pos2[d] < pos2[c]
      <3>1. \A d \in U : pos2[d] <= pos2[c] /\ pos2[d] # pos2[c]
        BY <1>6, <1>11 DEF EndsAt, IsList
      <3>2. \A d \in U \union {c} : pos2[d] \in Int
        BY <1>6, <1>10 DEF Places
      <3> QED
        BY <3>1, <3>2
    <2>4. ASSUME NEW d \in U \union {c}, NEW e \in U \union {c}, pos2[d] <= pos2[e]
          PROVE  Idle(e)' <= Idle(d)'
      <3>0. pos2[d] \in Int /\ pos2[e] \in Int
        BY <1>6, <1>10 DEF Places
      <3>1. CASE d = c
        <4>1. e = c
          BY <2>3, <2>4, <3>0, <3>1
        <4> QED
          BY <2>2, <3>1, <4>1
      <3>2. CASE d # c /\ e = c
        BY <2>1, <2>2, <3>2
      <3>3. CASE d # c /\ e # c
        BY <1>1, <2>1, <2>4, <3>3 DEF Aging
      <3> QED
        BY <3>1, <3>2, <3>3
    <2> QED
      BY <1>15, <2>4 DEF Aging, Idle
  <1>21. Taken(U, F, pos, c)'
    BY <1>18, <1>19, <1>20 DEF pos2, Picture, Taken
  <1>22. Idle(c)' = 0 /\ \A d \in Entry \ {c} : Idle(d)' = Idle(d)
    <2>1. op.v \in Nat
      BY <1>1, <1>2, LevelsAreNumbers DEF Holds
    <2> QED
      BY <1>17, <2>1 DEF Idle
  <1> QED
    BY <1>0, <1>5, <1>6, <1>21, <1>22

\* The steps of an allocation, and of the users, that leave the lists alone.
LEMMA SteadySteps ==
  ASSUME Types, NEW U, NEW F, NEW pos \in Places, Picture(U, F, {}, pos), ~Checking,
         \/ \E b \in Block, v \in Level : alloc_cache(b, v)
         \/ NoCache \/ Map \/ Mapped
         \/ \E b \in Block : Read(b) \/ Pin(b) \/ Unpin(b)
  PROVE  Picture(U, F, {}, pos)'
  <1>1. Shape(U, F, {}, pos) /\ Holds(U, {}) /\ Aging(U, {}, pos)
    BY DEF Picture
  <1>2. UNCHANGED <<next, tail, free, used, level, lru>>
    BY DEF alloc_cache, NoCache, Map, Mapped, Read, Pin, Unpin, listVars, entryVars
  <1>3. op \in Op /\ block \in [Entry -> SUBSET Block] /\ lock \in [Entry -> BOOLEAN]
    BY DEF Types
  <1>4. U \subseteq Entry
    BY <1>1 DEF Shape
  <1>5. ~Checking' /\ op'.name # "check" /\ op'.name # "relink"
    <2>1. CASE \E b \in Block, v \in Level : alloc_cache(b, v)
      <3>1. PICK b \in Block, v \in Level : alloc_cache(b, v)
        BY <2>1
      <3>2. op'.name = "take"
        BY <3>1 DEF alloc_cache, None
      <3> QED
        BY <3>2 DEF Checking
    <2>2. CASE NoCache \/ Mapped
      BY <2>2, NoneIsOp DEF NoCache, Mapped, Checking
    <2>3. CASE Map
      BY <1>3, <2>3, OpFields DEF Map, Checking, Op
    <2>4. CASE \E b \in Block : Read(b) \/ Pin(b) \/ Unpin(b)
      BY <2>4 DEF Read, Pin, Unpin, Checking
    <2> QED
      BY <2>1, <2>2, <2>3, <2>4
  <1>6. Shape(U, F, {}, pos)'
    <2>1. IsList(next', next'[0], U, pos) /\ IsList(next', free', F, pos) /\ EndsAt(tail', U, pos)
      BY <1>1, <1>2 DEF Shape
    <2> QED
      BY <1>1, <1>2, <1>5, <2>1 DEF Shape
  <1>7. Aging(U, {}, pos)'
    <2>1. \A d \in Entry : Idle(d)' = Idle(d)
      BY <1>2 DEF Idle
    <2>2. \A c, d \in U : pos[c] <= pos[d] => Idle(d) <= Idle(c)
      BY <1>1 DEF Aging
    <2>3. \A c, d \in U : pos[c] <= pos[d] => Idle(d)' <= Idle(c)'
      BY <1>4, <2>1, <2>2
    <2> QED
      BY <1>5, <2>3 DEF Aging, Idle
  <1>8. Holds(U, {})'
    <2>1. \A c \in Entry : level'[c] <= lru'[c]
      BY <1>1, <1>2 DEF Holds
    <2>2. \A c \in U : (Filling /\ c = op.c) \/ (lock[c] /\ IsBlock(block[c]))
      BY <1>1 DEF Holds
    <2>3. CASE \E b \in Block, v \in Level : alloc_cache(b, v)
      <3>1. PICK b \in Block, v \in Level : alloc_cache(b, v)
        BY <2>3
      <3>2. op'.name = "take" /\ op'.b = {b} /\ op'.v = v /\ op = None /\ UNCHANGED <<lock, block>>
        BY <3>1 DEF alloc_cache, None, entryVars
      <3>3. ~Filling /\ ~Filling' /\ IsBlock(op'.b) /\ op'.v \in Level
        BY <3>1, <3>2, NoneIsOp DEF Filling, IsBlock
      <3>4. op'.name # "alloc"
        BY <3>2
      <3> QED
        BY <2>1, <2>2, <3>2, <3>3, <3>4 DEF Holds, IsBlock
    <2>4. CASE NoCache
      <3>1. op = op /\ op.name = "take" /\ op' = None /\ UNCHANGED <<lock, block>>
        BY <2>4 DEF NoCache, entryVars
      <3>2. ~Filling /\ ~Filling' /\ op'.name # "take" /\ op'.name # "alloc"
        BY <3>1, NoneIsOp DEF Filling
      <3> QED
        BY <2>1, <2>2, <3>1, <3>2 DEF Holds, IsBlock
    <2>5. CASE Map
      <3>1. op.name = "alloc" /\ op' = [op EXCEPT !.name = "reclaim"] /\ UNCHANGED <<lock, block>>
        BY <2>5 DEF Map, entryVars
      <3>2. op'.name = "reclaim" /\ op'.c = op.c /\ op'.b = op.b /\ op'.v = op.v
        BY <1>3, <3>1 DEF Op
      <3>3. Filling /\ Filling' /\ op'.name # "alloc"
        BY <3>1, <3>2 DEF Filling
      <3>4. IsBlock(op.b) /\ op.v \in Level /\ op.c \in U /\ level[op.c] = op.v /\ lru[op.c] = op.v
        BY <1>1, <3>3 DEF Holds
      <3> QED
        BY <1>2, <2>1, <2>2, <3>1, <3>2, <3>3, <3>4 DEF Holds, IsBlock
    <2>6. CASE Mapped
      <3>1. /\ op.name = "reclaim" /\ op' = None
            /\ block' = [block EXCEPT ![op.c] = op.b] /\ lock' = [lock EXCEPT ![op.c] = TRUE]
        BY <2>6 DEF Mapped
      <3>2. Filling /\ ~Filling' /\ op'.name # "take" /\ op'.name # "alloc"
        BY <3>1, NoneIsOp DEF Filling
      <3>3. IsBlock(op.b) /\ op.c \in U /\ op.c \in Entry
        BY <1>1, <1>4, <3>2 DEF Holds
      <3>4. lock'[op.c] = TRUE /\ block'[op.c] = op.b
        BY <1>3, <3>1, <3>3
      <3>5. \A c \in U : c # op.c => lock'[c] = lock[c] /\ block'[c] = block[c]
        BY <1>3, <1>4, <3>1
      <3>6. \A c \in U : lock'[c] /\ IsBlock(block'[c])
        BY <2>2, <3>3, <3>4, <3>5
      <3> QED
        BY <2>1, <3>2, <3>6 DEF Holds, IsBlock
    <2>7. CASE \E b \in Block : Read(b) \/ Pin(b) \/ Unpin(b)
      <3>1. op = None /\ UNCHANGED <<lock, block, op>>
        BY <2>7 DEF Read, Pin, Unpin, entryVars
      <3>2. ~Filling /\ ~Filling' /\ op'.name # "take" /\ op'.name # "alloc"
        BY <3>1, NoneIsOp DEF Filling
      <3> QED
        BY <2>1, <2>2, <3>1, <3>2 DEF Holds, IsBlock
    <2> QED
      BY <2>3, <2>4, <2>5, <2>6, <2>7
  <1> QED
    BY <1>6, <1>7, <1>8 DEF Picture

-----------------------------------------------------------------------------
(* The check *)

\* It begins at the head, with nothing on the stack.
LEMMA CheckBegins ==
  ASSUME Types, NEW U, NEW F, NEW pos \in Places, Picture(U, F, {}, pos), check_caches
  PROVE  Picture(U, F, {}, pos)'
  <1>1. Shape(U, F, {}, pos) /\ Holds(U, {}) /\ Aging(U, {}, pos)
    BY DEF Picture
  <1>2. /\ op = None /\ op' = [None EXCEPT !.name = "check"]
        /\ UNCHANGED <<next, tail, free, used, block, lock, level, lru>>
    BY DEF check_caches, listVars, entryVars
  <1>3. op'.name = "check" /\ op'.p = 0 /\ op'.c = NULL /\ op.name = "none"
    BY <1>2 DEF None
  <1>4. Checking' /\ ~Checking /\ ~Filling /\ ~Filling'
    BY <1>3 DEF Checking, Filling
  <1>5. Shape(U, F, {}, pos)'
    <2>1. IsList(next', NULL, {}, pos)
      BY DEF IsList, Linked, Starts
    <2>2. IsList(next', next'[0], U, pos) /\ IsList(next', free', F, pos)
      BY <1>1, <1>2 DEF Shape
    <2>3. op'.name # "relink" /\ {} \intersect U = {} /\ op'.p \in {0} \union U
      BY <1>3
    <2> QED
      BY <1>1, <1>2, <1>3, <1>4, <2>1, <2>2, <2>3 DEF Shape
  <1>6. Holds(U, {})'
    <2>1. op'.name # "take" /\ op'.name # "alloc"
      BY <1>3
    <2> QED
      BY <1>1, <1>2, <1>4, <2>1 DEF Holds, IsBlock
  <1>7. Aging(U, {}, pos)'
    <2>1. \A c, d \in U : pos[c] <= pos[d] => Idle(d) <= Idle(c)
      BY <1>1 DEF Aging
    <2> QED
      BY <1>2, <1>3, <2>1 DEF Aging, Idle
  <1> QED
    BY <1>5, <1>6, <1>7 DEF Picture

\* The entry after a slot of a list.
PointsAt(nx, p, c) == c = nx[p] /\ c # NULL

\* The entry a pointer leads to is the next one of the list.
LEMMA NextOne ==
  ASSUME NEW nx, NEW pos \in Places, NEW A, IsList(nx, nx[0], A, pos), NEW p \in {0} \union A,
         NEW c, PointsAt(nx, p, c)
  PROVE  Follows(c, p, A, pos) /\ c \in A /\ c \in Entry /\ c # p
  <1>0. c = nx[p] /\ c # NULL
    BY DEF PointsAt
  <1>1. A \subseteq Entry /\ 0 \notin A /\ 0 \notin Entry
    BY Zero DEF IsList, NULL
  <1>2. Follows(c, p, A, pos)
    BY <1>0, <1>1 DEF IsList, Linked, Starts, Follows, NULL
  <1>3. c \in A /\ (p # 0 => pos[p] < pos[c])
    BY <1>2 DEF Follows
  <1>4. c # p
    <2>1. CASE p = 0
      BY <1>1, <1>3, <2>1
    <2>2. CASE p # 0
      <3>1. pos[c] \in Int /\ pos[p] < pos[c]
        BY <1>1, <1>3, <2>2 DEF Places
      <3> QED
        BY <3>1
    <2> QED
      BY <2>1, <2>2
  <1> QED
    BY <1>1, <1>2, <1>3, <1>4

\* An entry that was read goes from the list to the stack.
Stacked(U, F, S, pos, c) == \E n \in Int : Picture(U \ {c}, F, S \union {c}, [pos EXCEPT ![c] = n])

\* check_caches takes a touched entry off the list and keeps it aside.
LEMMA TouchedStep ==
  ASSUME Types, NEW U, NEW F, NEW S, NEW pos \in Places, Picture(U, F, S, pos), Touched
  PROVE  \E c \in U : /\ c = next[op.p] /\ c \in Entry /\ c \notin S /\ Follows(c, op.p, U, pos)
                      /\ Idle(c)' = 0 /\ \A d \in Entry \ {c} : Idle(d)' = Idle(d)
                      /\ Stacked(U, F, S, pos, c)'
  <1>0. PICK c : c = next[op.p]
    OBVIOUS
  <1>1. Shape(U, F, S, pos) /\ Holds(U, S) /\ Aging(U, S, pos)
    BY DEF Picture
  <1>2. op.name = "check" /\ c # NULL /\ Checking
    BY <1>0 DEF Touched, Checking
  <1>3. /\ U \union S \union F = Entry /\ (U \union S) \intersect F = {} /\ used = Cardinality(U \union S)
        /\ IsList(next, next[0], U, pos) /\ IsList(next, free, F, pos)
        /\ IsList(next, op.c, S, pos) /\ S \intersect U = {} /\ op.p \in {0} \union U
    BY <1>1, <1>2 DEF Shape
  <1>4. next \in [Slot -> Slot] /\ op \in Op /\ op.p \in Slot /\ op.c \in Slot
        /\ level \in [Entry -> Nat] /\ lru \in [Entry -> Nat]
    BY OpFields DEF Types
  <1>5. Follows(c, op.p, U, pos) /\ c \in U /\ c \in Entry /\ c # op.p
    <2>1. PointsAt(next, op.p, c)
      BY <1>0, <1>2 DEF PointsAt
    <2> QED
      BY <1>3, <2>1, NextOne
  <1>6. /\ U \subseteq Entry /\ F \subseteq Entry /\ S \subseteq Entry /\ 0 \notin Entry /\ Slot = Entry \union {0}
        /\ c \notin S /\ c \notin F /\ c \in Slot
    BY <1>3, <1>5, Zero DEF NULL
  <1>7. /\ next' = [next EXCEPT ![op.p] = next[c], ![c] = op.c] /\ op' = [op EXCEPT !.c = c]
        /\ UNCHANGED <<tail, free, used, block, lock, level>> /\ lru' = [lru EXCEPT ![c] = level[c]]
    BY <1>0 DEF Touched
  <1>8. /\ next'[op.p] = next[c] /\ next'[c] = op.c
        /\ \A s \in Slot : s # op.p /\ s # c => next'[s] = next[s]
    BY <1>4, <1>5, <1>6, <1>7
  <1>9. LedPast(next, next', op.p, c)
    BY <1>0, <1>2, <1>8 DEF LedPast
  <1>10. IsList(next', next'[0], U \ {c}, pos)
    BY <1>3, <1>4, <1>9, Removed
  <1>11. \A a \in S \union F : next'[a] = next[a]
    <2>1. \A a \in S \union F : a \in Slot /\ a # op.p /\ a # c
      BY <1>3, <1>6
    <2> QED
      BY <1>8, <2>1
  <1>12. PICK n \in Int : IsList(next', c, S \union {c}, [pos EXCEPT ![c] = n])
    BY <1>3, <1>5, <1>6, <1>8, <1>11, Pushed
  <1> DEFINE pos2 == [pos EXCEPT ![c] = n]
  <1>13. \A d \in Entry : d # c => pos2[d] = pos[d]
    BY <1>5, Moved
  <1>14. IsList(next', c, S \union {c}, pos2)
    BY <1>12
  <1> HIDE DEF pos2
  <1>15. op'.name = "check" /\ op'.p = op.p /\ op'.c = c
    BY <1>2, <1>4, <1>7 DEF Op
  <1>16. Checking' /\ ~Filling /\ ~Filling'
    BY <1>2, <1>15 DEF Checking, Filling
  <1>17. Shape(U \ {c}, F, S \union {c}, pos2)'
    <2>1. \A d \in U \ {c} : pos2[d] = pos[d]
      BY <1>6, <1>13
    <2>2. IsList(next', next'[0], U \ {c}, pos2)
      BY <1>10, <2>1, SameList
    <2>3. \A d \in F : next'[d] = next[d] /\ pos2[d] = pos[d]
      BY <1>6, <1>11, <1>13
    <2>4. IsList(next', free', F, pos2)
      <3>1. IsList(next', free, F, pos2)
        BY <1>3, <2>3, SameList
      <3> QED
        BY <1>7, <3>1
    <2>5. (U \ {c}) \union (S \union {c}) = U \union S /\ (S \union {c}) \intersect (U \ {c}) = {}
      BY <1>3, <1>5
    <2>6. op'.p \in {0} \union (U \ {c}) /\ op'.name # "relink"
      BY <1>3, <1>5, <1>15
    <2> QED
      BY <1>3, <1>7, <1>14, <1>15, <1>16, <2>2, <2>4, <2>5, <2>6 DEF Shape
  <1>18. level'[c] = level[c] /\ lru'[c] = level[c] /\ \A d \in Entry : d # c => level'[d] = level[d] /\ lru'[d] = lru[d]
    BY <1>4, <1>5, <1>7
  <1>19. Idle(c)' = 0 /\ \A d \in Entry : d # c => Idle(d)' = Idle(d)
    BY <1>4, <1>5, <1>18 DEF Idle
  <1>20. Holds(U \ {c}, S \union {c})'
    <2>1. \A d \in Entry : level'[d] <= lru'[d]
      <3>1. \A d \in Entry : level[d] <= lru[d] /\ level[d] \in Nat
        BY <1>1, <1>4 DEF Holds
      <3> QED
        BY <1>5, <1>18, <3>1
    <2>2. \A d \in U \union S : lock[d] /\ IsBlock(block[d])
      BY <1>1, <1>16 DEF Holds
    <2>3. \A d \in (U \ {c}) \union (S \union {c}) : lock'[d] /\ IsBlock(block'[d])
      BY <1>5, <1>7, <2>2
    <2>4. op'.name # "take" /\ op'.name # "alloc"
      BY <1>15
    <2> QED
      BY <1>16, <2>1, <2>3, <2>4 DEF Holds, IsBlock
  <1>21. Aging(U \ {c}, S \union {c}, pos2)'
    <2>1. \A d \in U \ {c} : d \in Entry /\ pos2[d] = pos[d] /\ Idle(d)' = Idle(d)
      BY <1>6, <1>13, <1>19
    <2>2. \A d, e \in U : pos[d] <= pos[e] => Idle(e) <= Idle(d)
      BY <1>1 DEF Aging
    <2>3. \A d, e \in U : op.p # 0 /\ pos[d] <= pos[op.p] /\ pos[op.p] < pos[e] => Idle(e) < Idle(d)
      BY <1>1, <1>2 DEF Aging
    <2>4. \A d, e \in U \ {c} : pos2[d] <= pos2[e] => Idle(e)' <= Idle(d)'
      BY <2>1, <2>2
    <2>5. op.p # 0 => pos2[op.p] = pos[op.p]
      BY <1>3, <1>5, <2>1
    <2>6. \A d, e \in U \ {c} : op'.p # 0 /\ pos2[d] <= pos2[op'.p] /\ pos2[op'.p] < pos2[e] => Idle(e)' < Idle(d)'
      BY <1>15, <2>1, <2>3, <2>5
    <2>7. \A d \in S \union {c} : Idle(d)' = 0
      <3>1. \A d \in S : Idle(d) = 0 /\ d \in Entry /\ d # c
        BY <1>1, <1>6 DEF Aging
      <3> QED
        BY <1>19, <3>1
    <2> QED
      BY <2>4, <2>6, <2>7 DEF Aging, Idle
  <1>22. Stacked(U, F, S, pos, c)'
    BY <1>17, <1>20, <1>21 DEF pos2, Picture, Stacked
  <1> QED
    BY <1>0, <1>5, <1>6, <1>19, <1>22

\* An entry that was not read becomes older, and the check goes past it.
LEMMA UntouchedStep ==
  ASSUME Types, NEW U, NEW F, NEW S, NEW pos \in Places, Picture(U, F, S, pos), Untouched
  PROVE  \E c \in U : /\ c = next[op.p] /\ c \in Entry /\ Follows(c, op.p, U, pos) /\ op'.p = c
                      /\ Idle(c)' = Idle(c) + 1 /\ \A d \in Entry \ {c} : Idle(d)' = Idle(d)
                      /\ Picture(U, F, S, pos)'
  <1>0. PICK c : c = next[op.p]
    OBVIOUS
  <1>1. Shape(U, F, S, pos) /\ Holds(U, S) /\ Aging(U, S, pos)
    BY DEF Picture
  <1>2. op.name = "check" /\ c # NULL /\ Checking
    BY <1>0 DEF Untouched, Checking
  <1>3. /\ U \union S \union F = Entry /\ IsList(next, next[0], U, pos)
        /\ S \intersect U = {} /\ op.p \in {0} \union U
    BY <1>1, <1>2 DEF Shape
  <1>4. op \in Op /\ level \in [Entry -> Nat] /\ lru \in [Entry -> Nat]
    BY DEF Types
  <1>5. Follows(c, op.p, U, pos) /\ c \in U /\ c \in Entry /\ c # op.p
    <2>1. PointsAt(next, op.p, c)
      BY <1>0, <1>2 DEF PointsAt
    <2> QED
      BY <1>3, <2>1, NextOne
  <1>6. /\ UNCHANGED <<next, tail, free, used, block, lock, level>>
        /\ lru' = [lru EXCEPT ![c] = lru[c] + 1] /\ op' = [op EXCEPT !.p = c]
    BY <1>0 DEF Untouched, listVars
  <1>7. op'.name = "check" /\ op'.p = c /\ op'.c = op.c
    BY <1>2, <1>4, <1>6 DEF Op
  <1>8. Checking' /\ ~Filling /\ ~Filling'
    BY <1>2, <1>7 DEF Checking, Filling
  <1>9. Shape(U, F, S, pos)'
    <2>1. op'.name # "relink" /\ op'.p \in {0} \union U
      BY <1>5, <1>7
    <2> QED
      BY <1>1, <1>2, <1>3, <1>6, <1>7, <1>8, <2>1 DEF Shape
  <1>10. lru'[c] = lru[c] + 1 /\ \A d \in Entry : d # c => lru'[d] = lru[d]
    BY <1>4, <1>5, <1>6
  <1>11. /\ \A d \in Entry : Idle(d) \in Int
         /\ Idle(c)' = Idle(c) + 1 /\ \A d \in Entry : d # c => Idle(d)' = Idle(d)
    BY <1>4, <1>5, <1>6, <1>10 DEF Idle
  <1>12. Holds(U, S)'
    <2>1. \A d \in Entry : level'[d] <= lru'[d]
      <3>1. \A d \in Entry : level[d] <= lru[d] /\ level[d] \in Nat /\ lru[d] \in Nat
        BY <1>1, <1>4 DEF Holds
      <3> QED
        BY <1>5, <1>6, <1>10, <3>1
    <2>2. \A d \in U \union S : lock'[d] /\ IsBlock(block'[d])
      BY <1>1, <1>6, <1>8 DEF Holds
    <2>3. op'.name # "take" /\ op'.name # "alloc"
      BY <1>7
    <2> QED
      BY <1>8, <2>1, <2>2, <2>3 DEF Holds, IsBlock
  <1>13. Aging(U, S, pos)'
    <2>1. U \subseteq Entry /\ (\A d \in U : pos[d] \in Int) /\ \A d, e \in U : pos[d] = pos[e] => d = e
      BY <1>3 DEF Places, IsList
    <2>2. \A d, e \in U : pos[d] <= pos[e] => Idle(e) <= Idle(d)
      BY <1>1 DEF Aging
    <2>3. \A d, e \in U : op.p # 0 /\ pos[d] <= pos[op.p] /\ pos[op.p] < pos[e] => Idle(e) < Idle(d)
      BY <1>1, <1>2 DEF Aging
    <2>4. ASSUME NEW d \in U, NEW e \in U, pos[d] < pos[c], pos[c] <= pos[e]
          PROVE  Idle(e) < Idle(d)
      <3>1. op.p # 0
        BY <1>5, <2>1, <2>4 DEF Follows
      <3>2. op.p \in U /\ pos[op.p] < pos[c] /\ pos[d] <= pos[op.p]
        <4>1. op.p \in U /\ pos[op.p] < pos[c] /\ (pos[d] <= pos[op.p] \/ pos[c] <= pos[d])
          BY <1>3, <1>5, <3>1 DEF Follows
        <4>2. pos[c] \in Int /\ pos[d] \in Int
          BY <1>5, <2>1
        <4> QED
          BY <2>4, <4>1, <4>2
      <3>3. pos[op.p] < pos[e]
        <4>1. pos[c] \in Int /\ pos[e] \in Int /\ pos[op.p] \in Int
          BY <1>5, <2>1, <3>2
        <4> QED
          BY <2>4, <3>2, <4>1
      <3> QED
        BY <2>3, <3>1, <3>2, <3>3
    <2>5. ASSUME NEW d \in U, NEW e \in U, pos[d] <= pos[e] PROVE Idle(e)' <= Idle(d)'
      <3>1. Idle(e) <= Idle(d) /\ Idle(e) \in Int /\ Idle(d) \in Int
        BY <1>11, <2>1, <2>2, <2>5
      <3>2. CASE e = c /\ d # c
        <4>1. pos[d] < pos[c] /\ pos[c] <= pos[e]
          <5>1. pos[d] \in Int /\ pos[c] \in Int /\ pos[d] # pos[c]
            BY <1>5, <2>1, <3>2
          <5> QED
            BY <2>5, <3>2, <5>1
        <4>2. Idle(e) < Idle(d)
          BY <2>4, <4>1
        <4> QED
          BY <1>11, <2>1, <3>1, <3>2, <4>2
      <3>3. CASE e # c \/ d = c
        BY <1>11, <2>1, <3>1, <3>3
      <3> QED
        BY <3>2, <3>3
    <2>6. ASSUME NEW d \in U, NEW e \in U, pos[d] <= pos[c], pos[c] < pos[e] PROVE Idle(e)' < Idle(d)'
      <3>1. Idle(e) \in Int /\ Idle(d) \in Int /\ pos[c] \in Int /\ pos[d] \in Int /\ pos[e] \in Int
        BY <1>5, <1>11, <2>1
      <3>2. e # c /\ Idle(e)' = Idle(e) /\ pos[d] <= pos[e]
        BY <1>11, <2>1, <2>6, <3>1
      <3>3. CASE d = c
        BY <1>11, <2>2, <3>1, <3>2, <3>3
      <3>4. CASE d # c
        <4>1. pos[d] < pos[c] /\ pos[c] <= pos[e]
          BY <1>5, <2>1, <2>6, <3>1, <3>4
        <4> QED
          BY <1>11, <2>1, <2>4, <3>2, <3>4, <4>1
      <3> QED
        BY <3>3, <3>4
    <2>7. \A d \in S : Idle(d)' = 0
      <3>1. \A d \in S : Idle(d) = 0 /\ d \in Entry /\ d # c
        BY <1>1, <1>3, <1>5 DEF Aging
      <3> QED
        BY <1>11, <3>1
    <2> QED
      BY <1>7, <2>5, <2>6, <2>7 DEF Aging, Idle
  <1>14. Picture(U, F, S, pos)'
    BY <1>9, <1>12, <1>13 DEF Picture
  <1> QED
    BY <1>0, <1>5, <1>7, <1>11, <1>14

\* At the end of the list the slot is the last entry, or the empty head.
LEMMA EndStep ==
  ASSUME Types, NEW U, NEW F, NEW S, NEW pos \in Places, Picture(U, F, S, pos), EndOfList
  PROVE  Picture(U, F, S, pos)'
  <1>1. Shape(U, F, S, pos) /\ Holds(U, S) /\ Aging(U, S, pos)
    BY DEF Picture
  <1>2. /\ op.name = "check" /\ next[op.p] = NULL /\ op' = [op EXCEPT !.name = "relink"]
        /\ UNCHANGED <<next, tail, free, used, block, lock, level, lru>>
    BY DEF EndOfList, listVars, entryVars
  <1>3. op'.name = "relink" /\ op'.p = op.p /\ op'.c = op.c
    <2>1. op \in Op
      BY DEF Types
    <2> QED
      BY <1>2, <2>1 DEF Op
  <1>4. Checking /\ Checking' /\ ~Filling /\ ~Filling'
    BY <1>2, <1>3 DEF Checking, Filling
  <1>5. /\ IsList(next, next[0], U, pos) /\ S \intersect U = {} /\ op.p \in {0} \union U
        /\ IsList(next, free, F, pos) /\ IsList(next, op.c, S, pos)
        /\ U \union S \union F = Entry /\ (U \union S) \intersect F = {} /\ used = Cardinality(U \union S)
    BY <1>1, <1>2, <1>4 DEF Shape
  <1>6. EndsAt(op.p, U, pos)
    <2>1. CASE op.p = 0
      BY <1>2, <1>5, <2>1 DEF IsList, Starts, EndsAt
    <2>2. CASE op.p # 0
      BY <1>2, <1>5, <2>2 DEF IsList, Linked, EndsAt
    <2> QED
      BY <2>1, <2>2
  <1>7. Shape(U, F, S, pos)'
    <2>1. op'.name # "check"
      BY <1>3
    <2> QED
      BY <1>2, <1>3, <1>4, <1>5, <1>6, <2>1 DEF Shape
  <1>8. Holds(U, S)'
    <2>1. op'.name # "take" /\ op'.name # "alloc"
      BY <1>3
    <2> QED
      BY <1>1, <1>2, <1>4, <2>1 DEF Holds, IsBlock
  <1>9. Aging(U, S, pos)'
    <2>1. (\A c, d \in U : pos[c] <= pos[d] => Idle(d) <= Idle(c)) /\ \A c \in S : Idle(c) = 0
      BY <1>1 DEF Aging
    <2>2. op'.name # "check"
      BY <1>3
    <2> QED
      BY <1>2, <2>1, <2>2 DEF Aging, Idle
  <1> QED
    BY <1>7, <1>8, <1>9 DEF Picture

\* The first entry of the stack is put behind the list.  The first time that brings the
\* rest of the stack along; from then on the pointers are as they are to be.
LEMMA RelinkStep ==
  ASSUME Types, NEW U, NEW F, NEW S, NEW pos \in Places, Picture(U, F, S, pos), Relink
  PROVE  \E U2, S2 \in SUBSET Entry, pos2 \in Places :
            U2 \union S2 = U \union S /\ Picture(U2, F, S2, pos2)'
  <1>0. PICK c : c = op.c
    OBVIOUS
  <1>1. Shape(U, F, S, pos) /\ Holds(U, S) /\ Aging(U, S, pos)
    BY DEF Picture
  <1>2. /\ op.name = "relink" /\ c # NULL
        /\ next' = [next EXCEPT ![op.p] = c] /\ op' = [op EXCEPT !.p = c, !.c = next[c]]
        /\ UNCHANGED <<tail, free, used, block, lock, level, lru>>
    BY <1>0 DEF Relink, entryVars
  <1>3. Checking
    BY <1>2 DEF Checking
  <1>4. /\ U \union S \union F = Entry /\ (U \union S) \intersect F = {} /\ used = Cardinality(U \union S)
        /\ IsList(next, next[0], U, pos) /\ IsList(next, free, F, pos) /\ IsList(next, c, S, pos)
        /\ \/ S \intersect U = {} /\ EndsAt(op.p, U, pos)
           \/ op.p \in U /\ S = {d \in U : pos[op.p] < pos[d]}
    BY <1>0, <1>1, <1>2, <1>3 DEF Shape
  <1>5. next \in [Slot -> Slot] /\ op \in Op /\ op.p \in Slot /\ c \in Slot
        /\ level \in [Entry -> Nat] /\ lru \in [Entry -> Nat]
    BY <1>0, OpFields DEF Types
  <1>6. U \subseteq Entry /\ S \subseteq Entry /\ F \subseteq Entry /\ 0 \notin Entry /\ Slot = Entry \union {0}
        /\ \A d \in Entry : pos[d] \in Int
    BY <1>4, Zero DEF NULL, Places
  <1>7. c \in S /\ IsList(next, next[c], S \ {c}, pos)
    BY <1>2, <1>4, <1>5, Popped
  <1>8. op'.name = "relink" /\ op'.p = c /\ op'.c = next[c]
    BY <1>2, <1>5 DEF Op
  <1>9. Checking' /\ ~Filling /\ ~Filling' /\ op'.name # "check" /\ op'.name # "take" /\ op'.name # "alloc"
    BY <1>2, <1>8 DEF Checking, Filling
  <1>10. (\A d \in S : pos[c] <= pos[d]) /\ \A d, e \in S : pos[d] = pos[e] => d = e
    BY <1>2, <1>4 DEF IsList, Starts
  <1>11. \A d \in Entry : Idle(d)' = Idle(d)
    BY <1>2 DEF Idle
  <1>12. (\A d \in Entry : Idle(d) \in Int /\ Idle(d) >= 0) /\ \A d \in S : Idle(d) = 0
    <2>1. \A d \in Entry : level[d] \in Nat /\ lru[d] \in Nat /\ level[d] <= lru[d]
      BY <1>1, <1>5 DEF Holds
    <2>2. \A d \in Entry : Idle(d) \in Int /\ Idle(d) >= 0
      BY <2>1 DEF Idle
    <2> QED
      BY <1>1, <2>2 DEF Aging
  <1>13. ASSUME NEW V, NEW T, V \union T = U \union S PROVE Holds(V, T)'
    <2>1. \A d \in U \union S : lock[d] /\ IsBlock(block[d])
      BY <1>1, <1>9 DEF Holds
    <2> QED
      BY <1>1, <1>2, <1>9, <1>13, <2>1 DEF Holds, IsBlock
  <1>14. CASE S \intersect U = {} /\ EndsAt(op.p, U, pos)
    <2>1. LeadsTo(next, next', op.p, c) /\ ListTo(next, op.p, U, pos) /\ U \intersect S = {}
      BY <1>2, <1>4, <1>14 DEF LeadsTo, ListTo
    <2>2. PICK pos2 \in Places : IsList(next', next'[0], U \union S, pos2) /\ MovedBehind(U, S, pos, pos2)
      BY <1>2, <1>4, <1>5, <2>1, Joined
    <2>3. \A d \in Entry : pos2[d] \in Int
      BY DEF Places
    <2>4. /\ \A d \in Entry \ S : pos2[d] = pos[d]
          /\ \A d, e \in S : pos2[d] <= pos2[e] <=> pos[d] <= pos[e]
          /\ \A d \in U, e \in S : pos2[d] < pos2[e]
      BY <2>2 DEF MovedBehind
    <2>5. op.p \in {0} \union U /\ op.p # c
      BY <1>6, <1>7, <1>14 DEF EndsAt
    <2>6. \A s \in Slot : s # op.p => next'[s] = next[s]
      BY <1>2, <1>5
    <2>7. next'[c] = next[c]
      BY <1>5, <2>5, <2>6
    <2>8. {d \in U \union S : pos2[c] < pos2[d]} = S \ {c}
      <3>1. ASSUME NEW d \in U PROVE ~(pos2[c] < pos2[d])
        <4>1. pos2[d] < pos2[c] /\ pos2[d] \in Int /\ pos2[c] \in Int
          BY <1>6, <1>7, <2>3, <2>4
        <4> QED
          BY <4>1
      <3>2. ASSUME NEW d \in S PROVE pos2[c] < pos2[d] <=> d # c
        <4>1. pos2[c] <= pos2[d] /\ pos2[c] \in Int /\ pos2[d] \in Int
          BY <1>6, <1>7, <1>10, <2>3, <2>4
        <4>2. pos2[c] = pos2[d] => c = d
          BY <1>7, <2>2 DEF IsList
        <4> QED
          BY <4>1, <4>2
      <3> QED
        BY <3>1, <3>2
    <2>9. IsList(next', next[c], S \ {c}, pos2)
      <3>1. c \in U \union S
        BY <1>7
      <3>2. IsList(next', next'[c], {d \in U \union S : pos2[c] < pos2[d]}, pos2)
        BY <2>2, <3>1, Suffix
      <3> QED
        BY <2>7, <2>8, <3>2
    <2>10. IsList(next', free, F, pos2)
      <3>1. \A d \in F : next'[d] = next[d] /\ pos2[d] = pos[d]
        <4>1. \A d \in F : d \in Slot /\ d # op.p /\ d \in Entry \ S
          BY <1>4, <1>6, <2>5
        <4> QED
          BY <2>4, <2>6, <4>1
      <3> QED
        BY <1>4, <3>1, SameList
    <2>11. (U \union S) \union (S \ {c}) = U \union S
      OBVIOUS
    <2>12. Shape(U \union S, F, S \ {c}, pos2)'
      <3>1. op'.p \in U \union S /\ S \ {c} = {d \in U \union S : pos2[op'.p] < pos2[d]}
        BY <1>7, <1>8, <2>8
      <3> QED
        BY <1>2, <1>4, <1>8, <1>9, <2>2, <2>9, <2>10, <2>11, <3>1 DEF Shape
    <2>13. Aging(U \union S, S \ {c}, pos2)'
      <3>1. ASSUME NEW d \in U \union S, NEW e \in U \union S, pos2[d] <= pos2[e] PROVE Idle(e) <= Idle(d)
        <4>1. CASE e \in S
          BY <1>6, <1>12, <4>1
        <4>2. CASE e \in U /\ d \in U
          <5>1. pos[d] <= pos[e]
            BY <1>6, <1>14, <2>4, <3>1, <4>2
          <5> QED
            BY <1>1, <4>2, <5>1 DEF Aging
        <4>3. CASE e \in U /\ d \in S
          <5>1. pos2[e] < pos2[d] /\ pos2[e] \in Int /\ pos2[d] \in Int
            BY <1>6, <2>3, <2>4, <4>3
          <5> QED
            BY <3>1, <5>1
        <4> QED
          BY <4>1, <4>2, <4>3
      <3>2. \A d, e \in U \union S : pos2[d] <= pos2[e] => Idle(e)' <= Idle(d)'
        BY <1>6, <1>11, <3>1
      <3>3. \A d \in S \ {c} : Idle(d)' = 0
        BY <1>6, <1>11, <1>12
      <3> QED
        BY <1>9, <3>2, <3>3 DEF Aging, Idle
    <2>14. Picture(U \union S, F, S \ {c}, pos2)'
      BY <1>13, <2>11, <2>12, <2>13 DEF Picture
    <2>15. U \union S \subseteq Entry /\ S \ {c} \subseteq Entry
      BY <1>6
    <2> QED
      BY <2>11, <2>14, <2>15
  <1>15. CASE op.p \in U /\ S = {d \in U : pos[op.p] < pos[d]}
    <2>1. S \subseteq U /\ \A d, e \in U : pos[d] = pos[e] => d = e
      BY <1>4, <1>15 DEF IsList
    <2>2. next[op.p] = c
      <3>1. /\ next[op.p] = NULL => \A d \in U : pos[d] <= pos[op.p]
            /\ next[op.p] # NULL => /\ next[op.p] \in U /\ pos[op.p] < pos[next[op.p]]
                                    /\ \A d \in U : pos[d] <= pos[op.p] \/ pos[next[op.p]] <= pos[d]
        BY <1>4, <1>15 DEF IsList, Linked
      <3>2. c \in U /\ pos[op.p] < pos[c] /\ pos[c] \in Int /\ pos[op.p] \in Int
        BY <1>6, <1>7, <1>15
      <3>3. next[op.p] # NULL /\ pos[next[op.p]] <= pos[c] /\ next[op.p] \in S
        BY <1>15, <3>1, <3>2
      <3>4. pos[c] <= pos[next[op.p]] /\ pos[next[op.p]] \in Int
        BY <1>6, <1>10, <3>3
      <3> QED
        BY <1>7, <1>10, <3>2, <3>3, <3>4
    <2>3. next' = next
      BY <1>2, <1>5, <2>2
    <2>4. S \ {c} = {d \in U : pos[c] < pos[d]}
      <3>1. ASSUME NEW d \in U PROVE d \in S \ {c} <=> pos[c] < pos[d]
        <4>1. pos[c] \in Int /\ pos[d] \in Int /\ pos[op.p] \in Int /\ pos[op.p] < pos[c]
          BY <1>6, <1>7, <1>15
        <4>2. CASE d \in S
          BY <1>7, <1>10, <4>1, <4>2
        <4>3. CASE d \notin S
          BY <1>15, <4>1, <4>3
        <4> QED
          BY <4>2, <4>3
      <3> QED
        BY <2>1, <3>1
    <2>5. U \union S = U /\ U \union (S \ {c}) = U /\ c \in U
      BY <1>7, <2>1
    <2>6. Shape(U, F, S \ {c}, pos)'
      BY <1>2, <1>4, <1>7, <1>8, <1>9, <2>3, <2>4, <2>5 DEF Shape
    <2>7. Aging(U, S \ {c}, pos)'
      <3>1. \A d, e \in U : pos[d] <= pos[e] => Idle(e) <= Idle(d)
        BY <1>1 DEF Aging
      <3>2. \A d, e \in U : pos[d] <= pos[e] => Idle(e)' <= Idle(d)'
        BY <1>6, <1>11, <3>1
      <3>3. \A d \in S \ {c} : Idle(d)' = 0
        BY <1>6, <1>11, <1>12
      <3> QED
        BY <1>9, <3>2, <3>3 DEF Aging, Idle
    <2>8. Picture(U, F, S \ {c}, pos)'
      BY <1>13, <2>5, <2>6, <2>7 DEF Picture
    <2>9. U \in SUBSET Entry /\ S \ {c} \in SUBSET Entry
      BY <1>6
    <2> QED
      BY <2>5, <2>8, <2>9
  <1> QED
    BY <1>4, <1>14, <1>15

\* At its end check_caches puts the touched entries behind the others.
LEMMA RelinkedStep ==
  ASSUME Types, NEW U, NEW F, NEW S, NEW pos \in Places, Picture(U, F, S, pos), Relinked
  PROVE  S = {} /\ Picture(U, F, {}, pos)'
  <1>1. Shape(U, F, S, pos) /\ Holds(U, S) /\ Aging(U, S, pos)
    BY DEF Picture
  <1>2. /\ op.name = "relink" /\ op.c = NULL /\ tail' = op.p /\ op' = None
        /\ UNCHANGED <<next, free, used, block, lock, level, lru>>
    BY DEF Relinked, entryVars
  <1>3. Checking /\ ~Checking' /\ ~Filling /\ ~Filling'
    BY <1>2, NoneIsOp DEF Checking, Filling
  <1>4. op'.name = "none"
    BY <1>2, NoneIsOp
  <1>5. /\ U \union S \union F = Entry /\ (U \union S) \intersect F = {} /\ used = Cardinality(U \union S)
        /\ IsList(next, next[0], U, pos) /\ IsList(next, free, F, pos) /\ IsList(next, op.c, S, pos)
        /\ \/ S \intersect U = {} /\ EndsAt(op.p, U, pos)
           \/ op.p \in U /\ S = {d \in U : pos[op.p] < pos[d]}
    BY <1>1, <1>2, <1>3 DEF Shape
  <1>6. S = {}
    BY <1>2, <1>5 DEF IsList, Starts
  <1>7. EndsAt(op.p, U, pos)
    <2>1. CASE op.p \in U /\ S = {d \in U : pos[op.p] < pos[d]}
      <3>1. U \subseteq Entry /\ \A d \in U : pos[d] \in Int
        BY <1>5 DEF Places
      <3>2. \A d \in U : ~(pos[op.p] < pos[d])
        BY <1>6, <2>1
      <3>3. \A d \in U : pos[d] <= pos[op.p]
        BY <2>1, <3>1, <3>2
      <3>4. op.p # 0
        BY <2>1, <3>1, Zero DEF NULL
      <3> QED
        BY <2>1, <3>3, <3>4 DEF EndsAt
    <2> QED
      BY <1>5, <2>1
  <1>8. Shape(U, F, {}, pos)'
    BY <1>2, <1>3, <1>4, <1>5, <1>6, <1>7 DEF Shape
  <1>9. Holds(U, {})'
    BY <1>1, <1>2, <1>3, <1>4, <1>6 DEF Holds, IsBlock
  <1>10. Aging(U, {}, pos)'
    <2>1. \A c, d \in U : pos[c] <= pos[d] => Idle(d) <= Idle(c)
      BY <1>1 DEF Aging
    <2> QED
      BY <1>2, <1>4, <2>1 DEF Aging, Idle
  <1> QED
    BY <1>6, <1>8, <1>9, <1>10 DEF Picture

-----------------------------------------------------------------------------
(* The invariant is inductive *)

\* The invariant holds at the start.
LEMMA InitInv == Init => Inv
  <1> SUFFICES ASSUME Init PROVE Inv
    OBVIOUS
  <1>1. /\ next = [s \in Slot |-> IF s = 0 \/ s = Size THEN NULL ELSE s + 1]
        /\ tail = 0 /\ free = 1 /\ used = 0 /\ op = None
        /\ block = [c \in Entry |-> {}] /\ lock = [c \in Entry |-> FALSE]
        /\ level = [c \in Entry |-> 0] /\ lru = [c \in Entry |-> 0]
        /\ touched = {} /\ pinned = {}
    BY DEF Init
  <1>2. Size \in Nat \ {0} /\ Slot = 0 .. Size /\ Entry = 1 .. Size /\ NULL = 0
    BY PoolAssumption DEF Slot, Entry, NULL
  <1>3. Types
    <2>1. next \in [Slot -> Slot]
      <3>1. \A s \in Slot : (IF s = 0 \/ s = Size THEN NULL ELSE s + 1) \in Slot
        BY <1>2
      <3> QED
        BY <1>1, <3>1
    <2>2. tail \in Slot /\ free \in Slot
      BY <1>1, <1>2
    <2> QED
      BY <1>1, <2>1, <2>2, NoneIsOp DEF Types
  <1> DEFINE pos == [c \in Entry |-> c]
  <1>4. pos \in Places /\ \A c \in Entry : pos[c] = c
    BY <1>2 DEF Places
  <1> HIDE DEF pos
  <1>5. IsList(next, free, Entry, pos)
    <2>1. Linked(next, Entry, pos)
      <3>1. SUFFICES ASSUME NEW c \in Entry
                     PROVE  IF next[c] = NULL THEN \A d \in Entry : pos[d] <= pos[c]
                            ELSE /\ next[c] \in Entry /\ pos[c] < pos[next[c]]
                                 /\ \A d \in Entry : pos[d] <= pos[c] \/ pos[next[c]] <= pos[d]
        BY DEF Linked
      <3>2. next[c] = IF c = Size THEN NULL ELSE c + 1
        BY <1>1, <1>2
      <3>3. \A d \in Entry : d \in Int /\ d <= Size
        BY <1>2
      <3>4. CASE c = Size
        BY <1>2, <1>4, <3>2, <3>3, <3>4
      <3>5. CASE c # Size
        <4>1. c + 1 \in Entry /\ c + 1 # NULL /\ pos[c + 1] = c + 1 /\ pos[c] = c
          BY <1>2, <1>4, <3>5
        <4>2. \A d \in Entry : d <= c \/ c + 1 <= d
          BY <1>2
        <4> QED
          BY <1>2, <1>4, <3>2, <3>5, <4>1, <4>2
      <3> QED
        BY <3>4, <3>5
    <2>2. Starts(free, Entry, pos)
      <3>1. 1 \in Entry /\ 1 # NULL /\ \A d \in Entry : 1 <= d
        BY <1>2
      <3> QED
        BY <1>1, <1>4, <3>1 DEF Starts
    <2> QED
      BY <1>4, <2>1, <2>2 DEF IsList
  <1>6. Shape({}, Entry, {}, pos)
    <2>1. next[0] = NULL
      BY <1>1, <1>2
    <2>2. IsList(next, next[0], {}, pos)
      BY <2>1 DEF IsList, Linked, Starts
    <2>3. EndsAt(tail, {}, pos)
      BY <1>1 DEF EndsAt
    <2>4. op.name = "none" /\ ~Checking
      BY <1>1, NoneIsOp DEF Checking
    <2>5. used = Cardinality({} \union {})
      BY <1>1, FS_EmptySet
    <2> QED
      BY <1>5, <2>2, <2>3, <2>4, <2>5 DEF Shape
  <1>7. Holds({}, {})
    <2>1. op.name = "none" /\ ~Filling
      BY <1>1, NoneIsOp DEF Filling
    <2>2. \A c \in Entry : level[c] <= lru[c]
      BY <1>1
    <2> QED
      BY <2>1, <2>2 DEF Holds
  <1>8. Aging({}, {}, pos)
    BY DEF Aging
  <1> QED
    BY <1>3, <1>4, <1>6, <1>7, <1>8 DEF Inv, Picture

\* Outside check_caches no entry is aside.
LEMMA NoStack ==
  ASSUME NEW U, NEW F, NEW S, NEW pos, Picture(U, F, S, pos), ~Checking
  PROVE  S = {}
  BY DEF Picture, Shape

\* An allocation frees an entry: the oldest one, or the one that was to be filled.
LEMMA FreeingSteps ==
  ASSUME Types, NEW U, NEW F, NEW pos \in Places, Picture(U, F, {}, pos), Evict \/ Reclaim \/ MapFails
  PROVE  \E c \in U : /\ c \in Entry
                      /\ Evict \/ Reclaim => \A d \in U : Idle(d) <= Idle(c)
                      /\ MapFails => c = op.c
                      /\ \A d \in Entry \ {c} : Idle(d)' = Idle(d)
                      /\ GivenBack(U, F, pos, c)'
  <1>1. Shape(U, F, {}, pos) /\ Holds(U, {})
    BY DEF Picture
  <1>2. ~Checking
    BY DEF Evict, Reclaim, MapFails, Checking
  <1>3. CASE Evict \/ Reclaim
    <2>1. free_cache(0) /\ next[0] # NULL /\ UNCHANGED op /\ op.name \in {"take", "reclaim"}
      BY <1>3 DEF Evict, Reclaim
    <2>2. op.name = "reclaim" => op.c # next[0]
      <3>1. SUFFICES ASSUME op.name = "reclaim", op.c = next[0] PROVE FALSE
        OBVIOUS
      <3>2. lru[op.c] >= Limit
        BY <1>3, <3>1 DEF Evict, Reclaim
      <3>3. lru[op.c] = op.v /\ op.v \in Level
        BY <1>1, <3>1 DEF Holds, Filling
      <3>4. op.v < Limit /\ op.v \in Nat /\ Limit \in Nat
        BY <3>3, LevelsAreNumbers
      <3> QED
        BY <3>2, <3>3, <3>4
    <2>3. ~MapFails
      BY <2>1 DEF MapFails
    <2>4. Frees(0)
      BY <2>1, <2>2 DEF Frees
    <2> QED
      BY <1>2, <2>3, <2>4, FreeStep
  <1>4. CASE MapFails
    <2>1. free_cache(op.p) /\ op.name = "alloc" /\ op' = None
      BY <1>4 DEF MapFails
    <2>2. op.c \in U /\ op.p \in {0} \union U /\ next[op.p] = op.c
      BY <1>1, <2>1 DEF Holds, Filling
    <2>3. op.c # NULL
      BY <1>1, <2>2, Zero DEF Shape
    <2>4. ~Evict /\ ~Reclaim
      BY <2>1 DEF Evict, Reclaim
    <2>5. PICK p \in {0} \union U : p = op.p
      BY <2>2
    <2>6. Frees(p)
      BY <2>1, <2>2, <2>3, <2>5 DEF Frees
    <2>7. PICK c \in U : /\ c = next[p] /\ c \in Entry
                         /\ \A d \in Entry \ {c} : Idle(d)' = Idle(d)
                         /\ GivenBack(U, F, pos, c)'
      BY <1>2, <2>6, FreeStep
    <2> QED
      BY <2>2, <2>4, <2>5, <2>7
  <1> QED
    BY <1>3, <1>4

\* Every step keeps the invariant.
LEMMA NextInv ==
  ASSUME Inv, [Next]_vars
  PROVE  Inv'
  <1>1. Types /\ Types'
    BY TypesNext DEF Inv
  <1>2. PICK U \in SUBSET Entry, F \in SUBSET Entry, S \in SUBSET Entry, pos \in Places : Picture(U, F, S, pos)
    BY DEF Inv
  <1>3. SUFFICES \E U2, F2, S2 \in SUBSET Entry, pos2 \in Places : Picture(U2, F2, S2, pos2)'
    BY <1>1 DEF Inv
  <1>4. ~Checking => S = {}
    BY <1>2, NoStack
  <1>5. CASE UNCHANGED vars
    <2>1. Picture(U, F, S, pos)'
      BY <1>2, <1>5 DEF Picture, Shape, Holds, Aging, Idle, IsBlock, Filling, Checking, vars, listVars, entryVars
    <2> QED
      BY <2>1
  <1>6. CASE \/ \E b \in Block, v \in Level : alloc_cache(b, v)
             \/ NoCache \/ Map \/ Mapped
             \/ \E b \in Block : Read(b) \/ Pin(b) \/ Unpin(b)
    <2>1. ~Checking
      BY <1>6, NoneIsOp DEF alloc_cache, NoCache, Map, Mapped, Read, Pin, Unpin, Checking
    <2>2. Picture(U, F, {}, pos)'
      BY <1>1, <1>2, <1>4, <1>6, <2>1, SteadySteps
    <2> QED
      BY <2>2
  <1>7. CASE Evict \/ Reclaim \/ MapFails
    <2>1. ~Checking
      BY <1>7 DEF Evict, Reclaim, MapFails, Checking
    <2>2. PICK c \in U : c \in Entry /\ GivenBack(U, F, pos, c)'
      BY <1>1, <1>2, <1>4, <1>7, <2>1, FreeingSteps
    <2>3. PICK n \in Int : Picture(U \ {c}, F \union {c}, {}, [pos EXCEPT ![c] = n])'
      BY <2>2 DEF GivenBack
    <2>4. [pos EXCEPT ![c] = n] \in Places
      BY <2>2, Moved
    <2>5. U \ {c} \subseteq Entry /\ F \union {c} \subseteq Entry
      BY <2>2
    <2> QED
      BY <2>3, <2>4, <2>5
  <1>8. CASE Take
    <2>1. ~Checking
      BY <1>8 DEF Take, Checking
    <2>2. PICK c \in F : c \in Entry /\ Taken(U, F, pos, c)'
      BY <1>1, <1>2, <1>4, <1>8, <2>1, TakeStep
    <2>3. PICK n \in Int : Picture(U \union {c}, F \ {c}, {}, [pos EXCEPT ![c] = n])'
      BY <2>2 DEF Taken
    <2>4. [pos EXCEPT ![c] = n] \in Places
      BY <2>2, Moved
    <2>5. U \union {c} \subseteq Entry /\ F \ {c} \subseteq Entry
      BY <2>2
    <2> QED
      BY <2>3, <2>4, <2>5
  <1>9. CASE check_caches
    <2>1. ~Checking
      BY <1>9, NoneIsOp DEF check_caches, Checking
    <2>2. Picture(U, F, {}, pos)'
      BY <1>1, <1>2, <1>4, <1>9, <2>1, CheckBegins
    <2> QED
      BY <2>2
  <1>10. CASE Touched
    <2>1. PICK c \in U : c \in Entry /\ Stacked(U, F, S, pos, c)'
      BY <1>1, <1>2, <1>10, TouchedStep
    <2>2. PICK n \in Int : Picture(U \ {c}, F, S \union {c}, [pos EXCEPT ![c] = n])'
      BY <2>1 DEF Stacked
    <2>3. [pos EXCEPT ![c] = n] \in Places
      BY <2>1, Moved
    <2>4. U \ {c} \subseteq Entry /\ S \union {c} \subseteq Entry
      BY <2>1
    <2> QED
      BY <2>2, <2>3, <2>4
  <1>11. CASE Untouched
    <2>1. Picture(U, F, S, pos)'
      BY <1>1, <1>2, <1>11, UntouchedStep
    <2> QED
      BY <2>1
  <1>12. CASE EndOfList
    <2>1. Picture(U, F, S, pos)'
      BY <1>1, <1>2, <1>12, EndStep
    <2> QED
      BY <2>1
  <1>13. CASE Relink
    <2>1. \E U2, S2 \in SUBSET Entry, pos2 \in Places : Picture(U2, F, S2, pos2)'
      BY <1>1, <1>2, <1>13, RelinkStep
    <2> QED
      BY <2>1
  <1>14. CASE Relinked
    <2>1. Picture(U, F, {}, pos)'
      BY <1>1, <1>2, <1>14, RelinkedStep
    <2> QED
      BY <2>1
  <1> QED
    BY <1>5, <1>6, <1>7, <1>8, <1>9, <1>10, <1>11, <1>12, <1>13, <1>14 DEF Next

-----------------------------------------------------------------------------
(* What the lists of the model are *)

\* The walk from an entry sees what the place numbers say.
LEMMA ListFrom ==
  ASSUME Types, NEW pos \in Places, NEW A, NEW h, IsList(next, h, A, pos), NEW c, NEW B, From(c, B, A, pos)
  PROVE  List(c) = B /\ Ends(c)
  <1>1. next \in [Slot -> Slot]
    BY DEF Types
  <1>2. Walk(c) = WalkOf(next, c)
    BY DEF Walk, WalkOf
  <1>4. WalkOf(next, c)[Size] = NULL /\ {WalkOf(next, c)[n] : n \in 0 .. Size} \ {NULL} = B
    BY <1>1, WalkVisits DEF Visits
  <1> QED
    BY <1>2, <1>4 DEF List, Ends

\* The walk from the head sees the whole list.
LEMMA WholeList ==
  ASSUME Types, NEW pos \in Places, NEW A, NEW h, IsList(next, h, A, pos)
  PROVE  List(h) = A /\ Ends(h)
  <1>1. From(h, A, A, pos)
    BY DEF IsList, Starts, From
  <1> QED
    BY <1>1, ListFrom

\* What the lists are in a picture.
ListsAre(U, F, S, pos) ==
  /\ List(next[0]) = U /\ List(free) = F /\ Stack = S /\ InUse = U \union S
  /\ Ends(next[0]) /\ Ends(free) /\ (Checking => Ends(op.c))
  /\ \A c \in U : List(c) = {d \in U : pos[c] <= pos[d]}
  /\ op.name = "check" => Ahead = {d \in U : op.p = 0 \/ pos[op.p] < pos[d]}
  /\ op.name # "check" => Ahead = {}

\* The lists of the model are those of the picture.
LEMMA PictureLists ==
  \A U, F, S \in SUBSET Entry, pos \in Places :
    Types /\ Picture(U, F, S, pos) => ListsAre(U, F, S, pos)
  <1> SUFFICES ASSUME NEW U \in SUBSET Entry, NEW F \in SUBSET Entry, NEW S \in SUBSET Entry, NEW pos \in Places,
                      Types, Picture(U, F, S, pos)
               PROVE  ListsAre(U, F, S, pos)
    OBVIOUS
  <1>1. /\ IsList(next, next[0], U, pos) /\ IsList(next, free, F, pos)
        /\ IF Checking THEN IsList(next, op.c, S, pos) ELSE S = {}
        /\ op.name = "check" => op.p \in {0} \union U
    BY DEF Picture, Shape
  <1>2. List(next[0]) = U /\ Ends(next[0])
    BY <1>1, WholeList
  <1>3. List(free) = F /\ Ends(free)
    BY <1>1, WholeList
  <1>4. Stack = S /\ (Checking => Ends(op.c))
    <2>1. CASE Checking
      BY <1>1, <2>1, WholeList DEF Stack
    <2>2. CASE ~Checking
      BY <1>1, <2>2 DEF Stack
    <2> QED
      BY <2>1, <2>2
  <1>5. InUse = U \union S
    BY <1>2, <1>4 DEF InUse
  <1>6. \A c \in U : List(c) = {d \in U : pos[c] <= pos[d]}
    <2>1. SUFFICES ASSUME NEW c \in U PROVE List(c) = {d \in U : pos[c] <= pos[d]}
      OBVIOUS
    <2>2. From(c, {d \in U : pos[c] <= pos[d]}, U, pos)
      BY DEF From
    <2> QED
      BY <1>1, <2>2, ListFrom
  <1>7. ASSUME op.name = "check"
        PROVE  Ahead = {d \in U : op.p = 0 \/ pos[op.p] < pos[d]}
    <2>0. U \subseteq Entry /\ 0 \notin U /\ \A d \in U : pos[d] \in Int
      BY Zero DEF Places, NULL
    <2>1. Ahead = List(next[op.p])
      BY <1>7 DEF Ahead
    <2>2. CASE next[op.p] = NULL
      <3>1. From(NULL, {}, U, pos)
        BY DEF From
      <3>2. List(NULL) = {}
        BY <1>1, <3>1, ListFrom
      <3>3. \A d \in U : op.p # 0 /\ ~(pos[op.p] < pos[d])
        <4>1. SUFFICES ASSUME NEW d \in U PROVE op.p # 0 /\ ~(pos[op.p] < pos[d])
          OBVIOUS
        <4>2. op.p # 0
          BY <1>1, <2>2 DEF IsList, Starts
        <4>3. op.p \in U /\ pos[d] <= pos[op.p]
          BY <1>1, <1>7, <2>2, <4>2 DEF IsList, Linked
        <4> QED
          BY <2>0, <4>2, <4>3
      <3> QED
        BY <2>1, <2>2, <3>2, <3>3
    <2>3. CASE next[op.p] # NULL
      <3>1. PICK c : c = next[op.p]
        OBVIOUS
      <3>2. PointsAt(next, op.p, c)
        BY <2>3, <3>1 DEF PointsAt
      <3>3. c \in U /\ Follows(c, op.p, U, pos)
        BY <1>1, <1>7, <3>2, NextOne
      <3>4. Ahead = {d \in U : pos[c] <= pos[d]}
        BY <1>6, <2>1, <3>1, <3>3
      <3>5. ASSUME NEW d \in U PROVE pos[c] <= pos[d] <=> op.p = 0 \/ pos[op.p] < pos[d]
        <4>1. CASE op.p = 0
          BY <3>3, <4>1 DEF Follows
        <4>2. CASE op.p # 0
          <5>1. op.p \in U /\ pos[op.p] < pos[c] /\ (pos[d] <= pos[op.p] \/ pos[c] <= pos[d])
            BY <1>1, <1>7, <3>3, <4>2 DEF Follows
          <5>2. pos[op.p] \in Int /\ pos[c] \in Int /\ pos[d] \in Int
            BY <2>0, <3>3, <5>1
          <5> QED
            BY <4>2, <5>1, <5>2
        <4> QED
          BY <4>1, <4>2
      <3> QED
        BY <3>4, <3>5
    <2> QED
      BY <2>2, <2>3
  <1>8. op.name # "check" => Ahead = {}
    BY DEF Ahead
  <1> QED
    BY <1>2, <1>3, <1>4, <1>5, <1>6, <1>7, <1>8 DEF ListsAre

\* They are so in the next state as well.
LEMMA PictureListsNext ==
  (\A U, F, S \in SUBSET Entry, pos \in Places :
     Types /\ Picture(U, F, S, pos) => ListsAre(U, F, S, pos))'
  BY PictureLists, PTL

\* The invariant of the runs follows.
LEMMA InvImpliesPoolInv == Inv => PoolInv
  <1> SUFFICES ASSUME Inv PROVE PoolInv
    OBVIOUS
  <1>1. PICK U \in SUBSET Entry, F \in SUBSET Entry, S \in SUBSET Entry, pos \in Places : Picture(U, F, S, pos)
    BY DEF Inv
  <1>2. Types
    BY DEF Inv
  <1>3. ListsAre(U, F, S, pos)
    BY <1>1, <1>2, PictureLists
  <1>4. Shape(U, F, S, pos) /\ Holds(U, S)
    BY <1>1 DEF Picture
  <1>5. /\ U \union S \union F = Entry /\ (U \union S) \intersect F = {} /\ used = Cardinality(U \union S)
        /\ IsList(next, next[0], U, pos)
        /\ op.name = "check" => S \intersect U = {}
        /\ ~Checking => S = {} /\ EndsAt(tail, U, pos)
    BY <1>4 DEF Shape
  <1>6. TypeOK
    <2>1. IsFiniteSet(U \union S) /\ Cardinality(U \union S) <= Size
      <3>1. U \union S \subseteq Entry
        OBVIOUS
      <3> QED
        BY <3>1, EntryIsFinite, FS_Subset
    <2>2. Cardinality(U \union S) \in Nat
      BY <2>1, FS_CardinalityType
    <2>3. used \in 0 .. Size
      BY <1>5, <2>1, <2>2, Zero
    <2> QED
      BY <1>2, <2>3 DEF TypeOK, Types
  <1>7. ListsPartition
    <2>1. ~Checking => next[tail] = NULL /\ tail \in {0} \union List(next[0])
      <3>1. SUFFICES ASSUME ~Checking PROVE next[tail] = NULL /\ tail \in {0} \union U
        BY <1>3 DEF ListsAre
      <3>2. EndsAt(tail, U, pos)
        BY <1>5, <3>1
      <3>3. CASE tail = 0
        BY <1>5, <3>2, <3>3 DEF EndsAt, IsList, Starts
      <3>4. CASE tail # 0
        <4>1. tail \in U /\ \A d \in U : pos[d] <= pos[tail]
          BY <3>2, <3>4 DEF EndsAt
        <4>2. next[tail] # NULL => next[tail] \in U /\ pos[tail] < pos[next[tail]]
          BY <1>5, <4>1 DEF IsList, Linked
        <4>3. \A d \in U : pos[d] \in Int
          BY DEF Places
        <4> QED
          BY <4>1, <4>2, <4>3
      <3> QED
        BY <3>3, <3>4
    <2>2. List(next[0]) = U /\ List(free) = F /\ Stack = S /\ InUse = U \union S
          /\ Ends(next[0]) /\ Ends(free) /\ (Checking => Ends(op.c))
      BY <1>3 DEF ListsAre
    <2> QED
      BY <1>5, <2>1, <2>2 DEF ListsPartition
  <1>8. CachedBlocksStay
    <2>1. SUFFICES ASSUME op = None, NEW c \in InUse
                   PROVE  lock[c] /\ block[c] # {} /\ block[c] \subseteq InMemory(lock, pinned)
      BY DEF CachedBlocksStay
    <2>2. c \in U \union S /\ c \in Entry
      BY <1>3, <1>5, <2>1 DEF ListsAre
    <2>3. ~Filling
      BY <2>1, NoneIsOp DEF Filling
    <2>4. lock[c] /\ IsBlock(block[c])
      BY <1>4, <2>2, <2>3 DEF Holds
    <2>5. PICK b \in Block : block[c] = {b}
      BY <2>4 DEF IsBlock
    <2> QED
      BY <2>2, <2>4, <2>5 DEF InMemory
  <1> QED
    BY <1>6, <1>7, <1>8 DEF PoolInv

\* The pool as a whole, whatever is allocated, evicted, reclaimed, given back and checked:
\* no entry is lost or is in two lists, no list has a cycle, the counter and the tail agree
\* with the list, and the block of every entry in use is kept in memory by its lock.
THEOREM PoolIsWhole == Spec => []PoolInv
  <1>1. Spec => []Inv
    BY InitInv, NextInv, PTL DEF Spec
  <1> QED
    BY <1>1, InvImpliesPoolInv, PTL

-----------------------------------------------------------------------------
(* What a reclaim leaves *)

\* The list is sorted: when the loop stops at its head, every other entry is as young.
THEOREM ReclaimIsThorough == Spec => ReclaimLeavesNoIdle
  <1>1. ASSUME Inv, Mapped, NEW c \in InUse
        PROVE  Idle(c) < Limit
    <2>1. PICK U \in SUBSET Entry, F \in SUBSET Entry, S \in SUBSET Entry, pos \in Places : Picture(U, F, S, pos)
      BY <1>1 DEF Inv
    <2>2. Types
      BY <1>1 DEF Inv
    <2>3. op.name = "reclaim" /\ (next[0] = NULL \/ lru[next[0]] < Limit)
      BY <1>1 DEF Mapped
    <2>4. ListsAre(U, F, S, pos)
      BY <2>1, <2>2, PictureLists
    <2>5. S = {}
      BY <2>1, <2>3, NoStack DEF Checking
    <2>6. c \in U
      BY <1>1, <2>4, <2>5 DEF ListsAre
    <2>7. IsList(next, next[0], U, pos) /\ Aging(U, S, pos)
      BY <2>1 DEF Picture, Shape
    <2>8. next[0] \in U /\ pos[next[0]] <= pos[c] /\ lru[next[0]] < Limit
      BY <2>3, <2>6, <2>7 DEF IsList, Starts
    <2>9. Idle(c) <= Idle(next[0])
      BY <2>6, <2>7, <2>8 DEF Aging
    <2>10. /\ lru[next[0]] \in Nat /\ level[next[0]] \in Nat /\ Limit \in Nat
           /\ lru[c] \in Nat /\ level[c] \in Nat
      BY <2>2, <2>6, <2>8, LevelsAreNumbers DEF Types
    <2> QED
      BY <2>8, <2>9, <2>10 DEF Idle
  <1>2. Inv => (Mapped => \A c \in InUse : Idle(c) < Limit)
    BY <1>1
  <1>3. Inv /\ [Next]_vars => [Mapped => \A c \in InUse : Idle(c) < Limit]_vars
    BY <1>2
  <1> QED
    BY <1>3, InitInv, NextInv, PTL DEF Spec, ReclaimLeavesNoIdle

-----------------------------------------------------------------------------
(* The pool implements an LRU cache *)

\* What LruCache sees of the pool.
Idleness == [c \in InUse |-> Aged(c)]

\* The initial states are initial states of LruCache.
LEMMA InitIdleness == Init => Lru!LruInit
  <1> SUFFICES ASSUME Init PROVE Lru!LruInit
    OBVIOUS
  <1>1. PICK U \in SUBSET Entry, F \in SUBSET Entry, S \in SUBSET Entry, pos \in Places : Picture(U, F, S, pos)
    BY InitInv DEF Inv
  <1>2. ListsAre(U, F, S, pos)
    BY <1>1, InitInv, PictureLists DEF Inv
  <1>3. op.name = "none" /\ next[0] = NULL /\ ~Checking
    BY Zero, NoneIsOp DEF Init, Checking, NULL
  <1>4. U = {} /\ S = {}
    BY <1>1, <1>3 DEF Picture, Shape, IsList, Starts
  <1>5. InUse = {}
    BY <1>2, <1>4 DEF ListsAre
  <1> QED
    BY <1>5 DEF Lru!LruInit


\* What LruCache sees of a picture.
Shown(U, S, pos) ==
  /\ InUse = U \union S
  /\ op.name # "check" => Ahead = {} /\ \A c \in Entry : Aged(c) = Idle(c)
  /\ op.name = "check" => Ahead = {d \in U : op.p = 0 \/ pos[op.p] < pos[d]}
  /\ \A c \in U : List(c) = {d \in U : pos[c] <= pos[d]}

\* What LruCache sees of a state is what the picture says.
LEMMA SeenNow ==
  ASSUME Inv, NEW U \in SUBSET Entry, NEW F \in SUBSET Entry, NEW S \in SUBSET Entry, NEW pos \in Places,
         Picture(U, F, S, pos)
  PROVE  Shown(U, S, pos)
  <1>1. ListsAre(U, F, S, pos)
    BY PictureLists DEF Inv
  <1> QED
    BY <1>1 DEF ListsAre, Aged, Shown

\* The same of the next state.
LEMMA SeenNext ==
  ASSUME Types', NEW U \in SUBSET Entry, NEW F \in SUBSET Entry, NEW S \in SUBSET Entry, NEW pos \in Places,
         Picture(U, F, S, pos)'
  PROVE  Shown(U, S, pos)'
  <1>1. ListsAre(U, F, S, pos)'
    BY PictureListsNext
  <1> QED
    BY <1>1 DEF ListsAre, Aged, Shown

\* Nothing that LruCache sees changes.
LEMMA Unseen ==
  ASSUME NEW V, InUse = V, InUse' = V, \A c \in V : Aged(c)' = Aged(c)
  PROVE  [Lru!LruNext]_Idleness
  <1>1. Idleness' = Idleness
    BY DEF Idleness
  <1> QED
    BY <1>1

\* The steps of an allocation and of the users: Add, Drop and Undo, or nothing.
LEMMA PoolSteps ==
  ASSUME Inv, Inv', ~Checking, ~check_caches, Next
  PROVE  [Lru!LruNext]_Idleness
  <1>1. PICK U \in SUBSET Entry, F \in SUBSET Entry, S \in SUBSET Entry, pos \in Places : Picture(U, F, S, pos)
    BY DEF Inv
  <1>2. Types /\ Types' /\ S = {}
    BY <1>1, NoStack DEF Inv
  <1>3. Picture(U, F, {}, pos) /\ op.name # "check"
    BY <1>1, <1>2 DEF Checking
  <1>4. InUse = U /\ \A c \in Entry : Aged(c) = Idle(c)
    <2>1. Shown(U, {}, pos)
      BY <1>1, <1>2, <1>3, SeenNow
    <2> QED
      BY <1>1, <1>2, <1>3, <2>1 DEF Shown
  <1>5. Holds(U, {}) /\ U \subseteq Entry
    BY <1>3 DEF Picture
  <1>6. CASE \/ \E b \in Block, v \in Level : alloc_cache(b, v)
             \/ NoCache \/ Map \/ Mapped
             \/ \E b \in Block : Read(b) \/ Pin(b) \/ Unpin(b)
    <2>1. Picture(U, F, {}, pos)'
      BY <1>2, <1>3, <1>6, SteadySteps
    <2>2. op'.name # "check"
      <3>1. CASE \E b \in Block, v \in Level : alloc_cache(b, v)
        <4>1. PICK b \in Block, v \in Level : alloc_cache(b, v)
          BY <3>1
        <4> QED
          BY <4>1 DEF alloc_cache, None
      <3>2. CASE NoCache \/ Mapped
        BY <3>2, NoneIsOp DEF NoCache, Mapped
      <3>3. CASE Map
        BY <1>2, <3>3 DEF Map, Types, Op
      <3>4. CASE \E b \in Block : Read(b) \/ Pin(b) \/ Unpin(b)
        BY <1>3, <3>4 DEF Read, Pin, Unpin
      <3> QED
        BY <1>6, <3>1, <3>2, <3>3, <3>4
    <2>3. {} \in SUBSET Entry
      OBVIOUS
    <2>4. InUse' = U /\ \A c \in Entry : Aged(c)' = Idle(c)'
      <3>1. Shown(U, {}, pos)'
        BY <1>2, <2>1, <2>2, <2>3, SeenNext
      <3> QED
        BY <1>2, <2>1, <2>2, <2>3, <3>1 DEF Shown
    <2>5. \A c \in Entry : Idle(c)' = Idle(c)
      BY <1>6 DEF alloc_cache, NoCache, Map, Mapped, Read, Pin, Unpin, entryVars, Idle
    <2>6. \A c \in U : Aged(c)' = Aged(c)
      BY <1>4, <1>5, <2>4, <2>5
    <2> QED
      BY <1>4, <2>4, <2>6, Unseen
  <1>7. CASE Evict \/ Reclaim \/ MapFails
    <2>1. PICK c \in U : /\ c \in Entry
                         /\ Evict \/ Reclaim => \A d \in U : Idle(d) <= Idle(c)
                         /\ MapFails => c = op.c
                         /\ \A d \in Entry \ {c} : Idle(d)' = Idle(d)
                         /\ GivenBack(U, F, pos, c)'
      BY <1>2, <1>3, <1>7, FreeingSteps
    <2>2. PICK n \in Int : Picture(U \ {c}, F \union {c}, {}, [pos EXCEPT ![c] = n])'
      BY <2>1 DEF GivenBack
    <2>3. op'.name # "check"
      BY <1>3, <1>7, NoneIsOp DEF Evict, Reclaim, MapFails
    <2>4. U \ {c} \in SUBSET Entry /\ F \union {c} \in SUBSET Entry /\ {} \in SUBSET Entry
          /\ [pos EXCEPT ![c] = n] \in Places
      BY <2>1, Moved
    <2>5. InUse' = U \ {c} /\ \A d \in Entry : Aged(d)' = Idle(d)'
      <3>1. Shown(U \ {c}, {}, [pos EXCEPT ![c] = n])'
        BY <1>2, <2>2, <2>3, <2>4, SeenNext
      <3> QED
        BY <1>2, <2>2, <2>3, <2>4, <3>1 DEF Shown
    <2>6. Idleness' = [d \in U \ {c} |-> Idleness[d]]
      <3>1. \A d \in U \ {c} : Aged(d)' = Aged(d)
        BY <1>4, <1>5, <2>1, <2>5
      <3>2. \A d \in U \ {c} : Idleness[d] = Aged(d)
        BY <1>4 DEF Idleness
      <3>3. Idleness' = [d \in U \ {c} |-> Aged(d)']
        BY <2>5 DEF Idleness
      <3> QED
        BY <3>1, <3>2, <3>3
    <2>7. CASE Evict \/ Reclaim
      <3>1. \A d \in InUse : Idleness[d] <= Idleness[c]
        BY <1>4, <1>5, <2>1, <2>7 DEF Idleness
      <3>2. DOMAIN Idleness = InUse
        BY DEF Idleness
      <3>3. Lru!Drop(c)
        BY <1>4, <2>1, <2>6, <3>1, <3>2 DEF Lru!Drop, Lru!InUse, Idleness
      <3> QED
        BY <2>1, <3>3 DEF Lru!LruNext
    <2>8. CASE MapFails
      <3>1. op.name = "alloc" /\ c = op.c
        BY <2>1, <2>8 DEF MapFails
      <3>2. level[c] = op.v /\ lru[c] = op.v
        BY <1>5, <3>1 DEF Holds, Filling
      <3>3. Idle(c) = 0
        <4>1. op.v \in Nat
          BY <1>2, OpFields, LevelsAreNumbers DEF Types
        <4> QED
          BY <3>2, <4>1 DEF Idle
      <3>4. Lru!Undo(c)
        BY <1>4, <2>1, <2>6, <3>3 DEF Lru!Undo, Lru!InUse, Idleness
      <3> QED
        BY <2>1, <3>4 DEF Lru!LruNext
    <2> QED
      BY <1>7, <2>7, <2>8
  <1>8. CASE Take
    <2>1. PICK c \in F : /\ c \in Entry /\ c \notin U
                         /\ Idle(c)' = 0 /\ \A d \in Entry \ {c} : Idle(d)' = Idle(d)
                         /\ Taken(U, F, pos, c)'
      BY <1>2, <1>3, <1>8, TakeStep
    <2>2. PICK n \in Int : Picture(U \union {c}, F \ {c}, {}, [pos EXCEPT ![c] = n])'
      BY <2>1 DEF Taken
    <2>3. op'.name # "check"
      BY <1>2, <1>8 DEF Take, Types, Op
    <2>4. U \union {c} \in SUBSET Entry /\ F \ {c} \in SUBSET Entry /\ {} \in SUBSET Entry
          /\ [pos EXCEPT ![c] = n] \in Places
      BY <2>1, Moved
    <2>5. InUse' = U \union {c} /\ \A d \in Entry : Aged(d)' = Idle(d)'
      <3>1. Shown(U \union {c}, {}, [pos EXCEPT ![c] = n])'
        BY <1>2, <2>2, <2>3, <2>4, SeenNext
      <3> QED
        BY <1>2, <2>2, <2>3, <2>4, <3>1 DEF Shown
    <2>6. Idleness' = [d \in U \union {c} |-> IF d = c THEN 0 ELSE Idleness[d]]
      <3>1. \A d \in U \union {c} : Aged(d)' = IF d = c THEN 0 ELSE Idleness[d]
        BY <1>4, <1>5, <2>1, <2>5 DEF Idleness
      <3>2. Idleness' = [d \in U \union {c} |-> Aged(d)']
        BY <2>5 DEF Idleness
      <3> QED
        BY <3>1, <3>2
    <2>7. Lru!Add(c)
      BY <1>4, <2>1, <2>6 DEF Lru!Add, Lru!InUse, Idleness
    <2> QED
      BY <2>1, <2>7 DEF Lru!LruNext
  <1>9. ~Touched /\ ~Untouched /\ ~EndOfList /\ ~Relink /\ ~Relinked
    BY DEF Checking, Touched, Untouched, EndOfList, Relink, Relinked
  <1> QED
    BY <1>6, <1>7, <1>8, <1>9 DEF Next

\* The check as a whole is the step of LruCache that it takes when it begins.
LEMMA CheckIsTick ==
  ASSUME Inv, Inv', check_caches
  PROVE  [Lru!LruNext]_Idleness
  <1>1. PICK U \in SUBSET Entry, F \in SUBSET Entry, S \in SUBSET Entry, pos \in Places : Picture(U, F, S, pos)
    BY DEF Inv
  <1>2. ~Checking /\ op.name # "check" /\ op'.name = "check" /\ op'.p = 0
    BY NoneIsOp DEF check_caches, Checking, None
  <1>3. Types /\ Types' /\ S = {}
    BY <1>1, <1>2, NoStack DEF Inv
  <1>4. InUse = U /\ \A c \in Entry : Aged(c) = Idle(c)
    <2>1. Shown(U, {}, pos)
      BY <1>1, <1>2, <1>3, SeenNow
    <2> QED
      BY <1>1, <1>2, <1>3, <2>1 DEF Shown
  <1>5. Picture(U, F, {}, pos)'
    BY <1>1, <1>3, CheckBegins
  <1>6. {} \in SUBSET Entry
    OBVIOUS
  <1>7. InUse' = U /\ Ahead' = {d \in U : op'.p = 0 \/ pos[op'.p] < pos[d]}
    <2>1. Shown(U, {}, pos)'
      BY <1>2, <1>3, <1>5, <1>6, SeenNext
    <2> QED
      BY <1>2, <1>3, <1>5, <1>6, <2>1 DEF Shown
  <1>8. Ahead' = U
    BY <1>2, <1>7
  <1>9. \A c \in Entry : Idle(c)' = Idle(c)
    BY DEF check_caches, entryVars, Idle
  <1>10. PICK T \in SUBSET U : T = {c \in U : WillBeTouched(c)'}
    OBVIOUS
  <1>11. \A c \in U : Aged(c)' = IF c \in T THEN 0 ELSE Idleness[c] + 1
    <2>1. SUFFICES ASSUME NEW c \in U PROVE Aged(c)' = IF c \in T THEN 0 ELSE Idleness[c] + 1
      OBVIOUS
    <2>2. Aged(c)' = IF WillBeTouched(c)' THEN 0 ELSE Idle(c)' + 1
      BY <1>8 DEF Aged
    <2>3. Idleness[c] = Idle(c)' /\ (c \in T <=> WillBeTouched(c)')
      BY <1>4, <1>9, <1>10 DEF Idleness
    <2> QED
      BY <2>2, <2>3
  <1>12. Idleness' = [c \in U |-> IF c \in T THEN 0 ELSE Idleness[c] + 1]
    <2>1. Idleness' = [c \in U |-> Aged(c)']
      BY <1>7 DEF Idleness
    <2> QED
      BY <1>11, <2>1
  <1>13. Lru!Tick(T)
    BY <1>4, <1>12 DEF Lru!Tick, Lru!InUse, Idleness
  <1> QED
    BY <1>4, <1>10, <1>13 DEF Lru!LruNext, Lru!InUse, Idleness

\* An entry that was read goes to the stack when the check comes to it, as LruCache has
\* seen when the check began; for the entries behind it nothing is decided otherwise.
LEMMA TouchedUnseen ==
  ASSUME Inv, Inv', Touched
  PROVE  [Lru!LruNext]_Idleness
  <1>1. PICK U \in SUBSET Entry, F \in SUBSET Entry, S \in SUBSET Entry, pos \in Places : Picture(U, F, S, pos)
    BY DEF Inv
  <1>2. Types /\ Types' /\ op.name = "check" /\ op'.name = "check" /\ op'.p = op.p /\ ~Filling
    BY DEF Inv, Touched, Types, Op, Filling
  <1>3. PICK c \in U : /\ c = next[op.p] /\ c \in Entry /\ c \notin S /\ Follows(c, op.p, U, pos)
                       /\ Idle(c)' = 0 /\ \A d \in Entry \ {c} : Idle(d)' = Idle(d)
                       /\ Stacked(U, F, S, pos, c)'
    BY <1>1, <1>2, TouchedStep
  <1>4. PICK n \in Int : Picture(U \ {c}, F, S \union {c}, [pos EXCEPT ![c] = n])'
    BY <1>3 DEF Stacked
  <1>5. PICK pos2 \in Places : pos2 = [pos EXCEPT ![c] = n]
    BY <1>3, Moved
  <1>6. \A d \in Entry \ {c} : pos2[d] = pos[d]
    BY <1>3, <1>5, Moved
  <1>7. U \ {c} \in SUBSET Entry /\ S \union {c} \in SUBSET Entry
    BY <1>3
  <1>8. Shown(U, S, pos) /\ Shown(U \ {c}, S \union {c}, pos2)'
    <2>1. Shown(U, S, pos)
      BY <1>1, SeenNow
    <2>2. Picture(U \ {c}, F, S \union {c}, pos2)'
      BY <1>4, <1>5
    <2> QED
      BY <1>2, <1>7, <2>1, <2>2, SeenNext
  <1>9. InUse = U \union S /\ InUse' = U \union S
    BY <1>3, <1>8 DEF Shown
  <1>10. op.p \in {0} \union U
    BY <1>1, <1>2 DEF Picture, Shape
  <1>11. /\ \A d \in U : pos[d] \in Int
         /\ \A d, e \in U : pos[d] = pos[e] => d = e
         /\ \A d \in U \union S : IsBlock(block[d])
    BY <1>1, <1>2 DEF Picture, Shape, Holds, IsList, Places
  <1>12. Ahead = {d \in U : pos[c] <= pos[d]}
    <2>1. Ahead = {d \in U : op.p = 0 \/ pos[op.p] < pos[d]}
      BY <1>2, <1>8 DEF Shown
    <2>2. ASSUME NEW d \in U PROVE (op.p = 0 \/ pos[op.p] < pos[d]) <=> pos[c] <= pos[d]
      <3>1. CASE op.p = 0
        BY <1>3, <3>1 DEF Follows
      <3>2. CASE op.p # 0
        <4>1. op.p \in U /\ pos[op.p] < pos[c] /\ (pos[d] <= pos[op.p] \/ pos[c] <= pos[d])
          BY <1>3, <1>10, <3>2 DEF Follows
        <4>2. pos[op.p] \in Int /\ pos[c] \in Int /\ pos[d] \in Int
          BY <1>11, <4>1
        <4> QED
          BY <3>2, <4>1, <4>2
      <3> QED
        BY <3>1, <3>2
    <2> QED
      BY <2>1, <2>2
  <1>13. Ahead' = Ahead \ {c}
    <2>1. Ahead' = {d \in U \ {c} : op'.p = 0 \/ pos2[op'.p] < pos2[d]}
      BY <1>2, <1>8 DEF Shown
    <2>2. Ahead = {d \in U : op.p = 0 \/ pos[op.p] < pos[d]}
      BY <1>2, <1>8 DEF Shown
    <2>3. op.p # 0 => pos2[op.p] = pos[op.p]
      <3>1. SUFFICES ASSUME op.p # 0 PROVE pos2[op.p] = pos[op.p]
        OBVIOUS
      <3>2. op.p \in U /\ pos[op.p] < pos[c]
        BY <1>3, <1>10, <3>1 DEF Follows
      <3>3. op.p \in Entry \ {c}
        BY <1>11, <3>2
      <3> QED
        BY <1>6, <3>3
    <2>4. ASSUME NEW d \in U \ {c} PROVE (op'.p = 0 \/ pos2[op'.p] < pos2[d]) <=> (op.p = 0 \/ pos[op.p] < pos[d])
      BY <1>2, <1>6, <2>3
    <2> QED
      BY <2>1, <2>2, <2>4
  <1>14. c \in Ahead
    BY <1>11, <1>12
  <1>15. c # NULL /\ block[c] \subseteq touched /\ touched' = touched \ block[c] /\ block' = block
    BY <1>3 DEF Touched
  <1>16. Aged(c)' = Aged(c)
    <2>1. WillBeTouched(c)
      <3>1. List(c) = {d \in U : pos[c] <= pos[d]}
        BY <1>8 DEF Shown
      <3>2. \A d \in Ahead : d \in List(c)
        BY <1>12, <3>1
      <3> QED
        BY <1>15, <3>2 DEF WillBeTouched
    <2>2. Aged(c) = 0
      BY <1>14, <2>1 DEF Aged
    <2>3. c \notin Ahead'
      BY <1>13
    <2>4. Aged(c)' = Idle(c)'
      BY <2>3 DEF Aged
    <2> QED
      BY <1>3, <2>2, <2>4
  <1>17. ASSUME NEW d \in U \union S, d # c
         PROVE  Aged(d)' = Aged(d)
    <2>1. d \in Entry /\ Idle(d)' = Idle(d)
      BY <1>3, <1>17
    <2>2. CASE d \notin Ahead
      <3>1. d \notin Ahead'
        BY <1>13, <2>2
      <3>2. Aged(d) = Idle(d) /\ Aged(d)' = Idle(d)'
        BY <2>2, <3>1 DEF Aged
      <3> QED
        BY <2>1, <3>2
    <2>3. CASE d \in Ahead
      <3>1. d \in Ahead' /\ d \in U /\ pos[c] < pos[d]
        <4>1. d \in U /\ pos[c] <= pos[d] /\ pos[c] # pos[d]
          BY <1>11, <1>12, <1>17, <2>3
        <4>2. pos[c] \in Int /\ pos[d] \in Int
          BY <1>11, <4>1
        <4> QED
          BY <1>13, <1>17, <2>3, <4>1, <4>2
      <3>2. List(d) = {e \in U : pos[d] <= pos[e]} /\ List(d)' = {e \in U \ {c} : pos2[d] <= pos2[e]}
        BY <1>8, <1>17, <3>1 DEF Shown
      <3>3. c \notin List(d)
        <4>1. pos[c] \in Int /\ pos[d] \in Int
          BY <1>11, <3>1
        <4> QED
          BY <3>1, <3>2, <4>1
      <3>4. List(d)' = List(d)
        <4>1. \A e \in U \ {c} : pos2[d] <= pos2[e] <=> pos[d] <= pos[e]
          BY <1>6, <1>17, <2>1
        <4> QED
          BY <3>2, <3>3, <4>1
      <3>5. WillBeTouched(d)' <=> WillBeTouched(d)
        <4>1. WillBeTouched(d) <=> /\ block[d] \subseteq touched
                                   /\ \A e \in Ahead : block[e] = block[d] => e \in List(d)
          BY DEF WillBeTouched
        <4>2. WillBeTouched(d)' <=> /\ block[d] \subseteq touched \ block[c]
                                    /\ \A e \in Ahead \ {c} : block[e] = block[d] => e \in List(d)
          BY <1>13, <1>15, <3>4 DEF WillBeTouched
        <4>3. PICK b \in Block, x \in Block : block[c] = {b} /\ block[d] = {x}
          BY <1>11, <1>17 DEF IsBlock
        <4>4. CASE b = x
          <5>1. ~WillBeTouched(d)
            BY <1>14, <3>3, <4>1, <4>3, <4>4
          <5>2. ~WillBeTouched(d)'
            BY <4>2, <4>3, <4>4
          <5> QED
            BY <5>1, <5>2
        <4>5. CASE b # x
          <5>1. block[c] # block[d] /\ (block[d] \subseteq touched \ block[c] <=> block[d] \subseteq touched)
            BY <4>3, <4>5
          <5> QED
            BY <4>1, <4>2, <5>1
        <4> QED
          BY <4>4, <4>5
      <3>6. Aged(d) = IF WillBeTouched(d) THEN 0 ELSE Idle(d) + 1
        BY <2>3 DEF Aged
      <3>7. Aged(d)' = IF WillBeTouched(d)' THEN 0 ELSE Idle(d)' + 1
        BY <3>1 DEF Aged
      <3> QED
        BY <2>1, <3>5, <3>6, <3>7
    <2> QED
      BY <2>2, <2>3
  <1> QED
    BY <1>9, <1>16, <1>17, Unseen

\* An entry that was not read becomes older.
LEMMA UntouchedUnseen ==
  ASSUME Inv, Inv', Untouched
  PROVE  [Lru!LruNext]_Idleness
  <1>1. PICK U \in SUBSET Entry, F \in SUBSET Entry, S \in SUBSET Entry, pos \in Places : Picture(U, F, S, pos)
    BY DEF Inv
  <1>2. Types /\ Types' /\ op.name = "check" /\ op'.name = "check"
    BY DEF Inv, Untouched, Types, Op
  <1>3. PICK c \in U : /\ c = next[op.p] /\ c \in Entry /\ Follows(c, op.p, U, pos) /\ op'.p = c
                       /\ Idle(c)' = Idle(c) + 1 /\ \A d \in Entry \ {c} : Idle(d)' = Idle(d)
                       /\ Picture(U, F, S, pos)'
    BY <1>1, <1>2, UntouchedStep
  <1>4. Shown(U, S, pos) /\ Shown(U, S, pos)'
    BY <1>1, <1>2, <1>3, SeenNow, SeenNext
  <1>5. InUse = U \union S /\ InUse' = U \union S
    BY <1>4 DEF Shown
  <1>6. op.p \in {0} \union U
    BY <1>1, <1>2 DEF Picture, Shape
  <1>7. (\A d \in U : pos[d] \in Int) /\ (\A d, e \in U : pos[d] = pos[e] => d = e) /\ 0 \notin U
    BY <1>1, Zero DEF Picture, Shape, IsList, Places, NULL
  <1>8. Ahead = {d \in U : op.p = 0 \/ pos[op.p] < pos[d]} /\ Ahead' = {d \in U : pos[c] < pos[d]}
    <2>1. Ahead' = {d \in U : op'.p = 0 \/ pos[op'.p] < pos[d]}
      BY <1>2, <1>4 DEF Shown
    <2> QED
      BY <1>2, <1>3, <1>4, <1>7, <2>1 DEF Shown
  <1>9. Ahead' = Ahead \ {c} /\ c \in Ahead
    <2>1. ASSUME NEW d \in U PROVE (op.p = 0 \/ pos[op.p] < pos[d]) <=> pos[c] < pos[d] \/ d = c
      <3>1. CASE op.p = 0
        <4>1. pos[c] <= pos[d] /\ pos[c] \in Int /\ pos[d] \in Int /\ (pos[c] = pos[d] => d = c)
          BY <1>3, <1>7, <3>1 DEF Follows
        <4> QED
          BY <3>1, <4>1
      <3>2. CASE op.p # 0
        <4>1. op.p \in U /\ pos[op.p] < pos[c] /\ (pos[d] <= pos[op.p] \/ pos[c] <= pos[d])
          BY <1>3, <1>6, <3>2 DEF Follows
        <4>2. pos[op.p] \in Int /\ pos[c] \in Int /\ pos[d] \in Int /\ (pos[c] = pos[d] => d = c)
          BY <1>7, <4>1
        <4> QED
          BY <3>2, <4>1, <4>2
      <3> QED
        BY <3>1, <3>2
    <2>2. ~(pos[c] < pos[c])
      BY <1>7
    <2> QED
      BY <1>8, <2>1, <2>2
  <1>10. c # NULL /\ ~(block[c] \subseteq touched) /\ touched' = touched /\ block' = block
    BY <1>3 DEF Untouched
  <1>11. Aged(c)' = Aged(c)
    <2>1. Aged(c) = Idle(c) + 1
      BY <1>9, <1>10 DEF Aged, WillBeTouched
    <2>2. c \notin Ahead'
      BY <1>9
    <2>3. Aged(c)' = Idle(c)'
      BY <2>2 DEF Aged
    <2> QED
      BY <1>3, <2>1, <2>3
  <1>12. ASSUME NEW d \in U \union S, d # c
         PROVE  Aged(d)' = Aged(d)
    <2>1. d \in Entry /\ Idle(d)' = Idle(d)
      BY <1>3, <1>12
    <2>2. CASE d \notin Ahead
      <3>1. d \notin Ahead'
        BY <1>9, <2>2
      <3>2. Aged(d) = Idle(d) /\ Aged(d)' = Idle(d)'
        BY <2>2, <3>1 DEF Aged
      <3> QED
        BY <2>1, <3>2
    <2>3. CASE d \in Ahead
      <3>1. d \in Ahead' /\ d \in U
        BY <1>8, <1>9, <1>12, <2>3
      <3>2. List(d)' = List(d)
        BY <1>4, <3>1 DEF Shown
      <3>3. WillBeTouched(d)' <=> WillBeTouched(d)
        <4>1. WillBeTouched(d) <=> /\ block[d] \subseteq touched
                                   /\ \A e \in Ahead : block[e] = block[d] => e \in List(d)
          BY DEF WillBeTouched
        <4>2. WillBeTouched(d)' <=> /\ block[d] \subseteq touched
                                    /\ \A e \in Ahead \ {c} : block[e] = block[d] => e \in List(d)
          BY <1>9, <1>10, <3>2 DEF WillBeTouched
        <4>3. block[d] \subseteq touched => block[c] # block[d]
          BY <1>10
        <4> QED
          BY <4>1, <4>2, <4>3
      <3>4. Aged(d) = IF WillBeTouched(d) THEN 0 ELSE Idle(d) + 1
        BY <2>3 DEF Aged
      <3>5. Aged(d)' = IF WillBeTouched(d)' THEN 0 ELSE Idle(d)' + 1
        BY <3>1 DEF Aged
      <3> QED
        BY <2>1, <3>3, <3>4, <3>5
    <2> QED
      BY <2>2, <2>3
  <1> QED
    BY <1>5, <1>11, <1>12, Unseen

\* At the end of the list nothing is ahead, and what is relinked stays in use.
LEMMA RestUnseen ==
  ASSUME Inv, Inv', EndOfList \/ Relink \/ Relinked
  PROVE  [Lru!LruNext]_Idleness
  <1>1. PICK U \in SUBSET Entry, F \in SUBSET Entry, S \in SUBSET Entry, pos \in Places : Picture(U, F, S, pos)
    BY DEF Inv
  <1>2. Types /\ Types'
    BY DEF Inv
  <1>3. Shown(U, S, pos)
    BY <1>1, SeenNow
  <1>4. \A d \in Entry : Idle(d)' = Idle(d)
    BY DEF EndOfList, Relink, Relinked, entryVars, Idle
  <1>5. op'.name # "check"
    BY <1>2, NoneIsOp DEF EndOfList, Relink, Relinked, Types, Op
  <1>6. InUse' = U \union S /\ \A d \in Entry : Aged(d)' = Idle(d)'
    <2>1. CASE EndOfList
      <3>1. Picture(U, F, S, pos)'
        BY <1>1, <1>2, <2>1, EndStep
      <3>2. Shown(U, S, pos)'
        BY <1>2, <3>1, SeenNext
      <3> QED
        BY <1>5, <3>2 DEF Shown
    <2>2. CASE Relink
      <3>1. PICK U2 \in SUBSET Entry, S2 \in SUBSET Entry, pos2 \in Places :
               U2 \union S2 = U \union S /\ Picture(U2, F, S2, pos2)'
        BY <1>1, <1>2, <2>2, RelinkStep
      <3>2. Shown(U2, S2, pos2)'
        BY <1>2, <3>1, SeenNext
      <3> QED
        BY <1>5, <3>1, <3>2 DEF Shown
    <2>3. CASE Relinked
      <3>1. S = {} /\ Picture(U, F, {}, pos)'
        BY <1>1, <1>2, <2>3, RelinkedStep
      <3>2. Shown(U, {}, pos)'
        <4>1. {} \in SUBSET Entry
          OBVIOUS
        <4> QED
          BY <1>2, <3>1, <4>1, SeenNext
      <3> QED
        BY <1>5, <3>1, <3>2 DEF Shown
    <2> QED
      BY <2>1, <2>2, <2>3
  <1>7. InUse = U \union S /\ \A d \in Entry : Aged(d) = Idle(d)
    <2>1. CASE op.name # "check"
      BY <1>3, <2>1 DEF Shown
    <2>2. CASE op.name = "check"
      <3>1. EndOfList
        BY <2>2 DEF Relink, Relinked
      <3>2. op'.name = "relink" /\ next[op.p] = NULL
        BY <1>2, <3>1 DEF EndOfList, Types, Op
      <3>3. Ahead = {}
        <4>1. PICK c : c = next[op.p]
          OBVIOUS
        <4>2. c = NULL /\ Ahead = List(c)
          BY <2>2, <3>2, <4>1 DEF Ahead
        <4>3. From(NULL, {}, U, pos) /\ IsList(next, next[0], U, pos)
          BY <1>1 DEF From, Picture, Shape
        <4> QED
          BY <1>2, <4>2, <4>3, ListFrom
      <3> QED
        BY <1>3, <3>3 DEF Shown, Aged
    <2> QED
      BY <2>1, <2>2
  <1>8. \A d \in U \union S : Aged(d)' = Aged(d)
    BY <1>4, <1>6, <1>7
  <1> QED
    BY <1>6, <1>7, <1>8, Unseen

\* The list is kept in the order in which its entries went idle, through allocations that
\* evict and reclaim, blocks that share an entry and checks that move entries about: what
\* is evicted or reclaimed has been idle for as long as everything that stays.
THEOREM PoolImplementsLruCache == Spec => ImplementsLruCache
  <1>1. Init => Lru!LruInit
    BY InitIdleness
  <1>2. Inv /\ Inv' /\ [Next]_vars => [Lru!LruNext]_Idleness
    <2>1. SUFFICES ASSUME Inv, Inv', [Next]_vars PROVE [Lru!LruNext]_Idleness
      OBVIOUS
    <2>2. CASE UNCHANGED vars
      <3>1. Idleness' = Idleness
        BY <2>2 DEF vars, listVars, entryVars, Idleness, InUse, Stack, Checking, List, Walk, Aged, Ahead,
                    Idle, WillBeTouched
      <3> QED
        BY <3>1
    <2>3. CASE Next
      <3>1. CASE ~Checking
        BY <2>1, <2>3, <3>1, PoolSteps, CheckIsTick
      <3>2. CASE Checking
        <4>1. Touched \/ Untouched \/ EndOfList \/ Relink \/ Relinked
          BY <2>3, <3>2, NoneIsOp DEF Checking, Next, alloc_cache, Evict, NoCache, Take, MapFails, Map,
             Reclaim, Mapped, check_caches, Read, Pin, Unpin
        <4> QED
          BY <2>1, <4>1, TouchedUnseen, UntouchedUnseen, RestUnseen
      <3> QED
        BY <3>1, <3>2
    <2> QED
      BY <2>1, <2>2, <2>3
  <1>3. Inv /\ Inv' /\ [Next]_vars => [Lru!LruNext]_[c \in InUse |-> Aged(c)]
    BY <1>2 DEF Idleness
  <1> QED
    BY <1>1, <1>3, InitInv, NextInv, PTL DEF Spec, ImplementsLruCache, Lru!LruSpec
=============================================================================
