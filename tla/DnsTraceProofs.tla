-------------------------- MODULE DnsTraceProofs --------------------------
(***************************************************************************)
(* Proofs about DnsTrace: its types, that the note a trace ends with is    *)
(* true, and that a name that can be traced is, for every number of        *)
(* servers, names and hops.                                                *)
(*                                                                         *)
(* Two of the operators are recursive functions, GlueFor and Answering.    *)
(* What they compute is proved first: by a least counterexample, since the *)
(* induction theorems of the library cannot be instantiated here.          *)
(***************************************************************************)
EXTENDS DnsTrace, SequenceTheorems, WellFoundedInduction, TLAPS

(***************************************************************************)
(* Induction, as a least counterexample: WFMin speaks of sets, where the   *)
(* induction theorems of the library have an operator for a parameter.     *)
(***************************************************************************)
LEMMA Least ==
  ASSUME NEW T, T \subseteq Nat, T # {}
  PROVE  \E x \in T : \A y \in T : x <= y
<1>1. IsWellFoundedOn(OpToRel(<, Nat), Nat)
  BY NatLessThanWellFounded
<1>2. \A x, y \in Nat : x < y => <<x, y>> \in OpToRel(<, Nat)
  BY Zenon DEF OpToRel
<1>3. PICK x \in T : \A y \in T : ~(<<y, x>> \in OpToRel(<, Nat))
  BY <1>1, WFMin, Zenon
<1>4. ASSUME NEW y \in T PROVE ~(y < x)
  <2>1. x \in Nat /\ y \in Nat
    OBVIOUS
  <2> QED BY <2>1, <1>2, <1>3, Zenon
<1>5. ASSUME NEW y \in T PROVE x <= y
  <2>1. x \in Nat /\ y \in Nat /\ ~(y < x)
    BY <1>4
  <2> QED BY <2>1
<1> QED BY <1>5

(* What holds at zero and is passed on holds up to N. *)
LEMMA Induction ==
  ASSUME NEW N \in Nat, NEW H, 0 \in H, \A i \in 1 .. N : i - 1 \in H => i \in H
  PROVE  \A i \in 0 .. N : i \in H
<1> DEFINE T == {i \in 0 .. N : i \notin H}
<1>1. SUFFICES ASSUME T # {} PROVE FALSE
  OBVIOUS
<1>2. T \subseteq Nat
  OBVIOUS
<1>3. PICK m \in T : \A y \in T : m <= y
  BY <1>1, <1>2, Least
<1>4. m \in 1 .. N /\ m \notin H
  BY <1>3
<1>5. m - 1 \in H
  <2>1. m - 1 \notin T
    BY <1>3, <1>4
  <2>2. m - 1 \in 0 .. N
    BY <1>4
  <2> QED BY <2>1, <2>2
<1> QED BY <1>4, <1>5

(* A function may be defined by its first value and a step. *)
Unfolds(f, N, V, start, step) ==
  f \in [0 .. N -> V] /\ f[0] = start /\ \A i \in 1 .. N : f[i] = step[i][f[i - 1]]

LEMMA Recursion ==
  ASSUME NEW N \in Nat, NEW V, NEW start \in V, NEW step \in [1 .. N -> [V -> V]]
  PROVE  \E f : Unfolds(f, N, V, start, step)
<1> DEFINE Upto(n, f) == f[0] = start /\ \A i \in 1 .. n : f[i] = step[i][f[i - 1]]
           H == {n \in 0 .. N : \E f \in [0 .. n -> V] : Upto(n, f)}
<1>1. 0 \in H
  <2>1. PICK f : f = [i \in 0 .. 0 |-> start]
    OBVIOUS
  <2>2. f \in [0 .. 0 -> V] /\ Upto(0, f)
    BY <2>1
  <2>3. 0 \in 0 .. N
    OBVIOUS
  <2> HIDE DEF Upto
  <2> QED BY <2>2, <2>3
<1>2. ASSUME NEW n \in 1 .. N, n - 1 \in H
      PROVE  n \in H
  <2>1. PICK f \in [0 .. n - 1 -> V] : Upto(n - 1, f)
    BY <1>2
  <2>2. n - 1 \in 0 .. n - 1 /\ f[n - 1] \in V /\ step[n][f[n - 1]] \in V
    BY <2>1
  <2> DEFINE g == [i \in 0 .. n |-> IF i = n THEN step[n][f[n - 1]] ELSE f[i]]
  <2>3. g \in [0 .. n -> V]
    BY <2>2
  <2>4. /\ g[n] = step[n][f[n - 1]]
        /\ \A i \in 0 .. n - 1 : g[i] = f[i]
    OBVIOUS
  <2> HIDE DEF g
  <2>5. g[0] = start
    BY <2>1, <2>4
  <2>6. ASSUME NEW i \in 1 .. n PROVE g[i] = step[i][g[i - 1]]
    <3>1. CASE i = n
      <4>1. g[i - 1] = f[n - 1]
        BY <2>4, <3>1
      <4> QED BY <2>4, <3>1, <4>1
    <3>2. CASE i # n
      <4>1. i \in 1 .. n - 1 /\ i \in 0 .. n - 1 /\ i - 1 \in 0 .. n - 1
        BY <3>2
      <4> QED BY <2>1, <2>4, <4>1
    <3> QED BY <3>1, <3>2
  <2> QED BY <2>3, <2>5, <2>6
<1>3. \A n \in 0 .. N : n \in H
  <2> HIDE DEF H
  <2> QED BY <1>1, <1>2, Induction
<1>4. N \in H
  <2>1. N \in 0 .. N
    OBVIOUS
  <2> HIDE DEF H
  <2> QED BY <1>3, <2>1
<1> QED BY <1>4 DEF Unfolds

-----------------------------------------------------------------------------
(* The servers that lead to an answer                                      *)

Led(A) ==
  {s \in Up(Servers) :
     \/ world[s].final
     \/ LET D == Up(Delegates(world[s])) IN D # {} /\ D \subseteq A}
Final == {s \in Up(Servers) : world[s].final}

(* The recursive definition has a value, which it determines. *)
LEMMA AnsweringIs ==
  /\ Answering[0] = Final
  /\ \A n \in 1 .. MaxHops - 1 : Answering[n] = Led(Answering[n - 1])
<1> DEFINE Value(n, A) ==
             {s \in Up(Servers) :
                \/ world[s].final
                \/ /\ n > 0
                   /\ LET D == Up(Delegates(world[s]))
                      IN  D # {} /\ D \subseteq A}
           Body(f) == [n \in 0 .. MaxHops - 1 |-> Value(n, f[n - 1])]
<1>1. PICK N : N = MaxHops - 1
  OBVIOUS
<1>2. PICK V : V = SUBSET Servers
  OBVIOUS
<1>3. PICK start : start = Final
  OBVIOUS
<1>4. PICK step : step = [n \in 1 .. N |-> [A \in V |-> Led(A)]]
  OBVIOUS
<1>5. N \in Nat
  BY <1>1, HopAssumption
<1>6. start \in V /\ \A A \in V : Led(A) \in V
  BY <1>2, <1>3 DEF Final, Led, Up
<1>7. step \in [1 .. N -> [V -> V]]
  BY <1>4, <1>6
<1>8. PICK f : Unfolds(f, N, V, start, step)
  <2> HIDE DEF Value, Body
  <2> QED BY <1>5, <1>6, <1>7, Recursion
<1>9. f \in [0 .. N -> V] /\ f[0] = start /\ \A n \in 1 .. N : f[n] = step[n][f[n - 1]]
  BY <1>8 DEF Unfolds
<1>10. \A n \in 1 .. N : f[n] = Led(f[n - 1])
  <2> HIDE DEF Value, Body
  <2>1. TAKE n \in 1 .. N
  <2>2. n - 1 \in 0 .. N
    BY <1>5
  <2>3. f[n - 1] \in V
    BY <1>9, <2>2
  <2> QED BY <1>4, <1>9, <2>3
<1>11. \A A : Value(0, A) = Final
  <2>1. ~(0 > 0)
    OBVIOUS
  <2> QED BY <2>1, Zenon DEF Final
<1>12. ASSUME NEW n \in 1 .. N, NEW A PROVE Value(n, A) = Led(A)
  <2>1. n > 0
    BY <1>5
  <2> QED BY <2>1, Zenon DEF Led
<1>13. f = [n \in 0 .. N |-> Value(n, f[n - 1])]
  <2> HIDE DEF Value
  <2>1. ASSUME NEW n \in 0 .. N PROVE f[n] = Value(n, f[n - 1])
    <3>1. CASE n = 0
      BY <1>3, <1>9, <1>11, <3>1
    <3>2. CASE n # 0
      <4>1. n \in 1 .. N
        BY <1>5, <3>2
      <4> QED BY <1>10, <1>12, <4>1
    <3> QED BY <3>1, <3>2
  <2> QED BY <1>9, <2>1
<1>14. Answering = Body(Answering)
  <2>1. \A g : g = Body(g) => Answering = Body(Answering)
    BY Zenon DEF Answering
  <2>2. f = Body(f)
    <3> HIDE DEF Value
    <3> QED BY <1>1, <1>13
  <2> QED BY <2>1, <2>2, Zenon
<1>15. \A n \in 0 .. N : Answering[n] = Value(n, Answering[n - 1])
  <2> HIDE DEF Value
  <2>1. PICK a : a = Answering
    OBVIOUS
  <2>2. a = [n \in 0 .. N |-> Value(n, a[n - 1])]
    BY <1>1, <1>14, <2>1
  <2>3. \A n \in 0 .. N : a[n] = Value(n, a[n - 1])
    BY <2>2
  <2> QED BY <2>1, <2>3
<1>16. Answering[0] = Final
  <2> HIDE DEF Value
  <2>1. 0 \in 0 .. N
    BY <1>5
  <2> QED BY <1>11, <1>15, <2>1
<1>17. ASSUME NEW n \in 1 .. MaxHops - 1
       PROVE  Answering[n] = Led(Answering[n - 1])
  <2> HIDE DEF Value
  <2>1. n \in 0 .. N /\ n \in 1 .. N
    BY <1>1, <1>5
  <2> QED BY <1>12, <1>15, <2>1
<1> QED BY <1>16, <1>17

-----------------------------------------------------------------------------
(* The glue of a reply                                                     *)

LEMMA ElementsOfAppend ==
  ASSUME NEW S, NEW s \in Seq(S), NEW x \in S
  PROVE  Elements(Append(s, x)) = Elements(s) \union {x}
<1>1. PICK a : a = Append(s, x)
  OBVIOUS
<1>2. DOMAIN s = 1 .. Len(s) /\ Len(s) \in Nat
  OBVIOUS
<1>3. DOMAIN a = 1 .. Len(s) + 1 /\ a[Len(s) + 1] = x /\ \A i \in 1 .. Len(s) : a[i] = s[i]
  BY <1>1, <1>2
<1> QED BY <1>1, <1>2, <1>3 DEF Elements

LEMMA ElementsIn ==
  ASSUME NEW S, NEW s \in Seq(S)
  PROVE  /\ Elements(s) \subseteq S
         /\ Elements(s) = {} <=> s = <<>>
<1>1. DOMAIN s = 1 .. Len(s) /\ Len(s) \in Nat /\ \A i \in 1 .. Len(s) : s[i] \in S
  OBVIOUS
<1>2. Elements(s) \subseteq S
  BY <1>1 DEF Elements
<1>3. s # <<>> => s[1] \in Elements(s)
  <2>1. s # <<>> => 1 \in 1 .. Len(s)
    OBVIOUS
  <2> QED BY <1>1, <2>1 DEF Elements
<1>4. s = <<>> => Elements(s) = {}
  <2>1. s = <<>> => DOMAIN s = 1 .. 0
    OBVIOUS
  <2>2. 1 .. 0 = {}
    OBVIOUS
  <2> QED BY <2>1, <2>2 DEF Elements
<1> QED BY <1>2, <1>3, <1>4

Records == [name : NsNames, addr : Servers]

(* The records that GlueFor keeps, by a sweep of the additional section. *)
Keep(s, g, names) == IF g.name \in names THEN Append(s, g) ELSE s

Sweep(k, glue, names) ==
  k = [i \in 0 .. Len(glue) |-> IF i = 0 THEN <<>> ELSE Keep(k[i - 1], glue[i], names)]

LEMMA SweepExists ==
  ASSUME NEW R, NEW glue \in Seq(R), NEW names
  PROVE  \E k : Sweep(k, glue, names)
<1>1. PICK N, V, start : N = Len(glue) /\ V = Seq(R) /\ start = <<>>
  OBVIOUS
<1>2. PICK step : step = [i \in 1 .. N |-> [s \in V |-> Keep(s, glue[i], names)]]
  OBVIOUS
<1>3. N \in Nat /\ start \in V
  BY <1>1
<1>4. ASSUME NEW i \in 1 .. N, NEW s \in V PROVE Keep(s, glue[i], names) \in V
  <2>1. glue[i] \in R
    BY <1>1
  <2> QED BY <1>1, <2>1 DEF Keep
<1>5. step \in [1 .. N -> [V -> V]]
  BY <1>2, <1>4
<1>6. PICK k : Unfolds(k, N, V, start, step)
  BY <1>3, <1>5, Recursion
<1>7. k \in [0 .. N -> V] /\ k[0] = start /\ \A i \in 1 .. N : k[i] = step[i][k[i - 1]]
  BY <1>6 DEF Unfolds
<1>8. ASSUME NEW i \in 0 .. N
      PROVE  k[i] = IF i = 0 THEN <<>> ELSE Keep(k[i - 1], glue[i], names)
  <2>1. CASE i = 0
    BY <1>1, <1>7, <2>1
  <2>2. CASE i # 0
    <3>1. i \in 1 .. N /\ i - 1 \in 0 .. N
      BY <1>3, <2>2
    <3>2. k[i - 1] \in V /\ k[i] = step[i][k[i - 1]]
      BY <1>7, <3>1
    <3> QED BY <1>2, <2>2, <3>1, <3>2
  <2> QED BY <2>1, <2>2
<1> QED BY <1>1, <1>7, <1>8 DEF Sweep

LEMMA SweepKeeps ==
  ASSUME NEW R, NEW glue \in Seq(R), NEW names, NEW k, Sweep(k, glue, names)
  PROVE  /\ k[Len(glue)] \in Seq(R)
         /\ Elements(k[Len(glue)]) = {g \in Elements(glue) : g.name \in names}
<1>1. PICK N : N = Len(glue)
  OBVIOUS
<1>2. N \in Nat /\ DOMAIN glue = 1 .. N /\ \A i \in 1 .. N : glue[i] \in R
  BY <1>1
<1>3. \A i \in 0 .. N : k[i] = IF i = 0 THEN <<>> ELSE Keep(k[i - 1], glue[i], names)
  BY <1>1 DEF Sweep
<1> DEFINE First(i) == {glue[j] : j \in 1 .. i}
           H == {i \in 0 .. N : /\ k[i] \in Seq(R)
                                /\ Elements(k[i]) = {g \in First(i) : g.name \in names}}
<1>4. 0 \in H
  <2>1. 0 \in 0 .. N
    BY <1>2
  <2>2. k[0] = <<>> /\ k[0] \in Seq(R)
    <3>1. k[0] = <<>>
      <4> HIDE DEF H, First
      <4> QED BY <1>3, <2>1
    <3>2. <<>> \in Seq(R)
      OBVIOUS
    <3> QED BY <3>1, <3>2
  <2>3. Elements(<<>>) = {}
    <3>1. <<>> \in Seq(R)
      OBVIOUS
    <3> QED BY <3>1, ElementsIn
  <2>4. First(0) = {}
    OBVIOUS
  <2> QED BY <2>1, <2>2, <2>3, <2>4
<1>5. ASSUME NEW i \in 1 .. N, i - 1 \in H PROVE i \in H
  <2>1. i \in 0 .. N /\ i # 0 /\ glue[i] \in R
    BY <1>2
  <2>2. k[i] = Keep(k[i - 1], glue[i], names)
    BY <1>3, <2>1
  <2>3. PICK s : s = k[i - 1]
    OBVIOUS
  <2>4. s \in Seq(R) /\ Elements(s) = {g \in First(i - 1) : g.name \in names}
    BY <1>5, <2>3
  <2>5. First(i) = First(i - 1) \union {glue[i]}
    <3>1. 1 .. i = (1 .. i - 1) \union {i}
      BY <1>2
    <3> QED BY <3>1
  <2>6. CASE glue[i].name \in names
    <3>1. k[i] = Append(s, glue[i])
      BY <2>2, <2>3, <2>6 DEF Keep
    <3>2. PICK g, a : g = glue[i] /\ a = k[i]
      OBVIOUS
    <3>3. s \in Seq(R) /\ g \in R /\ a = Append(s, g)
      BY <2>1, <2>4, <3>1, <3>2
    <3>4. Elements(a) = Elements(s) \union {g} /\ a \in Seq(R)
      <4> HIDE DEF H
      <4> QED BY <3>3, ElementsOfAppend
    <3> HIDE DEF First
    <3> QED BY <2>1, <2>4, <2>5, <2>6, <3>2, <3>4
  <2>7. CASE glue[i].name \notin names
    <3>1. k[i] = s
      BY <2>2, <2>3, <2>7 DEF Keep
    <3> HIDE DEF First
    <3> QED BY <2>1, <2>4, <2>5, <2>7, <3>1
  <2> QED BY <2>6, <2>7
<1>6. N \in H
  <2> HIDE DEF H
  <2>1. N \in 0 .. N
    BY <1>2
  <2>2. \A i \in 0 .. N : i \in H
    BY <1>2, <1>4, <1>5, Induction
  <2> QED BY <2>1, <2>2
<1>7. First(N) = Elements(glue)
  BY <1>2 DEF Elements
<1> QED BY <1>1, <1>6, <1>7

(* The glue is the records of the names that are asked for. *)
LEMMA GlueForIs ==
  ASSUME NEW r, r.glue \in Seq(Records)
  PROVE  /\ GlueFor(r) \in Seq(Records)
         /\ Elements(GlueFor(r)) = {g \in Elements(r.glue) : g.name \in Elements(r.ns)}
<1> DEFINE Body(k) == [i \in 0 .. Len(r.glue) |->
                         IF i = 0 THEN <<>>
                         ELSE IF r.glue[i].name \in Elements(r.ns) THEN Append(k[i - 1], r.glue[i])
                         ELSE k[i - 1]]
<1>1. \A k : k = Body(k) => \E j : j = Body(j) /\ GlueFor(r) = j[Len(r.glue)]
  BY Zenon DEF GlueFor
<1>2. PICK glue, names, R : glue = r.glue /\ names = Elements(r.ns) /\ R = Records
  OBVIOUS
<1>3. glue \in Seq(R)
  BY <1>2
<1>4. \A k : Sweep(k, glue, names) <=> k = Body(k)
  BY <1>2 DEF Keep, Sweep
<1>5. PICK k : k = Body(k)
  <2> HIDE DEF Body
  <2> QED BY <1>3, <1>4, SweepExists
<1>6. PICK j : j = Body(j) /\ GlueFor(r) = j[Len(glue)]
  <2> HIDE DEF Body
  <2> QED BY <1>1, <1>2, <1>5
<1>7. /\ j[Len(glue)] \in Seq(R)
      /\ Elements(j[Len(glue)]) = {g \in Elements(glue) : g.name \in names}
  <2> HIDE DEF Body
  <2> QED BY <1>3, <1>4, <1>6, SweepKeeps
<1> QED
  <2> HIDE DEF Body
  <2> QED BY <1>2, <1>6, <1>7

-----------------------------------------------------------------------------
(* Replies, sequences and steps                                            *)

LEMMA ReplyIs ==
  ASSUME NEW r \in Replies
  PROVE  r.final \in BOOLEAN /\ r.ns \in Seq(NsNames) /\ r.glue \in Seq(Records)
BY ReplyAssumption DEF Records

LEMMA GlueIs ==
  ASSUME NEW r \in Replies
  PROVE  /\ Glue(r) \in Seq(Servers)
         /\ Elements(Glue(r)) =
              {g.addr : g \in {h \in Elements(r.glue) : h.name \in Elements(r.ns)}}
<1>1. PICK s : s = GlueFor(r)
  OBVIOUS
<1>2. s \in Seq(Records) /\ Elements(s) = {h \in Elements(r.glue) : h.name \in Elements(r.ns)}
  BY <1>1, ReplyIs, GlueForIs
<1>3. DOMAIN s = 1 .. Len(s) /\ Len(s) \in Nat /\ \A i \in 1 .. Len(s) : s[i] \in Records
  BY <1>2
<1>4. PICK a : a = [i \in DOMAIN s |-> s[i].addr]
  OBVIOUS
<1>5. a = Glue(r)
  BY <1>1, <1>4 DEF Glue
<1>6. \A i \in 1 .. Len(s) : s[i].addr \in Servers
  BY <1>3 DEF Records
<1>7. a \in [1 .. Len(s) -> Servers]
  BY <1>3, <1>4, <1>6
<1>8. a \in Seq(Servers)
  BY <1>3, <1>7
<1>9. Elements(a) = {g.addr : g \in Elements(s)}
  BY <1>3, <1>4 DEF Elements
<1> QED BY <1>2, <1>5, <1>8, <1>9

(* A reply with glue delegates to its glue, another to what is known of    *)
(* the first of its name servers.                                          *)
LEMMA DelegatesIs ==
  ASSUME NEW r \in Replies, ~r.final, r.ns # <<>>
  PROVE  /\ Glue(r) # <<>> => Delegates(r) = Elements(Glue(r))
         /\ Glue(r) = <<>> => Delegates(r) = Elements(book[r.ns[1]])
<1>1. PICK named : named = {h \in Elements(r.glue) : h.name \in Elements(r.ns)}
  OBVIOUS
<1>2. Delegates(r) = IF named # {} THEN {g.addr : g \in named} ELSE Elements(book[r.ns[1]])
  BY <1>1 DEF Delegates
<1>3. Elements(Glue(r)) = {g.addr : g \in named}
  BY <1>1, GlueIs
<1>4. Glue(r) = <<>> <=> Elements(Glue(r)) = {}
  BY GlueIs, ElementsIn
<1>5. named = {} <=> {g.addr : g \in named} = {}
  OBVIOUS
<1> QED BY <1>2, <1>3, <1>4, <1>5

LEMMA HeadAndTail ==
  ASSUME NEW S, NEW s \in Seq(S), s # <<>>
  PROVE  /\ Head(s) \in S /\ Tail(s) \in Seq(S)
         /\ Elements(s) = {Head(s)} \union Elements(Tail(s))
<1>1. Head(s) \in S /\ Tail(s) \in Seq(S)
  OBVIOUS
<1>2. PICK h, t, n : h = Head(s) /\ t = Tail(s) /\ n = Len(s)
  OBVIOUS
<1>3. n \in Nat \ {0} /\ DOMAIN s = 1 .. n /\ DOMAIN t = 1 .. n - 1
  BY <1>2
<1>4. h = s[1] /\ \A i \in 1 .. n - 1 : t[i] = s[i + 1]
  BY <1>2
<1>5. \A i \in 1 .. n : i = 1 \/ i - 1 \in 1 .. n - 1
  BY <1>3
<1>6. ASSUME NEW x \in Elements(s) PROVE x \in {h} \union Elements(t)
  <2>1. PICK i \in 1 .. n : x = s[i]
    BY <1>3 DEF Elements
  <2>2. CASE i = 1
    BY <1>4, <2>1, <2>2
  <2>3. CASE i # 1
    <3>1. i - 1 \in 1 .. n - 1 /\ (i - 1) + 1 = i
      BY <1>3, <2>3
    <3>2. x = t[i - 1]
      BY <1>4, <2>1, <3>1
    <3> QED BY <1>3, <3>1, <3>2 DEF Elements
  <2> QED BY <2>2, <2>3
<1>7. ASSUME NEW x \in {h} \union Elements(t) PROVE x \in Elements(s)
  <2>1. CASE x = h
    <3>1. 1 \in 1 .. n
      BY <1>3
    <3> QED BY <1>3, <1>4, <2>1, <3>1 DEF Elements
  <2>2. CASE x \in Elements(t)
    <3>1. PICK i \in 1 .. n - 1 : x = t[i]
      BY <1>3, <2>2 DEF Elements
    <3>2. i + 1 \in 1 .. n /\ x = s[i + 1]
      BY <1>3, <1>4, <3>1
    <3> QED BY <1>3, <3>2 DEF Elements
  <2> QED BY <1>7, <2>1, <2>2
<1> QED BY <1>1, <1>2, <1>6, <1>7

(* The last hop is the one that was added. *)
LEMMA LastIs ==
  ASSUME NEW s \in Servers, hops \in Seq(Servers), hops' = Append(hops, s), UNCHANGED external
  PROVE  /\ hops' \in Seq(Servers) /\ hops' # <<>> /\ Len(hops') = Len(hops) + 1
         /\ Len(hops) \in Nat
         /\ Last' = world[s]
<1>1. hops' \in Seq(Servers) /\ Len(hops') = Len(hops) + 1 /\ Len(hops) \in Nat
  OBVIOUS
<1>2. hops' # <<>>
  BY <1>1
<1>3. hops'[Len(hops')] = s
  BY <1>1
<1> QED BY <1>1, <1>2, <1>3 DEF Last, external

LEMMA LastStays ==
  ASSUME UNCHANGED <<hops, external>>
  PROVE  Last' = Last /\ Glue(Last)' = Glue(Last) /\ Delegates(Last)' = Delegates(Last)
         /\ book'[Last'.ns[1]] = book[Last.ns[1]]
BY DEF Last, external, Glue, GlueFor, Delegates

LEMMA WorldStays ==
  ASSUME UNCHANGED external
  PROVE  /\ world' = world /\ book' = book /\ down' = down /\ flaky' = flaky
         /\ \A r : Delegates(r)' = Delegates(r)
         /\ \A S : Up(S)' = Up(S)
BY DEF external, Delegates, Up

(* The servers that lead to an answer stay those. *)
LEMMA AnsweringStays ==
  ASSUME UNCHANGED external
  PROVE  \A n \in 0 .. MaxHops - 1 : Answering'[n] = Answering[n]
<1>1. (/\ Answering[0] = Final
       /\ \A n \in 1 .. MaxHops - 1 : Answering[n] = Led(Answering[n - 1]))'
  BY AnsweringIs, PTL
<1>2. Final' = Final
  BY DEF Final, external, Up
<1>3. ASSUME NEW n PROVE Led(Answering[n])' = Led(Answering'[n])
  BY DEF external, Led, Up, Delegates
<1> DEFINE H == {n \in 0 .. MaxHops - 1 : Answering'[n] = Answering[n]}
<1>4. MaxHops - 1 \in Nat
  BY HopAssumption
<1>5. 0 \in H
  <2>1. 0 \in 0 .. MaxHops - 1
    BY <1>4
  <2> QED BY <1>1, <1>2, <2>1, AnsweringIs
<1>6. ASSUME NEW n \in 1 .. MaxHops - 1, n - 1 \in H PROVE n \in H
  <2>1. n \in 0 .. MaxHops - 1
    BY <1>4
  <2>2. Answering'[n] = Led(Answering'[n - 1])
    BY <1>1, <1>3
  <2>3. Answering[n] = Led(Answering[n - 1])
    BY AnsweringIs
  <2> QED BY <1>6, <2>1, <2>2, <2>3
<1>7. \A n \in 0 .. MaxHops - 1 : n \in H
  <2> HIDE DEF H
  <2>1. PICK N : N = MaxHops - 1
    OBVIOUS
  <2>2. N \in Nat /\ \A n \in 1 .. N : n - 1 \in H => n \in H
    BY <1>4, <1>6, <2>1
  <2> QED BY <1>5, <2>1, <2>2, Induction
<1> QED BY <1>7

-----------------------------------------------------------------------------
(* Types and notes                                                         *)

(* While a server is asked for the name, every server of the delegation    *)
(* that is not still to be asked is down, and the last hop delegated.      *)
HopInv ==
  at = "hop" =>
    /\ note = "none" /\ Len(hops) < MaxHops
    /\ hops # <<>> => ~Last.final /\ Last.ns # <<>>
    /\ Elements(todo) \subseteq Elements(candidates)
    /\ ~flaky => Elements(candidates) \subseteq down \union Elements(todo)

(* While an address is asked for, the last hop delegated without glue, and *)
(* if there is an address, those who did not say so are down.              *)
GlueInv ==
  at = "glue" =>
    /\ note = "none"
    /\ hops # <<>> /\ ~Last.final /\ Last.ns # <<>> /\ Glue(Last) = <<>>
    /\ ~flaky /\ book[Last.ns[1]] # <<>> => Elements(Fallback) \subseteq down \union Elements(todo)

NoteInv == TypeOK /\ HopInv /\ GlueInv /\ NoteIsTrue

LEMMA NoteInit == ASSUME Init PROVE NoteInv
<1>1. Roots \in Seq(Servers) /\ Roots # <<>>
  BY ServerAssumption
<1>2. <<>> \in Seq(Servers) /\ Len(<<>>) = 0 /\ 0 < MaxHops /\ 0 <= MaxHops
  BY HopAssumption
<1>3. TypeOK
  BY <1>1, <1>2, Zenon DEF Init, TypeOK, Notes
<1>4. HopInv
  BY <1>2 DEF Init, HopInv
<1>5. GlueInv /\ NoteIsTrue
  BY DEF Init, GlueInv, NoteIsTrue
<1> QED BY <1>3, <1>4, <1>5 DEF NoteInv

(* What is known of the last hop and its delegation. *)
LEMMA LastIn ==
  ASSUME TypeOK, hops # <<>>
  PROVE  Last \in Replies
<1>1. hops \in Seq(Servers) /\ world \in [Servers -> Replies]
  BY DEF TypeOK
<1>2. hops[Len(hops)] \in Servers
  BY <1>1
<1> QED BY <1>1, <1>2 DEF Last

LEMMA BookIn ==
  ASSUME TypeOK, hops # <<>>, Last.ns # <<>>
  PROVE  book[Last.ns[1]] \in Seq(Servers)
<1>1. Last.ns \in Seq(NsNames)
  BY LastIn, ReplyIs
<1>2. Last.ns[1] \in NsNames
  BY <1>1
<1>3. book \in [NsNames -> Seq(Servers)]
  BY BookAssumption DEF TypeOK
<1> QED BY <1>2, <1>3

(* Asking the next server, or, after the last of them, stopping. *)
LEMMA NextServerKeeps ==
  ASSUME TypeOK, at # "done", NEW why \in Notes, NextServer(why)
  PROVE  /\ at' \in {"hop", "glue", "done"} /\ note' \in Notes
         /\ todo' \in Seq(Servers) /\ todo' # <<>>
         /\ candidates' = candidates
         /\ \/ at' = "done" /\ note' = why /\ Elements(todo) = {Head(todo)}
            \/ /\ at' = at /\ note' = note
               /\ Elements(todo) = {Head(todo)} \union Elements(todo')
<1>1. /\ todo \in Seq(Servers) /\ todo # <<>> /\ at \in {"hop", "glue", "done"} /\ note \in Notes
  BY DEF TypeOK
<1>2. Tail(todo) \in Seq(Servers) /\ Elements(todo) = {Head(todo)} \union Elements(Tail(todo))
  BY <1>1, HeadAndTail
<1>3. Tail(todo) = <<>> => Elements(Tail(todo)) = {}
  BY <1>2, ElementsIn
<1>4. CASE Tail(todo) = <<>>
  BY <1>1, <1>2, <1>3, <1>4, Zenon DEF NextServer, Remaining, Stop
<1>5. CASE Tail(todo) # <<>>
  BY <1>1, <1>2, <1>5, Zenon DEF NextServer, Remaining
<1> QED BY <1>4, <1>5

(* Following a delegation, or, after the last hop, stopping. *)
LEMMA FollowKeeps ==
  ASSUME NEW cs \in Seq(Servers), cs # <<>>, NEW h \in Seq(Servers), Len(h) <= MaxHops,
         TypeOK, note = "none", Follow(cs, h)
  PROVE  /\ todo' \in Seq(Servers) /\ todo' # <<>>
         /\ candidates' \in Seq(Servers) /\ candidates' # <<>>
         /\ \/ at' = "done" /\ note' = "hops" /\ Len(h) = MaxHops
            \/ /\ at' = "hop" /\ note' = "none" /\ Len(h) < MaxHops
               /\ todo' = cs /\ candidates' = cs
<1>1. /\ todo \in Seq(Servers) /\ todo # <<>> /\ candidates \in Seq(Servers) /\ candidates # <<>>
  BY DEF TypeOK
<1>2. MaxHops \in Nat /\ Len(h) \in Nat
  BY HopAssumption
<1>3. CASE Full(h)
  <2>1. Len(h) = MaxHops
    BY <1>2, <1>3 DEF Full
  <2> QED BY <1>1, <1>3, <2>1, Zenon DEF Follow, Stop
<1>4. CASE ~Full(h)
  <2>1. Len(h) < MaxHops
    BY <1>2, <1>4 DEF Full
  <2>2. at' = "hop" /\ todo' = cs /\ candidates' = cs /\ note' = "none"
    BY <1>4 DEF Follow
  <2> QED BY <2>1, <2>2
<1> QED BY <1>3, <1>4

LEMMA NoteFails == ASSUME NoteInv, Fails PROVE NoteInv'
<1>1. TypeOK /\ HopInv /\ GlueInv /\ NoteIsTrue
  BY DEF NoteInv
<1>2. /\ at # "done" /\ MayFail /\ via' = "udp" /\ NextServer(WhyNot)
      /\ UNCHANGED <<hops, external>>
  BY DEF Fails
<1>3. WhyNot \in {"unresponsive", "address"} /\ WhyNot \in Notes
  BY DEF WhyNot, Notes
<1>4. /\ at' \in {"hop", "glue", "done"} /\ note' \in Notes
      /\ todo' \in Seq(Servers) /\ todo' # <<>>
      /\ candidates' = candidates
      /\ \/ at' = "done" /\ note' = WhyNot /\ Elements(todo) = {Head(todo)}
         \/ /\ at' = at /\ note' = note
            /\ Elements(todo) = {Head(todo)} \union Elements(todo')
  BY <1>1, <1>2, <1>3, NextServerKeeps
<1>5. /\ hops' = hops /\ world' = world /\ book' = book /\ down' = down /\ flaky' = flaky
      /\ Last' = Last /\ Glue(Last)' = Glue(Last) /\ Delegates(Last)' = Delegates(Last)
      /\ book'[Last'.ns[1]] = book[Last.ns[1]]
  BY <1>2, LastStays DEF external
<1>6. ~flaky => Head(todo) \in down
  BY <1>2 DEF MayFail
<1>7. TypeOK'
  BY <1>1, <1>2, <1>4, <1>5, Zenon DEF TypeOK
<1>8. HopInv'
  BY <1>1, <1>2, <1>4, <1>5, <1>6 DEF HopInv
<1>9. GlueInv'
  BY <1>1, <1>2, <1>4, <1>5, <1>6 DEF GlueInv
<1>10. NoteIsTrue'
  <2>1. SUFFICES ASSUME at' = "done" PROVE NoteIsTrue'
    BY DEF NoteIsTrue
  <2>2. note' = WhyNot /\ Elements(todo) = {Head(todo)}
    BY <1>2, <1>4, <2>1
  <2>3. CASE at = "hop"
    <3>1. note' = "unresponsive"
      BY <2>2, <2>3 DEF WhyNot
    <3>2. ~flaky => Elements(candidates) \subseteq down
      BY <1>1, <1>6, <2>2, <2>3 DEF HopInv
    <3>3. ~(hops # <<>> /\ (Last.final \/ Last.ns = <<>>))
      BY <1>1, <2>3 DEF HopInv
    <3> QED BY <1>4, <1>5, <3>1, <3>2, <3>3, Zenon DEF NoteIsTrue
  <2>4. CASE at = "glue"
    <3>1. note' = "address"
      BY <2>2, <2>4 DEF WhyNot
    <3>2. hops # <<>> /\ ~Last.final /\ Last.ns # <<>> /\ Glue(Last) = <<>>
      BY <1>1, <2>4 DEF GlueInv
    <3>3. Delegates(Last) = Elements(book[Last.ns[1]]) /\ book[Last.ns[1]] \in Seq(Servers)
      BY <1>1, <3>2, LastIn, BookIn, DelegatesIs
    <3>4. ~flaky => Delegates(Last) = {} \/ Elements(Fallback) \subseteq down
      <4>1. CASE book[Last.ns[1]] = <<>>
        <5>1. PICK b : b = book[Last.ns[1]]
          OBVIOUS
        <5>2. b \in Seq(Servers) /\ (Elements(b) = {} <=> b = <<>>)
          BY <3>3, <5>1, ElementsIn
        <5> QED BY <3>3, <4>1, <5>1, <5>2
      <4>2. CASE book[Last.ns[1]] # <<>>
        BY <1>1, <1>6, <2>2, <2>4, <4>2 DEF GlueInv
      <4> QED BY <4>1, <4>2
    <3> QED BY <1>5, <3>1, <3>2, <3>4, Zenon DEF NoteIsTrue
  <2> QED BY <1>1, <1>2, <2>3, <2>4 DEF TypeOK
<1> QED BY <1>7, <1>8, <1>9, <1>10 DEF NoteInv

LEMMA NoteTruncated == ASSUME NoteInv, Truncated PROVE NoteInv'
<1>1. /\ at' = at /\ todo' = todo /\ candidates' = candidates /\ hops' = hops /\ note' = note
      /\ via' = "tcp" /\ at # "done" /\ UNCHANGED <<hops, external>>
  BY DEF Truncated
<1>2. /\ world' = world /\ book' = book /\ down' = down /\ flaky' = flaky
      /\ Last' = Last /\ Glue(Last)' = Glue(Last)
      /\ book'[Last'.ns[1]] = book[Last.ns[1]]
  BY <1>1, LastStays DEF external
<1>3. TypeOK'
  BY <1>1, <1>2, Zenon DEF NoteInv, TypeOK
<1>4. HopInv' /\ GlueInv'
  BY <1>1, <1>2 DEF NoteInv, HopInv, GlueInv
<1>5. NoteIsTrue'
  BY <1>1 DEF NoteIsTrue
<1> QED BY <1>3, <1>4, <1>5 DEF NoteInv

LEMMA NoteResponds == ASSUME NoteInv, Responds PROVE NoteInv'
<1>1. TypeOK /\ HopInv /\ GlueInv /\ NoteIsTrue
  BY DEF NoteInv
<1>2. PICK s, r : s = Head(todo) /\ r = world[s]
  OBVIOUS
<1>3. /\ at = "hop" /\ via' = "udp" /\ hops' = Append(hops, s) /\ UNCHANGED external
      /\ \/ r.final /\ Stop("none")
         \/ ~r.final /\ r.ns = <<>> /\ Stop("no NS")
         \/ ~r.final /\ r.ns # <<>> /\ Glue(r) # <<>> /\ Follow(Glue(r), hops')
         \/ ~r.final /\ r.ns # <<>> /\ Glue(r) = <<>> /\ AskForAddress
  BY <1>2 DEF Responds
<1>4. note = "none" /\ Len(hops) < MaxHops
  BY <1>1, <1>3 DEF HopInv
<1>5. /\ todo \in Seq(Servers) /\ todo # <<>> /\ candidates \in Seq(Servers) /\ candidates # <<>>
      /\ hops \in Seq(Servers) /\ world \in [Servers -> Replies] /\ MaxHops \in Nat
  BY <1>1, HopAssumption DEF TypeOK
<1>6. s \in Servers /\ r \in Replies
  BY <1>2, <1>5, HeadAndTail
<1>7. /\ hops' \in Seq(Servers) /\ hops' # <<>> /\ Len(hops') = Len(hops) + 1
      /\ Len(hops) \in Nat /\ Last' = r
  BY <1>2, <1>3, <1>5, <1>6, LastIs
<1>8. Len(hops') <= MaxHops
  BY <1>4, <1>5, <1>7
<1>9. /\ world' = world /\ book' = book /\ down' = down /\ flaky' = flaky
      /\ Delegates(r)' = Delegates(r)
  BY <1>3, WorldStays
<1>10. r.final \in BOOLEAN /\ Glue(r) \in Seq(Servers)
  BY <1>6, ReplyIs, GlueIs
<1>11. ASSUME /\ at' \in {"hop", "glue", "done"} /\ note' \in Notes
              /\ todo' \in Seq(Servers) /\ todo' # <<>>
              /\ candidates' \in Seq(Servers) /\ candidates' # <<>>
       PROVE  TypeOK'
  BY <1>1, <1>3, <1>7, <1>8, <1>9, <1>11, Zenon DEF TypeOK
<1>12. CASE r.final /\ Stop("none")
  <2>1. at' = "done" /\ note' = "none" /\ todo' = todo /\ candidates' = candidates
    BY <1>12 DEF Stop
  <2>2. TypeOK'
    BY <1>5, <1>11, <2>1 DEF Notes
  <2>3. HopInv' /\ GlueInv'
    BY <2>1 DEF HopInv, GlueInv
  <2>4. NoteIsTrue'
    BY <1>7, <1>12, <2>1, Zenon DEF NoteIsTrue
  <2> QED BY <2>2, <2>3, <2>4 DEF NoteInv
<1>13. CASE ~r.final /\ r.ns = <<>> /\ Stop("no NS")
  <2>1. at' = "done" /\ note' = "no NS" /\ todo' = todo /\ candidates' = candidates
    BY <1>13 DEF Stop
  <2>2. TypeOK'
    BY <1>5, <1>11, <2>1 DEF Notes
  <2>3. HopInv' /\ GlueInv'
    BY <2>1 DEF HopInv, GlueInv
  <2>4. NoteIsTrue'
    BY <1>7, <1>13, <2>1, Zenon DEF NoteIsTrue
  <2> QED BY <2>2, <2>3, <2>4 DEF NoteInv
<1>14. CASE ~r.final /\ r.ns # <<>> /\ Glue(r) # <<>> /\ Follow(Glue(r), hops')
  <2>1. /\ todo' \in Seq(Servers) /\ todo' # <<>>
        /\ candidates' \in Seq(Servers) /\ candidates' # <<>>
        /\ \/ at' = "done" /\ note' = "hops" /\ Len(hops') = MaxHops
           \/ /\ at' = "hop" /\ note' = "none" /\ Len(hops') < MaxHops
              /\ todo' = Glue(r) /\ candidates' = Glue(r)
    <3>1. PICK h, cs : h = hops' /\ cs = Glue(r)
      OBVIOUS
    <3>2. cs \in Seq(Servers) /\ cs # <<>> /\ h \in Seq(Servers) /\ Len(h) <= MaxHops /\ Follow(cs, h)
      BY <1>7, <1>8, <1>10, <1>14, <3>1
    <3>3. /\ todo' \in Seq(Servers) /\ todo' # <<>>
          /\ candidates' \in Seq(Servers) /\ candidates' # <<>>
          /\ \/ at' = "done" /\ note' = "hops" /\ Len(h) = MaxHops
             \/ /\ at' = "hop" /\ note' = "none" /\ Len(h) < MaxHops
                /\ todo' = cs /\ candidates' = cs
      BY <1>1, <1>4, <3>2, FollowKeeps
    <3> QED BY <3>1, <3>3
  <2>2. TypeOK'
    BY <1>11, <2>1 DEF Notes
  <2>3. HopInv'
    BY <1>7, <1>9, <1>14, <2>1 DEF HopInv
  <2>4. GlueInv'
    BY <2>1 DEF GlueInv
  <2>5. NoteIsTrue'
    BY <1>7, <1>14, <2>1, Zenon DEF NoteIsTrue
  <2> QED BY <2>2, <2>3, <2>4, <2>5 DEF NoteInv
<1>15. CASE ~r.final /\ r.ns # <<>> /\ Glue(r) = <<>> /\ AskForAddress
  <2>1. CASE Fallback = <<>>
    <3>1. at' = "done" /\ note' = "address" /\ todo' = todo /\ candidates' = candidates
      BY <1>15, <2>1 DEF AskForAddress, Stop
    <3>2. TypeOK'
      BY <1>5, <1>11, <3>1 DEF Notes
    <3>3. HopInv' /\ GlueInv'
      BY <3>1 DEF HopInv, GlueInv
    <3>4. Elements(Fallback) = {}
      BY <2>1, ElementsIn, ServerAssumption
    <3>5. NoteIsTrue'
      BY <1>7, <1>15, <3>1, <3>4, Zenon DEF NoteIsTrue
    <3> QED BY <3>2, <3>3, <3>5 DEF NoteInv
  <2>2. CASE Fallback # <<>>
    <3>1. at' = "glue" /\ note' = "none" /\ todo' = Fallback /\ candidates' = candidates
      BY <1>4, <1>15, <2>2 DEF AskForAddress
    <3>2. TypeOK'
      BY <1>5, <1>11, <2>2, <3>1, ServerAssumption DEF Notes
    <3>3. HopInv'
      BY <3>1 DEF HopInv
    <3>4. Glue(Last)' = <<>>
      <4>1. Glue(Last)' = Glue(Last')
        BY DEF Glue, GlueFor
      <4> QED BY <1>7, <1>15, <4>1
    <3>5. GlueInv'
      BY <1>7, <1>15, <3>1, <3>4 DEF GlueInv
    <3>6. NoteIsTrue'
      BY <3>1 DEF NoteIsTrue
    <3> QED BY <3>2, <3>3, <3>5, <3>6 DEF NoteInv
  <2> QED BY <2>1, <2>2
<1> QED BY <1>3, <1>12, <1>13, <1>14, <1>15

LEMMA NoteResolves == ASSUME NoteInv, Resolves PROVE NoteInv'
<1>1. TypeOK /\ HopInv /\ GlueInv /\ NoteIsTrue
  BY DEF NoteInv
<1>2. PICK ips : ips = book[Last.ns[1]]
  OBVIOUS
<1>3. /\ at = "glue" /\ via' = "udp" /\ UNCHANGED <<hops, external>>
      /\ \/ ips # <<>> /\ Follow(ips, hops)
         \/ ips = <<>> /\ NextServer("address")
  BY <1>2 DEF Resolves
<1>4. note = "none" /\ hops # <<>> /\ ~Last.final /\ Last.ns # <<>> /\ Glue(Last) = <<>>
  BY <1>1, <1>3 DEF GlueInv
<1>5. /\ ips \in Seq(Servers) /\ hops \in Seq(Servers) /\ Len(hops) <= MaxHops
      /\ Delegates(Last) = Elements(ips)
  <2>1. Last \in Replies /\ book[Last.ns[1]] \in Seq(Servers)
    BY <1>1, <1>4, LastIn, BookIn
  <2> QED BY <1>1, <1>2, <1>4, <2>1, DelegatesIs DEF TypeOK
<1>6. /\ hops' = hops /\ world' = world /\ book' = book /\ down' = down /\ flaky' = flaky
      /\ Last' = Last /\ Glue(Last)' = Glue(Last) /\ Delegates(Last)' = Delegates(Last)
      /\ book'[Last'.ns[1]] = ips
  BY <1>2, <1>3, LastStays DEF external
<1>7. ASSUME /\ at' \in {"hop", "glue", "done"} /\ note' \in Notes
             /\ todo' \in Seq(Servers) /\ todo' # <<>>
             /\ candidates' \in Seq(Servers) /\ candidates' # <<>>
      PROVE  TypeOK'
  BY <1>1, <1>3, <1>6, <1>7, Zenon DEF TypeOK
<1>8. CASE ips # <<>> /\ Follow(ips, hops)
  <2>1. /\ todo' \in Seq(Servers) /\ todo' # <<>>
        /\ candidates' \in Seq(Servers) /\ candidates' # <<>>
        /\ \/ at' = "done" /\ note' = "hops" /\ Len(hops) = MaxHops
           \/ /\ at' = "hop" /\ note' = "none" /\ Len(hops) < MaxHops
              /\ todo' = ips /\ candidates' = ips
    BY <1>1, <1>4, <1>5, <1>8, FollowKeeps
  <2>2. TypeOK'
    BY <1>7, <2>1 DEF Notes
  <2>3. HopInv'
    BY <1>4, <1>6, <2>1 DEF HopInv
  <2>4. GlueInv'
    BY <2>1 DEF GlueInv
  <2>5. NoteIsTrue'
    BY <1>4, <1>6, <2>1, Zenon DEF NoteIsTrue
  <2> QED BY <2>2, <2>3, <2>4, <2>5 DEF NoteInv
<1>9. CASE ips = <<>> /\ NextServer("address")
  <2>1. /\ at' \in {"hop", "glue", "done"} /\ note' \in Notes
        /\ todo' \in Seq(Servers) /\ todo' # <<>>
        /\ candidates' = candidates
        /\ \/ at' = "done" /\ note' = "address" /\ Elements(todo) = {Head(todo)}
           \/ /\ at' = at /\ note' = note
              /\ Elements(todo) = {Head(todo)} \union Elements(todo')
    <3>1. "address" \in Notes /\ at # "done"
      BY <1>3 DEF Notes
    <3> QED BY <1>1, <1>9, <3>1, NextServerKeeps
  <2>2. TypeOK'
    BY <1>1, <1>7, <2>1 DEF TypeOK
  <2>3. HopInv'
    BY <1>3, <2>1 DEF HopInv
  <2>4. GlueInv'
    BY <1>3, <1>4, <1>6, <1>9, <2>1 DEF GlueInv
  <2>5. Delegates(Last) = {}
    <3>1. Elements(ips) = {}
      BY <1>5, <1>9, ElementsIn
    <3> QED BY <1>5, <3>1
  <2>6. NoteIsTrue'
    <3>1. CASE at' = "done" /\ note' = "address"
      BY <1>4, <1>6, <2>5, <3>1, Zenon DEF NoteIsTrue
    <3>2. CASE at' = at
      BY <1>3, <3>2 DEF NoteIsTrue
    <3> QED BY <2>1, <3>1, <3>2
  <2> QED BY <2>2, <2>3, <2>4, <2>6 DEF NoteInv
<1> QED BY <1>3, <1>8, <1>9

LEMMA NoteStays == ASSUME NoteInv, UNCHANGED vars PROVE NoteInv'
<1>1. /\ at' = at /\ via' = via /\ todo' = todo /\ candidates' = candidates /\ note' = note
      /\ UNCHANGED <<hops, external>>
  BY DEF vars
<1>2. /\ hops' = hops /\ world' = world /\ book' = book /\ down' = down /\ flaky' = flaky
      /\ Last' = Last /\ Glue(Last)' = Glue(Last) /\ Delegates(Last)' = Delegates(Last)
      /\ book'[Last'.ns[1]] = book[Last.ns[1]]
  BY <1>1, LastStays DEF external
<1>3. TypeOK'
  BY <1>1, <1>2, Zenon DEF NoteInv, TypeOK
<1>4. HopInv' /\ GlueInv'
  BY <1>1, <1>2 DEF NoteInv, HopInv, GlueInv
<1>5. NoteIsTrue'
  BY <1>1, <1>2, Zenon DEF NoteInv, NoteIsTrue
<1> QED BY <1>3, <1>4, <1>5 DEF NoteInv

LEMMA NoteNext == ASSUME NoteInv, [Next]_vars PROVE NoteInv'
BY NoteFails, NoteTruncated, NoteResponds, NoteResolves, NoteStays DEF Next

LEMMA NoteAlways == Spec => []NoteInv
<1>1. Init => NoteInv
  BY NoteInit
<1>2. NoteInv /\ [Next]_vars => NoteInv'
  BY NoteNext
<1> QED BY <1>1, <1>2, PTL DEF Spec

(* Every variable of a trace has its type, and hops are no more than there *)
(* may be (MAX_TRACE_HOPS).                                                *)
THEOREM TypeCorrect == Spec => []TypeOK
<1>1. NoteInv => TypeOK
  BY DEF NoteInv
<1> QED BY <1>1, NoteAlways, PTL

(* A trace that stops says why, and it is so: its last hop answered or     *)
(* named no server, there were too many hops, or, on a network that is not *)
(* flaky, nobody responds or has an address (trace).                       *)
THEOREM NoteTrue == Spec => []NoteIsTrue
<1>1. NoteInv => NoteIsTrue
  BY DEF NoteInv
<1> QED BY <1>1, NoteAlways, PTL

-----------------------------------------------------------------------------
(* Answers                                                                 *)

(* S, less those that are down, leads to an answer in k more hops. *)
Leads(S, k) == k \in 0 .. MaxHops - 1 /\ Up(S) # {} /\ Up(S) \subseteq Answering[k]
Left == MaxHops - 1 - Len(hops)

(* In a name that can be traced, whoever is asked leads to an answer in    *)
(* the hops that are left.                                                 *)
LeadInv ==
  Traceable =>
    /\ at = "hop"  => Leads(Elements(candidates), Left)
    /\ at = "glue" => Leads(Elements(book[Last.ns[1]]), Left)

AnswerInv == NoteInv /\ LeadInv /\ FindsAnswer

LEMMA TraceableStays == ASSUME UNCHANGED external PROVE Traceable' = Traceable
<1>1. MaxHops - 1 \in 0 .. MaxHops - 1
  BY HopAssumption
<1>2. Answering'[MaxHops - 1] = Answering[MaxHops - 1]
  BY <1>1, AnsweringStays
<1> QED BY <1>2 DEF Traceable, external, Up

(* What was known of servers and hops is known of them after a step. *)
LEMMA LeadsOn ==
  ASSUME UNCHANGED external, NEW CONSTANT S, NEW CONSTANT k, Leads(S, k)
  PROVE  k \in 0 .. MaxHops - 1 /\ Up(S)' # {} /\ Up(S)' \subseteq Answering'[k]
<1>1. k \in 0 .. MaxHops - 1 /\ Up(S) # {} /\ Up(S) \subseteq Answering[k]
  BY DEF Leads
<1>2. Answering'[k] = Answering[k] /\ Up(S)' = Up(S)
  BY <1>1, AnsweringStays, WorldStays
<1> QED BY <1>1, <1>2

LEMMA AskingLeads ==
  ASSUME UNCHANGED external, at' = "hop", NEW CONSTANT S, NEW CONSTANT k, Leads(S, k),
         Elements(candidates') = S, Left' = k
  PROVE  LeadInv' /\ FindsAnswer'
<1>1. k \in 0 .. MaxHops - 1 /\ Up(S)' # {} /\ Up(S)' \subseteq Answering'[k]
  BY LeadsOn
<1>2. (at = "hop" => Leads(Elements(candidates), Left))'
  BY <1>1 DEF Leads, Up
<1> QED BY <1>2 DEF LeadInv, FindsAnswer

LEMMA ResolvingLeads ==
  ASSUME UNCHANGED external, at' = "glue", NEW CONSTANT S, NEW CONSTANT k, Leads(S, k),
         Elements(book'[Last'.ns[1]]) = S, Left' = k
  PROVE  LeadInv' /\ FindsAnswer'
<1>1. k \in 0 .. MaxHops - 1 /\ Up(S)' # {} /\ Up(S)' \subseteq Answering'[k]
  BY LeadsOn
<1>2. (at = "glue" => Leads(Elements(book[Last.ns[1]]), Left))'
  BY <1>1 DEF Leads, Up
<1> QED BY <1>2 DEF LeadInv, FindsAnswer

LEMMA AnswerInit == ASSUME Init PROVE AnswerInv
<1>1. NoteInv
  BY NoteInit
<1>2. FindsAnswer
  BY DEF Init, FindsAnswer
<1>3. ASSUME Traceable PROVE Leads(Elements(candidates), Left)
  <2>1. Left = MaxHops - 1 /\ MaxHops - 1 \in 0 .. MaxHops - 1
    BY HopAssumption DEF Init, Left
  <2> QED BY <1>3, <2>1 DEF Leads, Traceable, Init
<1>4. LeadInv
  BY <1>3 DEF Init, LeadInv
<1> QED BY <1>1, <1>2, <1>4 DEF AnswerInv

LEMMA AnswerFails ==
  ASSUME NoteInv, LeadInv, Traceable, Fails
  PROVE  LeadInv' /\ FindsAnswer'
<1>1. TypeOK /\ HopInv /\ GlueInv
  BY DEF NoteInv
<1>2. /\ at # "done" /\ MayFail /\ NextServer(WhyNot) /\ UNCHANGED <<hops, external>>
      /\ UNCHANGED external
  BY DEF Fails
<1>3. WhyNot \in Notes
  BY DEF WhyNot, Notes
<1>4. /\ candidates' = candidates
      /\ \/ at' = "done" /\ note' = WhyNot /\ Elements(todo) = {Head(todo)}
         \/ at' = at
  BY <1>1, <1>2, <1>3, NextServerKeeps
<1>5. ~flaky /\ Head(todo) \in down /\ Up(Elements(Fallback)) # {}
  BY <1>2 DEF Traceable, MayFail
<1>6. PICK k : k = Left
  OBVIOUS
<1>7. Left' = k /\ book'[Last'.ns[1]] = book[Last.ns[1]]
  BY <1>2, <1>6, LastStays DEF Left
<1>8. CASE at = "hop"
  <2>1. Leads(Elements(candidates), k)
    BY <1>6, <1>8 DEF LeadInv
  <2>2. CASE at' = "done" /\ Elements(todo) = {Head(todo)}
    <3>1. Elements(candidates) \subseteq down
      BY <1>1, <1>5, <1>8, <2>2 DEF HopInv
    <3> QED BY <2>1, <3>1 DEF Leads, Up
  <2>3. CASE at' = at
    <3>1. PICK S : S = Elements(candidates)
      OBVIOUS
    <3>2. Leads(S, k) /\ Elements(candidates') = S /\ at' = "hop"
      BY <1>4, <1>8, <2>1, <2>3, <3>1
    <3> QED BY <1>2, <1>7, <3>2, AskingLeads
  <2> QED BY <1>4, <2>2, <2>3
<1>9. CASE at = "glue"
  <2>1. Leads(Elements(book[Last.ns[1]]), k)
    BY <1>6, <1>9 DEF LeadInv
  <2>2. PICK ips : ips = book[Last.ns[1]]
    OBVIOUS
  <2>3. CASE at' = "done" /\ Elements(todo) = {Head(todo)}
    <3>1. ips \in Seq(Servers)
      BY <1>1, <1>9, <2>2, BookIn DEF GlueInv
    <3>2. Elements(ips) # {}
      BY <2>1, <2>2 DEF Leads, Up
    <3>3. ips # <<>>
      BY <3>1, <3>2, ElementsIn
    <3>4. Elements(Fallback) \subseteq down
      BY <1>1, <1>5, <1>9, <2>2, <2>3, <3>3 DEF GlueInv
    <3> QED BY <1>5, <3>4 DEF Up
  <2>4. CASE at' = at
    <3>1. PICK S : S = Elements(ips)
      OBVIOUS
    <3>2. Leads(S, k) /\ Elements(book'[Last'.ns[1]]) = S /\ at' = "glue"
      BY <1>7, <1>9, <2>1, <2>2, <2>4, <3>1
    <3> QED BY <1>2, <1>7, <3>2, ResolvingLeads
  <2> QED BY <1>4, <2>3, <2>4
<1> QED BY <1>1, <1>2, <1>8, <1>9 DEF TypeOK

(* A server that leads to an answer in k hops, and has none itself,        *)
(* delegates to servers that do in one hop less.                           *)
LEMMA LedOn ==
  ASSUME NEW k \in 0 .. MaxHops - 1, NEW s \in Answering[k], ~world[s].final
  PROVE  k > 0 /\ Leads(Delegates(world[s]), k - 1)
<1>1. k # 0
  BY AnsweringIs DEF Final
<1>2. k \in 1 .. MaxHops - 1 /\ k - 1 \in 0 .. MaxHops - 1 /\ k > 0
  BY <1>1, HopAssumption
<1>3. s \in Led(Answering[k - 1])
  BY <1>2, AnsweringIs
<1>4. Up(Delegates(world[s])) # {} /\ Up(Delegates(world[s])) \subseteq Answering[k - 1]
  BY <1>3 DEF Led
<1> QED BY <1>2, <1>4 DEF Leads

LEMMA AnswerResponds ==
  ASSUME NoteInv, LeadInv, Traceable, Responds
  PROVE  LeadInv' /\ FindsAnswer'
<1>1. TypeOK /\ HopInv
  BY DEF NoteInv
<1>2. PICK s, r, D : s = Head(todo) /\ r = world[s] /\ D = Delegates(r)
  OBVIOUS
<1>3. /\ at = "hop" /\ s \notin down /\ hops' = Append(hops, s) /\ UNCHANGED external
      /\ \/ r.final /\ Stop("none")
         \/ ~r.final /\ r.ns = <<>> /\ Stop("no NS")
         \/ ~r.final /\ r.ns # <<>> /\ Glue(r) # <<>> /\ Follow(Glue(r), hops')
         \/ ~r.final /\ r.ns # <<>> /\ Glue(r) = <<>> /\ AskForAddress
  BY <1>2 DEF Responds
<1>4. PICK k : k = Left
  OBVIOUS
<1>5. Leads(Elements(candidates), k)
  BY <1>3, <1>4 DEF LeadInv
<1>6. /\ todo \in Seq(Servers) /\ todo # <<>> /\ hops \in Seq(Servers) /\ Len(hops) \in Nat
      /\ MaxHops \in Nat /\ world \in [Servers -> Replies]
  BY <1>1, HopAssumption DEF TypeOK
<1>7. s \in Servers /\ s \in Elements(todo) /\ r \in Replies
  BY <1>2, <1>6, HeadAndTail
<1>8. k \in 0 .. MaxHops - 1 /\ s \in Answering[k]
  BY <1>1, <1>3, <1>5, <1>7 DEF Leads, Up, HopInv
<1>9. /\ hops' \in Seq(Servers) /\ hops' # <<>> /\ Len(hops') = Len(hops) + 1 /\ Last' = r
  BY <1>2, <1>3, <1>6, <1>7, LastIs
<1>10. Left' = k - 1
  BY <1>4, <1>6, <1>9 DEF Left
<1>11. ~r.final => k > 0 /\ Leads(D, k - 1)
  BY <1>2, <1>8, LedOn
<1>12. CASE r.final /\ Stop("none")
  <2>1. at' = "done" /\ note' = "none"
    BY <1>12 DEF Stop
  <2> QED BY <1>9, <1>12, <2>1 DEF LeadInv, FindsAnswer
<1>13. CASE ~r.final /\ r.ns = <<>> /\ Stop("no NS")
  <2>1. D = {}
    BY <1>2, <1>13 DEF Delegates
  <2> QED BY <1>11, <1>13, <2>1 DEF Leads, Up
<1>14. CASE ~r.final /\ r.ns # <<>> /\ Glue(r) # <<>> /\ Follow(Glue(r), hops')
  <2>1. D = Elements(Glue(r))
    BY <1>2, <1>7, <1>14, DelegatesIs
  <2>2. ~Full(hops')
    <3>1. Len(hops') < MaxHops
      BY <1>4, <1>6, <1>9, <1>11, <1>14 DEF Left
    <3> QED BY <1>6, <1>9, <3>1 DEF Full
  <2>3. at' = "hop" /\ candidates' = Glue(r)
    BY <1>14, <2>2 DEF Follow
  <2>4. PICK n : n = k - 1
    OBVIOUS
  <2>5. Leads(D, n) /\ Left' = n /\ Elements(candidates') = D
    BY <1>10, <1>11, <1>14, <2>1, <2>3, <2>4
  <2> QED BY <1>3, <2>3, <2>5, AskingLeads
<1>15. CASE ~r.final /\ r.ns # <<>> /\ Glue(r) = <<>> /\ AskForAddress
  <2>1. D = Elements(book[r.ns[1]])
    BY <1>2, <1>7, <1>15, DelegatesIs
  <2>2. Fallback # <<>>
    BY ElementsIn, ServerAssumption DEF Traceable, Up
  <2>3. at' = "glue"
    BY <1>15, <2>2 DEF AskForAddress
  <2>4. PICK n : n = k - 1
    OBVIOUS
  <2>5. Leads(D, n) /\ Left' = n /\ Elements(book'[Last'.ns[1]]) = D
    BY <1>3, <1>9, <1>10, <1>11, <1>15, <2>1, <2>4 DEF external
  <2> QED BY <1>3, <2>3, <2>5, ResolvingLeads
<1> QED BY <1>3, <1>12, <1>13, <1>14, <1>15

LEMMA AnswerResolves ==
  ASSUME NoteInv, LeadInv, Traceable, Resolves
  PROVE  LeadInv' /\ FindsAnswer'
<1>1. TypeOK /\ GlueInv
  BY DEF NoteInv
<1>2. PICK ips, k, S : ips = book[Last.ns[1]] /\ k = Left /\ S = Elements(ips)
  OBVIOUS
<1>3. /\ at = "glue" /\ UNCHANGED <<hops, external>> /\ UNCHANGED external
      /\ \/ ips # <<>> /\ Follow(ips, hops)
         \/ ips = <<>> /\ NextServer("address")
  BY <1>2 DEF Resolves
<1>4. Leads(S, k)
  BY <1>2, <1>3 DEF LeadInv
<1>5. ips \in Seq(Servers)
  BY <1>1, <1>2, <1>3, BookIn DEF GlueInv
<1>6. S # {}
  BY <1>4 DEF Leads, Up
<1>7. ips # <<>> /\ Follow(ips, hops)
  BY <1>2, <1>3, <1>5, <1>6, ElementsIn
<1>8. ~Full(hops)
  <2>1. Len(hops) \in Nat /\ MaxHops \in Nat
    BY <1>1, HopAssumption DEF TypeOK
  <2>2. k \in 0 .. MaxHops - 1
    BY <1>4 DEF Leads
  <2> QED BY <1>2, <2>1, <2>2 DEF Left, Full
<1>9. at' = "hop" /\ candidates' = ips
  BY <1>7, <1>8 DEF Follow
<1>10. Left' = k /\ Elements(candidates') = S
  BY <1>2, <1>3, <1>9 DEF Left
<1> QED BY <1>3, <1>4, <1>9, <1>10, AskingLeads

LEMMA AnswerTruncated ==
  ASSUME NoteInv, LeadInv, Traceable, Truncated
  PROVE  LeadInv' /\ FindsAnswer'
<1>1. /\ at' = at /\ candidates' = candidates /\ at # "done"
      /\ UNCHANGED <<hops, external>> /\ UNCHANGED external
  BY DEF Truncated
<1>2. PICK k, C, B : k = Left /\ C = Elements(candidates) /\ B = Elements(book[Last.ns[1]])
  OBVIOUS
<1>3. Left' = k /\ Elements(candidates') = C /\ Elements(book'[Last'.ns[1]]) = B
  BY <1>1, <1>2, LastStays DEF Left
<1>4. CASE at = "hop"
  <2>1. Leads(C, k)
    BY <1>2, <1>4 DEF LeadInv
  <2> QED BY <1>1, <1>3, <1>4, <2>1, AskingLeads
<1>5. CASE at = "glue"
  <2>1. Leads(B, k)
    BY <1>2, <1>5 DEF LeadInv
  <2> QED BY <1>1, <1>3, <1>5, <2>1, ResolvingLeads
<1> QED BY <1>1, <1>4, <1>5 DEF NoteInv, TypeOK

LEMMA AnswerStays ==
  ASSUME NoteInv, LeadInv, FindsAnswer, Traceable, UNCHANGED vars
  PROVE  LeadInv' /\ FindsAnswer'
<1>1. /\ at' = at /\ candidates' = candidates /\ note' = note
      /\ UNCHANGED <<hops, external>> /\ UNCHANGED external
  BY DEF vars
<1>2. PICK k, C, B : k = Left /\ C = Elements(candidates) /\ B = Elements(book[Last.ns[1]])
  OBVIOUS
<1>3. Left' = k /\ Elements(candidates') = C /\ Elements(book'[Last'.ns[1]]) = B /\ Last' = Last
  BY <1>1, <1>2, LastStays DEF Left
<1>4. CASE at = "hop"
  <2>1. Leads(C, k)
    BY <1>2, <1>4 DEF LeadInv
  <2> QED BY <1>1, <1>3, <1>4, <2>1, AskingLeads
<1>5. CASE at = "glue"
  <2>1. Leads(B, k)
    BY <1>2, <1>5 DEF LeadInv
  <2> QED BY <1>1, <1>3, <1>5, <2>1, ResolvingLeads
<1>6. CASE at = "done"
  BY <1>1, <1>3, <1>6 DEF LeadInv, FindsAnswer
<1> QED BY <1>4, <1>5, <1>6 DEF NoteInv, TypeOK

LEMMA AnswerNext == ASSUME AnswerInv, [Next]_vars PROVE AnswerInv'
<1>1. NoteInv /\ LeadInv /\ FindsAnswer
  BY DEF AnswerInv
<1>2. NoteInv'
  BY <1>1, NoteNext
<1>3. UNCHANGED external
  BY DEF Next, Fails, Truncated, Responds, Resolves, vars
<1>4. CASE Traceable
  <2>1. LeadInv' /\ FindsAnswer'
    BY <1>1, <1>4, AnswerFails, AnswerTruncated, AnswerResponds, AnswerResolves, AnswerStays DEF Next
  <2> QED BY <1>2, <2>1 DEF AnswerInv
<1>5. CASE ~Traceable
  <2>1. ~Traceable'
    BY <1>3, <1>5, TraceableStays
  <2> QED BY <1>2, <2>1 DEF AnswerInv, LeadInv, FindsAnswer
<1> QED BY <1>4, <1>5

(* On a network that is not flaky, a name whose delegations lead from      *)
(* every root server that is up to an answer in fewer than MAX_TRACE_HOPS  *)
(* steps is traced to its answer (trace, query_first_responsive,           *)
(* resolve_ns_glue): however large the tree, whoever else is down.         *)
THEOREM AnswerFound == Spec => []FindsAnswer
<1>1. Init => AnswerInv
  BY AnswerInit
<1>2. AnswerInv /\ [Next]_vars => AnswerInv'
  BY AnswerNext
<1>3. AnswerInv => FindsAnswer
  BY DEF AnswerInv
<1> QED BY <1>1, <1>2, <1>3, PTL DEF Spec
=============================================================================
