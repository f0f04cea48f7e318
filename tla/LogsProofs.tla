------------------------------ MODULE LogsProofs ------------------------------
(***************************************************************************)
(* Proofs about the whole life of a reading, for any readings, tables,     *)
(* batches, breaks and failures.  The writer's side comes first (DBout,    *)
(* DB.py): the maintenance takes rows out of the tables of its readings,   *)
(* and the set gone stands for those it has taken so far.  The maintenance *)
(* comes next (databaseMaintenance.py), with rows inserted by anybody, and *)
(* then both together.                                                     *)
(***************************************************************************)
EXTENDS Logs, FiniteSetTheorems, TLAPS

(* flush() works on a statement; a backlog which waits has not been tried. *)
Working ==
  /\ pc \in {"execute", "commit", "alive"} => backlog # <<>>
  /\ pc \in {"off", "get", "done"} => tries = 0

(* The backlog, and then the queue, hold readings in the order of their numbers. *)
Spaced(s) == \A i, j \in DOMAIN s : i <= j => s[j] - s[i] >= j - i
Rising(q) == \A i, j \in DOMAIN q : i < j /\ q[i] # 0 /\ q[j] # 0 => q[i] < q[j]

Numbered ==
  /\ Spaced(backlog) /\ Rising(queue)
  /\ \A x \in W!ToSet(backlog), y \in W!ToSet(queue) \ {0} : x < y
  /\ \A x \in W!ToSet(backlog) \cup W!ToSet(queue) : x <= made

MemoryInv == W!TypeOK /\ Working /\ Numbered

(* A statement which failed and is not to blame met a break, and another   *)
(* one if it failed again.                                                 *)
Blameless(r, gone) == r \notin Refused \cup table \cup gone

Blamed(gone) ==
  /\ link = "stale" \/ ~up => breaks >= 1
  /\ backlog # <<>> /\ Blameless(Head(backlog), gone) =>
       /\ pc = "alive" \/ tries = 1 => breaks >= 1
       /\ tries = 1 /\ (pc = "alive" \/ link = "stale" \/ ~up) => breaks >= 2

(* A reading is in memory, stored, or given up for one of the named reasons. *)
Kept(gone) == \A r \in 1 .. made : r \in W!InMemory \cup table \cup gone \/ GivenUp(r)

WriterInv(gone) == MemoryInv /\ Blamed(gone) /\ Kept(gone)
------------------------------------------------------------------------------
(* What Append and Tail do to the queue and the backlog. *)
LEMMA AppendFacts ==
  ASSUME NEW S, NEW s \in Seq(S), NEW e \in S
  PROVE  /\ Append(s, e) \in Seq(S) /\ Len(Append(s, e)) = Len(s) + 1
         /\ Append(s, e) # <<>>
         /\ DOMAIN Append(s, e) = 1 .. Len(s) + 1
         /\ \A i \in 1 .. Len(s) : Append(s, e)[i] = s[i]
         /\ Append(s, e)[Len(s) + 1] = e
         /\ W!ToSet(Append(s, e)) = W!ToSet(s) \cup {e}
<1>1. Append(s, e) \in Seq(S) /\ Len(Append(s, e)) = Len(s) + 1 /\ Append(s, e) # <<>>
  <2>1. Append(s, e) \in Seq(S) /\ Len(Append(s, e)) = Len(s) + 1 /\ Len(s) \in Nat
    OBVIOUS
  <2>2. Append(s, e) # <<>>
    BY <2>1, Len(<<>>) = 0
  <2> QED
    BY <2>1, <2>2
<1>2. DOMAIN Append(s, e) = 1 .. Len(s) + 1 /\ DOMAIN s = 1 .. Len(s) /\ Len(s) \in Nat
  OBVIOUS
<1>3. (\A i \in 1 .. Len(s) : Append(s, e)[i] = s[i]) /\ Append(s, e)[Len(s) + 1] = e
  OBVIOUS
<1>4. W!ToSet(Append(s, e)) = W!ToSet(s) \cup {e}
  <2>1. \A x \in W!ToSet(Append(s, e)) : x \in W!ToSet(s) \cup {e}
    BY <1>2, <1>3 DEF W!ToSet
  <2>2. \A x \in W!ToSet(s) : x \in W!ToSet(Append(s, e))
    BY <1>2, <1>3 DEF W!ToSet
  <2>3. e \in W!ToSet(Append(s, e))
    BY <1>2, <1>3 DEF W!ToSet
  <2> QED
    BY <2>1, <2>2, <2>3
<1> QED
  BY <1>1, <1>2, <1>3, <1>4

LEMMA TailFacts ==
  ASSUME NEW S, NEW s \in Seq(S), s # <<>>
  PROVE  /\ Tail(s) \in Seq(S) /\ Len(Tail(s)) = Len(s) - 1 /\ Len(s) \in Nat \ {0}
         /\ DOMAIN Tail(s) = 1 .. Len(s) - 1 /\ DOMAIN s = 1 .. Len(s)
         /\ \A i \in 1 .. Len(s) - 1 : Tail(s)[i] = s[i + 1]
         /\ Head(s) = s[1] /\ Head(s) \in S
         /\ W!ToSet(s) = {Head(s)} \cup W!ToSet(Tail(s))
<1>1. Tail(s) \in Seq(S) /\ Len(Tail(s)) = Len(s) - 1 /\ Len(s) \in Nat \ {0}
  OBVIOUS
<1>2. DOMAIN Tail(s) = 1 .. Len(s) - 1 /\ DOMAIN s = 1 .. Len(s)
  BY <1>1
<1>3. (\A i \in 1 .. Len(s) - 1 : Tail(s)[i] = s[i + 1]) /\ Head(s) = s[1] /\ Head(s) \in S
  OBVIOUS
<1>4. W!ToSet(s) = {Head(s)} \cup W!ToSet(Tail(s))
  <2>1. \A x \in W!ToSet(s) : x = Head(s) \/ x \in W!ToSet(Tail(s))
    <3> SUFFICES ASSUME NEW i \in 1 .. Len(s), i # 1 PROVE s[i] \in W!ToSet(Tail(s))
      BY <1>2, <1>3 DEF W!ToSet
    <3>1. i - 1 \in 1 .. Len(s) - 1 /\ Tail(s)[i - 1] = s[i]
      BY <1>1, <1>3
    <3> QED
      BY <3>1, <1>2 DEF W!ToSet
  <2>2. \A x \in W!ToSet(Tail(s)) : x \in W!ToSet(s)
    BY <1>1, <1>2, <1>3 DEF W!ToSet
  <2>3. Head(s) \in W!ToSet(s)
    BY <1>1, <1>2, <1>3 DEF W!ToSet
  <2> QED
    BY <2>1, <2>2, <2>3
<1> QED
  BY <1>1, <1>2, <1>3, <1>4

LEMMA ReadingsAreNumbers == W!DbOutAssumption => W!Reading \subseteq Nat
BY DEF W!DbOutAssumption, W!Reading

LEMMA EmptySeq ==
  /\ <<>> \in Seq(0 .. MaxReadings) /\ <<>> \in Seq(W!Reading)
  /\ Len(<<>>) = 0 /\ DOMAIN <<>> = {}
OBVIOUS
------------------------------------------------------------------------------
LEMMA WriterInit ==
  ASSUME W!DbOutAssumption, W!Init, NEW gone
  PROVE  WriterInv(gone)
<1>1. queue \in Seq(0 .. MaxReadings) /\ backlog \in Seq(W!Reading) /\ Len(backlog) <= BacklogMax
  BY EmptySeq DEF W!Init, W!DbOutAssumption
<1>2. Numbered
  BY EmptySeq DEF W!Init, Numbered, Spaced, Rising, W!ToSet
<1>3. /\ made \in 0 .. MaxReadings /\ ended \in 0 .. made /\ breaks \in 0 .. MaxBreaks
      /\ table \in SUBSET W!Reading /\ logged \in SUBSET W!Reading /\ tries \in 0 .. 1
  BY DEF W!Init, W!DbOutAssumption
<1>4. MemoryInv
  BY <1>1, <1>2, <1>3 DEF W!Init, MemoryInv, Working, W!TypeOK
<1>5. Blamed(gone) /\ Kept(gone)
  BY DEF W!Init, Blamed, Kept
<1> QED
  BY <1>4, <1>5 DEF WriterInv

(* The process ends, with its memory: all that was put is given up. *)
LEMMA MemoryLostInv ==
  ASSUME W!DbOutAssumption, MemoryInv, W!MemoryLost, UNCHANGED <<made, up, logged, breaks>>,
         table' \in SUBSET W!Reading
  PROVE  MemoryInv' /\ backlog' = <<>> /\ link' = "none" /\ \A r \in 1 .. made' : GivenUp(r)'
<1> USE DEF W!MemoryLost
<1>1. queue' \in Seq(0 .. MaxReadings) /\ backlog' \in Seq(W!Reading) /\ Len(backlog') <= BacklogMax
  BY EmptySeq DEF W!DbOutAssumption
<1>2. Numbered'
  BY EmptySeq DEF Numbered, Spaced, Rising, W!ToSet
<1>3. /\ made' \in 0 .. MaxReadings /\ ended' \in 0 .. made' /\ breaks' \in 0 .. MaxBreaks
      /\ logged' \in SUBSET W!Reading /\ tries' \in 0 .. 1 /\ up' \in BOOLEAN
  BY DEF MemoryInv, W!TypeOK
<1>4. /\ link' \in {"none", "live", "stale"} /\ wait' \in BOOLEAN /\ last' \in BOOLEAN
      /\ pc' \in {"off", "get", "execute", "commit", "alive", "done"}
  OBVIOUS
<1>5. W!TypeOK'
  BY <1>1, <1>3, <1>4 DEF W!TypeOK
<1>6. MemoryInv'
  BY <1>2, <1>5 DEF MemoryInv, Working
<1>7. \A r \in 1 .. made' : GivenUp(r)'
  BY <1>3 DEF GivenUp
<1> QED
  BY <1>6, <1>7
------------------------------------------------------------------------------
(* The first statement of a backlog is its smallest, and gone with Tail. *)
LEMMA TailSpaced ==
  ASSUME W!DbOutAssumption, NEW s \in Seq(W!Reading), s # <<>>, Spaced(s)
  PROVE  Spaced(Tail(s)) /\ \A x \in W!ToSet(s) : Head(s) <= x
<1>1. Spaced(Tail(s))
  <2> SUFFICES ASSUME NEW i \in DOMAIN Tail(s), NEW j \in DOMAIN Tail(s), i <= j
               PROVE  Tail(s)[j] - Tail(s)[i] >= j - i
    BY DEF Spaced
  <2>1. /\ i \in 1 .. Len(s) - 1 /\ j \in 1 .. Len(s) - 1 /\ Len(s) \in Nat
        /\ i + 1 \in DOMAIN s /\ j + 1 \in DOMAIN s
        /\ Tail(s)[j] = s[j + 1] /\ Tail(s)[i] = s[i + 1]
    BY TailFacts
  <2>2. s[j + 1] - s[i + 1] >= (j + 1) - (i + 1)
    BY <2>1 DEF Spaced
  <2>3. (j + 1) - (i + 1) = j - i
    BY <2>1
  <2> QED
    BY <2>1, <2>2, <2>3
<1>2. \A x \in W!ToSet(s) : Head(s) <= x
  <2> SUFFICES ASSUME NEW i \in DOMAIN s PROVE s[1] <= s[i]
    BY TailFacts DEF W!ToSet
  <2>1. 1 \in DOMAIN s /\ i \in 1 .. Len(s) /\ s[1] \in Nat /\ s[i] \in Nat
    BY TailFacts, ReadingsAreNumbers
  <2>2. s[i] - s[1] >= i - 1
    BY <2>1 DEF Spaced
  <2> QED
    BY <2>1, <2>2
<1> QED
  BY <1>1, <1>2

LEMMA TailRising ==
  ASSUME NEW S, NEW q \in Seq(S), q # <<>>, Rising(q)
  PROVE  Rising(Tail(q)) /\ \A y \in W!ToSet(Tail(q)) \ {0} : Head(q) # 0 => Head(q) < y
<1>1. Rising(Tail(q))
  <2> SUFFICES ASSUME NEW i \in DOMAIN Tail(q), NEW j \in DOMAIN Tail(q), i < j,
                      Tail(q)[i] # 0, Tail(q)[j] # 0
               PROVE  Tail(q)[i] < Tail(q)[j]
    BY DEF Rising
  <2>1. /\ i + 1 \in DOMAIN q /\ j + 1 \in DOMAIN q /\ i + 1 < j + 1
        /\ Tail(q)[j] = q[j + 1] /\ Tail(q)[i] = q[i + 1]
    BY TailFacts
  <2> QED
    BY <2>1 DEF Rising
<1>2. ASSUME NEW j \in DOMAIN Tail(q), Tail(q)[j] # 0, Head(q) # 0
      PROVE  Head(q) < Tail(q)[j]
  <2>1. 1 \in DOMAIN q /\ j + 1 \in DOMAIN q /\ 1 < j + 1 /\ Tail(q)[j] = q[j + 1] /\ Head(q) = q[1]
    BY TailFacts
  <2> QED
    BY <1>2, <2>1 DEF Rising
<1>3. \A y \in W!ToSet(Tail(q)) \ {0} : Head(q) # 0 => Head(q) < y
  <2> SUFFICES ASSUME NEW y \in W!ToSet(Tail(q)) \ {0}, Head(q) # 0 PROVE Head(q) < y
    OBVIOUS
  <2>1. PICK j \in DOMAIN Tail(q) : y = Tail(q)[j]
    BY DEF W!ToSet
  <2> QED
    BY <1>2, <2>1
<1> QED
  BY <1>1, <1>3

(* A later reading goes behind the earlier ones. *)
LEMMA AppendSpaced ==
  ASSUME W!DbOutAssumption, NEW s \in Seq(W!Reading), Spaced(s), NEW e \in W!Reading,
         \A x \in W!ToSet(s) : x < e
  PROVE  Spaced(Append(s, e))
<1> DEFINE t == Append(s, e)
<1>1. /\ DOMAIN t = 1 .. Len(s) + 1 /\ t[Len(s) + 1] = e /\ \A i \in 1 .. Len(s) : t[i] = s[i]
      /\ Len(s) \in Nat /\ DOMAIN s = 1 .. Len(s) /\ \A i \in 1 .. Len(s) : s[i] \in Nat
      /\ e \in Nat
  BY AppendFacts, ReadingsAreNumbers
<1> HIDE DEF t
<1> SUFFICES ASSUME NEW i \in DOMAIN t, NEW j \in DOMAIN t, i <= j PROVE t[j] - t[i] >= j - i
  BY DEF Spaced, t
<1>2. CASE j \in 1 .. Len(s)
  BY <1>1, <1>2 DEF Spaced
<1>3. CASE j = Len(s) + 1 /\ i = j
  BY <1>1, <1>3
<1>4. CASE j = Len(s) + 1 /\ i # j
  <2>1. i \in 1 .. Len(s) /\ Len(s) \in 1 .. Len(s)
    BY <1>1, <1>4
  <2>2. s[Len(s)] - s[i] >= Len(s) - i
    BY <1>1, <2>1 DEF Spaced
  <2>3. s[Len(s)] < e
    BY <1>1, <2>1 DEF W!ToSet
  <2>4. s[Len(s)] \in Nat /\ s[i] \in Nat /\ t[i] = s[i] /\ t[j] = e
    BY <1>1, <1>4, <2>1
  <2> QED
    BY <1>1, <1>4, <2>1, <2>2, <2>3, <2>4
<1> QED
  BY <1>1, <1>2, <1>3, <1>4

LEMMA AppendRising ==
  ASSUME NEW q \in Seq(0 .. MaxReadings), Rising(q), NEW e \in 0 .. MaxReadings,
         e # 0 => \A y \in W!ToSet(q) : y < e
  PROVE  Rising(Append(q, e))
<1> DEFINE t == Append(q, e)
<1>1. /\ DOMAIN t = 1 .. Len(q) + 1 /\ t[Len(q) + 1] = e /\ \A i \in 1 .. Len(q) : t[i] = q[i]
      /\ Len(q) \in Nat /\ DOMAIN q = 1 .. Len(q)
  BY AppendFacts
<1> HIDE DEF t
<1> SUFFICES ASSUME NEW i \in DOMAIN t, NEW j \in DOMAIN t, i < j, t[i] # 0, t[j] # 0
             PROVE  t[i] < t[j]
  BY DEF Rising, t
<1>2. i \in 1 .. Len(q) /\ t[i] = q[i]
  BY <1>1
<1>3. CASE j \in 1 .. Len(q)
  BY <1>1, <1>2, <1>3 DEF Rising
<1>4. CASE j = Len(q) + 1
  BY <1>1, <1>2, <1>4 DEF W!ToSet
<1> QED
  BY <1>1, <1>3, <1>4
------------------------------------------------------------------------------
(* write() is done with the first statement of the backlog, and the others *)
(* keep their order.                                                       *)
LEMMA AdvanceFacts ==
  ASSUME W!DbOutAssumption, MemoryInv, backlog # <<>>, W!Advance, UNCHANGED <<made, queue>>
  PROVE  /\ backlog' \in Seq(W!Reading) /\ Len(backlog') <= BacklogMax
         /\ pc' \in {"get", "execute", "done"} /\ tries' = 0
         /\ Working' /\ Numbered'
         /\ W!ToSet(backlog) = {Head(backlog)} \cup W!ToSet(backlog')
         /\ Head(backlog) \in W!Reading /\ \A x \in W!ToSet(backlog) : Head(backlog) <= x
<1> USE DEF MemoryInv, W!TypeOK, W!Advance
<1>1. /\ backlog' \in Seq(W!Reading) /\ Len(backlog') = Len(backlog) - 1 /\ Len(backlog) \in Nat \ {0}
      /\ W!ToSet(backlog) = {Head(backlog)} \cup W!ToSet(backlog') /\ Head(backlog) \in W!Reading
  BY TailFacts
<1>2. Len(backlog') <= BacklogMax
  BY <1>1 DEF W!DbOutAssumption
<1>3. pc' \in {"get", "execute", "done"} /\ tries' = 0
  BY DEF W!Flushed
<1>4. Working'
  <2>1. CASE Len(backlog) = 1
    BY <1>3, <2>1 DEF Working, W!Flushed
  <2>2. CASE Len(backlog) # 1
    <3>1. Len(backlog') # 0
      BY <1>1, <2>2
    <3>2. backlog' # <<>>
      BY <3>1, EmptySeq
    <3> QED
      BY <1>3, <2>2, <3>2 DEF Working
  <2> QED
    BY <2>1, <2>2
<1>5. Spaced(backlog') /\ \A x \in W!ToSet(backlog) : Head(backlog) <= x
  BY TailSpaced DEF Numbered
<1>6. Numbered'
  BY <1>1, <1>5 DEF Numbered
<1> QED
  BY <1>1, <1>2, <1>3, <1>4, <1>5, <1>6

(* A reading which is taken goes behind those which wait; the one which    *)
(* does not fit is the oldest, and BACKLOG_MAX readings came after it.     *)
LEMMA TakeFacts ==
  ASSUME W!DbOutAssumption, MemoryInv, W!Take
  PROVE  /\ backlog' \in Seq(W!Reading) /\ Len(backlog') <= BacklogMax /\ backlog' # <<>>
         /\ queue' \in Seq(0 .. MaxReadings)
         /\ Numbered'
         /\ \A x \in W!InMemory : x \in W!InMemory' \/ x + BacklogMax <= made
<1> USE DEF MemoryInv, W!TypeOK
<1> DEFINE h == Head(queue)
           pushed == Append(backlog, h)
<1>1. /\ queue' = Tail(queue) /\ queue # <<>> /\ h # 0 /\ backlog' = W!Held(pushed)
      /\ made' = made /\ made \in Nat
  BY DEF W!Take
<1>2. /\ queue' \in Seq(0 .. MaxReadings) /\ h \in 0 .. MaxReadings
      /\ W!ToSet(queue) = {h} \cup W!ToSet(queue')
  BY <1>1, TailFacts
<1>3. h \in W!Reading /\ h \in Nat
  BY <1>1, <1>2 DEF W!Reading, W!DbOutAssumption
<1>4. Rising(queue') /\ \A y \in W!ToSet(queue') \ {0} : h < y
  BY <1>1, TailRising DEF Numbered
<1>5. \A x \in W!ToSet(backlog) : x < h
  BY <1>1, <1>2 DEF Numbered
<1>6. /\ Spaced(pushed) /\ pushed \in Seq(W!Reading) /\ Len(pushed) = Len(backlog) + 1
      /\ pushed # <<>> /\ W!ToSet(pushed) = W!ToSet(backlog) \cup {h}
      /\ Len(backlog) \in Nat
  BY <1>3, <1>5, AppendSpaced, AppendFacts DEF Numbered
<1>7. pushed[1] \in Nat /\ pushed[Len(pushed)] = h /\ pushed[Len(pushed)] - pushed[1] >= Len(pushed) - 1
  <2>1. 1 \in DOMAIN pushed /\ Len(pushed) \in DOMAIN pushed /\ 1 <= Len(pushed)
    BY <1>6
  <2>2. pushed[1] \in W!Reading
    BY <1>6, <2>1
  <2>3. pushed[Len(pushed)] = h
    BY <1>3, <1>6, AppendFacts
  <2> HIDE DEF pushed
  <2> QED
    BY <1>6, <2>1, <2>2, <2>3, ReadingsAreNumbers DEF Spaced
<1>8. h <= made
  BY <1>2 DEF Numbered
<1>9. /\ W!Held(pushed) \in Seq(W!Reading) /\ Len(W!Held(pushed)) <= BacklogMax /\ W!Held(pushed) # <<>>
      /\ Spaced(W!Held(pushed)) /\ W!ToSet(W!Held(pushed)) \subseteq W!ToSet(pushed)
      /\ \A x \in W!ToSet(pushed) : x \in W!ToSet(W!Held(pushed)) \/ x + BacklogMax <= made
  <2> HIDE DEF pushed, h
  <2>1. CASE Len(pushed) > BacklogMax
    <3>1. W!Held(pushed) = Tail(pushed)
      BY <2>1 DEF W!Held
    <3>2. /\ Tail(pushed) \in Seq(W!Reading) /\ Len(Tail(pushed)) = Len(pushed) - 1
          /\ W!ToSet(pushed) = {pushed[1]} \cup W!ToSet(Tail(pushed))
      BY <1>6, TailFacts
    <3>3. Spaced(Tail(pushed))
      BY <1>6, TailSpaced
    <3>4. Len(Tail(pushed)) <= BacklogMax /\ Len(Tail(pushed)) # 0
      BY <1>6, <2>1, <3>2 DEF W!DbOutAssumption
    <3>5. Tail(pushed) # <<>>
      BY <3>4, EmptySeq
    <3>6. pushed[1] + BacklogMax <= made
      BY <1>1, <1>3, <1>6, <1>7, <1>8, <2>1 DEF W!DbOutAssumption
    <3> QED
      BY <3>1, <3>2, <3>3, <3>4, <3>5, <3>6
  <2>2. CASE ~ (Len(pushed) > BacklogMax)
    <3>1. W!Held(pushed) = pushed
      BY <2>2 DEF W!Held
    <3> QED
      BY <1>6, <2>2, <3>1 DEF W!DbOutAssumption
  <2> QED
    BY <2>1, <2>2
<1>10. Numbered'
  <2> HIDE DEF pushed, h
  <2>1. \A x \in W!ToSet(pushed), y \in W!ToSet(queue') \ {0} : x < y
    <3>1. \A x \in W!ToSet(backlog), y \in W!ToSet(queue') \ {0} : x < y
      BY <1>2 DEF Numbered
    <3> QED
      BY <1>4, <1>6, <3>1
  <2>2. \A x \in W!ToSet(pushed) \cup W!ToSet(queue') : x <= made
    BY <1>2, <1>6, <1>8 DEF Numbered
  <2> QED
    BY <1>1, <1>4, <1>9, <2>1, <2>2 DEF Numbered
<1>11. \A x \in W!InMemory : x \in W!InMemory' \/ x + BacklogMax <= made
  <2> HIDE DEF pushed, h
  <2> QED
    BY <1>1, <1>2, <1>6, <1>9 DEF W!InMemory, W!Queued
<1> QED
  BY <1>1, <1>2, <1>9, <1>10, <1>11
------------------------------------------------------------------------------
(* What a step leaves of the memory where it touches neither queue nor backlog. *)
LEMMA SameLists ==
  ASSUME MemoryInv, UNCHANGED <<made, queue, backlog>>
  PROVE  /\ queue' \in Seq(0 .. MaxReadings) /\ backlog' \in Seq(W!Reading)
         /\ Len(backlog') <= BacklogMax /\ Numbered'
BY DEF MemoryInv, W!TypeOK, Numbered

LEMMA ElementsTyped ==
  ASSUME NEW S, NEW s \in Seq(S)
  PROVE  W!ToSet(s) \subseteq S
BY DEF W!ToSet

(* A poll, or the None: put at the end of the queue. *)
LEMMA PutFacts ==
  ASSUME W!DbOutAssumption, MemoryInv, W!Poll \/ W!Shutdown
  PROVE  /\ queue' \in Seq(0 .. MaxReadings) /\ Numbered' /\ UNCHANGED backlog
         /\ made' \in 0 .. MaxReadings /\ made <= made'
         /\ W!InMemory \subseteq W!InMemory'
         /\ \A r \in 1 .. made' : r \in 1 .. made \/ r \in W!InMemory'
<1> USE DEF MemoryInv, W!TypeOK
<1>1. PICK e \in 0 .. MaxReadings :
        /\ queue' = Append(queue, e) /\ UNCHANGED backlog
        /\ made' \in 0 .. MaxReadings /\ made <= made' /\ e <= made'
        /\ \A r \in 1 .. made' : r \in 1 .. made \/ (r = e /\ e # 0)
        /\ e # 0 => made < e
  <2>1. CASE W!Poll
    <3>1. made + 1 \in 0 .. MaxReadings
      BY <2>1 DEF W!Poll, W!DbOutAssumption
    <3> QED
      BY <2>1, <3>1 DEF W!Poll
  <2>2. CASE W!Shutdown
    <3>1. 0 \in 0 .. MaxReadings
      BY DEF W!DbOutAssumption
    <3> QED
      BY <2>2, <3>1 DEF W!Shutdown
  <2> QED
    BY <2>1, <2>2
<1>2. queue' \in Seq(0 .. MaxReadings) /\ W!ToSet(queue') = W!ToSet(queue) \cup {e}
  <2> DEFINE S == 0 .. MaxReadings
  <2>1. queue \in Seq(S) /\ e \in S
    OBVIOUS
  <2> HIDE DEF S
  <2>2. Append(queue, e) \in Seq(S) /\ W!ToSet(Append(queue, e)) = W!ToSet(queue) \cup {e}
    BY <2>1, AppendFacts
  <2> USE DEF S
  <2> QED
    BY <1>1, <2>2
<1>3. \A x \in W!ToSet(queue) \cup W!ToSet(backlog) : x \in Int /\ x <= made
  <2>1. W!ToSet(queue) \subseteq 0 .. MaxReadings /\ W!ToSet(backlog) \subseteq W!Reading
    BY ElementsTyped
  <2> QED
    BY <2>1, ReadingsAreNumbers DEF Numbered, W!DbOutAssumption
<1>4. e # 0 => \A y \in W!ToSet(queue) \cup W!ToSet(backlog) : y < e
  BY <1>1, <1>3
<1>5. Rising(queue')
  BY <1>1, <1>4, AppendRising DEF Numbered
<1>6. \A x \in W!ToSet(backlog) \cup W!ToSet(queue') : x <= made'
  BY <1>1, <1>2, <1>3
<1>7. Numbered'
  BY <1>1, <1>2, <1>4, <1>5, <1>6 DEF Numbered
<1>8. W!InMemory \subseteq W!InMemory' /\ \A r \in 1 .. made' : r \in 1 .. made \/ r \in W!InMemory'
  BY <1>1, <1>2 DEF W!InMemory, W!Queued
<1> QED
  BY <1>1, <1>2, <1>7, <1>8

(* A None taken from the queue. *)
LEMMA TakeStopFacts ==
  ASSUME MemoryInv, W!TakeStop
  PROVE  /\ queue' \in Seq(0 .. MaxReadings) /\ Numbered' /\ UNCHANGED backlog
         /\ W!InMemory' = W!InMemory
<1> USE DEF MemoryInv, W!TypeOK
<1>1. /\ queue' = Tail(queue) /\ queue # <<>> /\ Head(queue) = 0 /\ UNCHANGED <<backlog, made>>
  BY DEF W!TakeStop
<1>2. queue' \in Seq(0 .. MaxReadings) /\ W!ToSet(queue) = {0} \cup W!ToSet(queue')
  BY <1>1, TailFacts
<1>3. Rising(queue')
  BY <1>1, TailRising DEF Numbered
<1> QED
  BY <1>1, <1>2, <1>3 DEF Numbered, W!InMemory, W!Queued

LEMMA MemoryStep ==
  ASSUME W!DbOutAssumption, MemoryInv, [W!Next]_(W!vars)
  PROVE  MemoryInv'
<1> USE DEF MemoryInv, W!TypeOK, W!DbOutAssumption
<1>1. CASE W!Start \/ W!DatabaseUp
  BY <1>1, SameLists DEF W!Start, W!DatabaseUp, W!memory, Working
<1>2. CASE W!Poll
  BY <1>2, PutFacts DEF W!Poll, Working
<1>3. CASE W!Shutdown
  BY <1>3, PutFacts DEF W!Shutdown, Working
<1>4. CASE W!Exit
  BY <1>4, MemoryLostInv DEF W!Exit
<1>5. CASE W!DatabaseDown
  <2>1. breaks' \in 0 .. MaxBreaks
    BY <1>5 DEF W!DatabaseDown
  <2>2. link' \in {"none", "live", "stale"}
    <3>1. link' = link \/ link' = "stale"
      BY <1>5 DEF W!DatabaseDown
    <3> QED
      BY <3>1
  <2> QED
    BY <1>5, <2>1, <2>2, SameLists DEF W!DatabaseDown, Working
<1>6. CASE W!Take
  BY <1>6, TakeFacts DEF W!Take, Working
<1>7. CASE W!Retry
  BY <1>7, SameLists DEF W!Retry, Working
<1>8. CASE W!TakeStop
  BY <1>8, TakeStopFacts DEF W!TakeStop, Working
<1>9. CASE W!Execute
  BY <1>9, SameLists DEF W!Execute, Working
<1>10. CASE W!Commit
  <2>1. backlog # <<>>
    BY <1>10 DEF W!Commit, Working
  <2> QED
    BY <1>10, <2>1, AdvanceFacts DEF W!Commit
<1>11. CASE W!CommitFailed
  <2>1. backlog # <<>>
    BY <1>11 DEF W!CommitFailed, Working
  <2>2. Head(backlog) \in W!Reading
    BY <2>1, TailFacts
  <2>3. table' \in SUBSET W!Reading /\ breaks' \in 0 .. MaxBreaks
    BY <1>11, <2>2 DEF W!CommitFailed
  <2> QED
    BY <1>11, <2>1, <2>3, SameLists DEF W!CommitFailed, Working
<1>12. CASE W!Unreachable
  BY <1>12, SameLists DEF W!Unreachable, W!Flushed, Working
<1>13. CASE W!TryAgain
  BY <1>13, SameLists DEF W!TryAgain, Working
<1>14. CASE W!Drop
  <2>1. backlog # <<>>
    BY <1>14 DEF W!Drop, Working
  <2> QED
    BY <1>14, <2>1, AdvanceFacts DEF W!Drop
<1>15. CASE UNCHANGED W!vars
  BY <1>15, SameLists DEF W!vars, W!memory, Working
<1> QED
  BY <1>1, <1>2, <1>3, <1>4, <1>5, <1>6, <1>7, <1>8, <1>9, <1>10, <1>11, <1>12, <1>13, <1>14, <1>15
     DEF W!Next, W!Writer
------------------------------------------------------------------------------
(* Each failure of a statement which is not to blame met a break of its own. *)
LEMMA BlamedStep ==
  ASSUME W!DbOutAssumption, MemoryInv, NEW gone, Blamed(gone), [W!Next]_(W!vars)
  PROVE  Blamed(gone)'
<1> DEFINE Blameless1 == Blameless(Head(backlog), gone)
<1>0. breaks \in Nat /\ tries \in {0, 1}
  BY DEF MemoryInv, W!TypeOK, W!DbOutAssumption
<1> USE DEF Blamed, Blameless
<1>1. CASE W!Start \/ W!DatabaseUp \/ W!Poll \/ W!Shutdown \/ W!Retry \/ UNCHANGED W!vars
  BY <1>1 DEF W!Start, W!DatabaseUp, W!Poll, W!Shutdown, W!Retry, W!vars, W!memory
<1>2. CASE W!Exit
  BY <1>2 DEF W!Exit, W!MemoryLost
<1>3. CASE W!DatabaseDown
  <2>1. UNCHANGED <<backlog, table, pc, tries>> /\ breaks' = breaks + 1
    BY <1>3 DEF W!DatabaseDown
  <2> QED
    BY <1>0, <2>1
<1>4. CASE W!Take
  <2>1. pc' # "alive" /\ tries' = 0 /\ UNCHANGED <<link, up, breaks>>
    BY <1>4 DEF W!Take, MemoryInv, Working
  <2> QED
    BY <2>1
<1>5. CASE W!TakeStop
  BY <1>5 DEF W!TakeStop, MemoryInv, Working
<1>6. CASE W!Execute
  <2>1. UNCHANGED <<backlog, table, tries, up, breaks>> /\ pc = "execute"
    BY <1>6 DEF W!Execute
  <2>2. link' = "stale" => link = "stale"
    BY <1>6 DEF W!Execute
  <2>3. pc' = "alive" /\ backlog # <<>> /\ Blameless1 => ~up \/ link = "stale"
    BY <1>6 DEF W!Execute
  <2>4. pc' \in {"alive", "commit"}
    BY <1>6 DEF W!Execute
  <2> QED
    BY <1>0, <2>1, <2>2, <2>3, <2>4
<1>7. CASE W!Commit \/ W!Drop
  <2>1. backlog # <<>>
    BY <1>7 DEF W!Commit, W!Drop, MemoryInv, Working
  <2>2. W!Advance /\ UNCHANGED <<made, queue, up, breaks>>
    BY <1>7 DEF W!Commit, W!Drop
  <2>3. pc' # "alive" /\ tries' = 0
    BY <2>1, <2>2, AdvanceFacts
  <2>4. link' = "stale" => link = "stale"
    BY <1>7 DEF W!Commit, W!Drop
  <2> QED
    BY <2>2, <2>3, <2>4
<1>8. CASE W!CommitFailed
  <2>1. /\ UNCHANGED <<backlog, tries, up>> /\ table \subseteq table'
        /\ (link = "stale" /\ breaks' = breaks) \/ (link = "live" /\ breaks' = breaks + 1)
    BY <1>8 DEF W!CommitFailed
  <2> QED
    BY <1>0, <2>1
<1>9. CASE W!Unreachable
  BY <1>9 DEF W!Unreachable, W!Flushed
<1>10. CASE W!TryAgain
  BY <1>10 DEF W!TryAgain
<1> QED
  BY <1>1, <1>2, <1>3, <1>4, <1>5, <1>6, <1>7, <1>8, <1>9, <1>10 DEF W!Next, W!Writer

(* A reason for which a reading was given up stays one. *)
LEMMA LostStays ==
  ASSUME W!DbOutAssumption, MemoryInv, [W!Next]_(W!vars), NEW r \in Nat, GivenUp(r)
  PROVE  GivenUp(r)'
<1>1. /\ made \in Nat /\ made' \in Nat /\ ended \in Nat /\ breaks \in Nat /\ ended <= made
      /\ BacklogMax \in Nat
  BY MemoryStep DEF MemoryInv, W!TypeOK, W!DbOutAssumption
<1>2. /\ made' = made \/ made' = made + 1
      /\ ended' = ended \/ ended' = made
      /\ breaks' = breaks \/ breaks' = breaks + 1
      /\ logged \subseteq logged'
  BY DEF W!Next, W!Writer, W!vars, W!memory, W!Start, W!Poll, W!Shutdown, W!Exit, W!MemoryLost,
         W!DatabaseDown, W!DatabaseUp,
         W!Take, W!Retry, W!TakeStop, W!Execute, W!Commit, W!CommitFailed, W!Unreachable, W!TryAgain,
         W!Drop
<1> QED
  BY <1>1, <1>2 DEF GivenUp

LEMMA KeptStep ==
  ASSUME W!DbOutAssumption, NEW gone, WriterInv(gone), [W!Next]_(W!vars)
  PROVE  Kept(gone)'
<1> SUFFICES ASSUME NEW r \in 1 .. made', ~ GivenUp(r)'
             PROVE  r \in W!InMemory' \cup table' \cup gone
  BY DEF Kept
<1>0. MemoryInv /\ Blamed(gone) /\ Kept(gone) /\ made \in Nat /\ made' \in Nat /\ breaks \in Nat
  BY MemoryStep DEF WriterInv, MemoryInv, W!TypeOK, W!DbOutAssumption
<1>1. CASE W!Poll \/ W!Shutdown
  <2>1. /\ W!InMemory \subseteq W!InMemory' /\ UNCHANGED table
        /\ r \in 1 .. made \/ r \in W!InMemory'
    BY <1>0, <1>1, PutFacts DEF W!Poll, W!Shutdown
  <2>2. r \in 1 .. made => ~ GivenUp(r)
    BY <1>0, LostStays
  <2> QED
    BY <1>0, <2>1, <2>2 DEF Kept
<1>3. ASSUME made' = made PROVE r \in W!InMemory \cup table \cup gone
  BY <1>0, <1>3, LostStays DEF Kept
<1>4. CASE W!Exit
  <2>1. r <= ended'
    BY <1>0, <1>4 DEF W!Exit, W!MemoryLost
  <2> QED
    BY <2>1 DEF GivenUp
<1>5. CASE W!Take
  <2>1. ~ (r + BacklogMax <= made)
    BY <1>5 DEF GivenUp, W!Take
  <2> QED
    BY <1>0, <1>3, <1>5, <2>1, TakeFacts DEF W!Take
<1>6. CASE W!TakeStop
  BY <1>0, <1>3, <1>6, TakeStopFacts DEF W!TakeStop
<1>7. CASE W!Commit \/ W!Drop
  <2>1. backlog # <<>> /\ W!Advance /\ UNCHANGED <<made, queue>>
    BY <1>0, <1>7 DEF W!Commit, W!Drop, MemoryInv, Working
  <2>2. r \in W!InMemory \cup table \cup gone
    BY <1>3, <2>1
  <2>3. W!ToSet(backlog) = {Head(backlog)} \cup W!ToSet(backlog') /\ W!Queued' = W!Queued
    BY <1>0, <2>1, AdvanceFacts DEF W!Queued
  <2>4. CASE r = Head(backlog) /\ W!Commit
    BY <2>4 DEF W!Commit
  <2>5. CASE r = Head(backlog) /\ W!Drop
    <3>1. pc = "alive" /\ tries = 1 /\ r \in logged' /\ UNCHANGED <<table, breaks>>
      BY <2>5 DEF W!Drop
    <3>2. Blameless(r, gone) => breaks >= 2
      BY <1>0, <2>1, <2>5, <3>1 DEF Blamed
    <3>3. ~ Blameless(r, gone)
      BY <3>1, <3>2 DEF GivenUp
    <3>4. r \notin Refused
      BY <3>1 DEF GivenUp
    <3> QED
      BY <3>1, <3>3, <3>4 DEF Blameless
  <2>6. CASE r # Head(backlog)
    <3>1. table \subseteq table'
      BY <1>7 DEF W!Commit, W!Drop
    <3> QED
      BY <2>2, <2>3, <2>6, <3>1 DEF W!InMemory
  <2> QED
    BY <1>7, <2>4, <2>5, <2>6
<1>8. CASE \/ W!Start \/ W!DatabaseDown \/ W!DatabaseUp \/ W!Retry \/ W!Execute \/ W!CommitFailed
           \/ W!Unreachable \/ W!TryAgain \/ UNCHANGED W!vars
  <2>1. UNCHANGED <<queue, backlog, made>> /\ table \subseteq table'
    BY <1>8 DEF W!Start, W!DatabaseDown, W!DatabaseUp, W!Retry, W!Execute, W!CommitFailed,
         W!Unreachable, W!TryAgain,
               W!vars, W!memory
  <2>2. r \in W!InMemory \cup table \cup gone
    BY <1>3, <2>1
  <2> QED
    BY <2>1, <2>2 DEF W!InMemory, W!Queued
<1> QED
  BY <1>1, <1>4, <1>5, <1>6, <1>7, <1>8 DEF W!Next, W!Writer

LEMMA WriterStep ==
  ASSUME W!DbOutAssumption, NEW gone, WriterInv(gone), [W!Next]_(W!vars)
  PROVE  WriterInv(gone)'
BY MemoryStep, BlamedStep, KeptStep DEF WriterInv

(* What reaches the table is the first statement of the backlog, so that   *)
(* nothing put before it is still on its way.                              *)
LEMMA InOrderStep ==
  ASSUME W!DbOutAssumption, NEW gone, WriterInv(gone), [W!Next]_(W!vars), NEW r \in table' \ table,
         NEW q \in 1 .. r - 1
  PROVE  q \in table \cup gone \/ GivenUp(q)'
<1>1. /\ MemoryInv /\ Kept(gone) /\ made \in Nat /\ table \subseteq Nat
      /\ W!ToSet(backlog) \subseteq W!Reading
  BY ReadingsAreNumbers, ElementsTyped DEF WriterInv, MemoryInv, W!TypeOK, W!DbOutAssumption
<1>2. pc = "commit" /\ r = Head(backlog)
  BY DEF W!Next, W!Writer, W!vars, W!memory, W!Start, W!Poll, W!Shutdown, W!Exit, W!MemoryLost,
         W!DatabaseDown, W!DatabaseUp,
         W!Take, W!Retry, W!TakeStop, W!Execute, W!Commit, W!CommitFailed, W!Unreachable, W!TryAgain,
         W!Drop
<1>3. backlog # <<>> /\ Spaced(backlog)
  BY <1>1, <1>2 DEF MemoryInv, Working, Numbered
<1>4. /\ Head(backlog) \in W!ToSet(backlog) /\ Head(backlog) \in W!Reading
      /\ \A x \in W!ToSet(backlog) : r <= x
  BY <1>1, <1>2, <1>3, TailFacts, TailSpaced DEF MemoryInv, W!TypeOK
<1>5. r \in Nat /\ r <= made
  BY <1>1, <1>2, <1>4, ReadingsAreNumbers DEF MemoryInv, Numbered
<1>6. q \in 1 .. made /\ q < r /\ q \in Nat
  BY <1>1, <1>5
<1>7. q \notin W!InMemory
  <2>1. q \notin W!ToSet(backlog)
    BY <1>1, <1>4, <1>5, <1>6, ReadingsAreNumbers
  <2>2. \A y \in W!Queued : r < y
    BY <1>1, <1>2, <1>4 DEF MemoryInv, Numbered, W!Queued
  <2>3. q \notin W!Queued
    BY <1>5, <1>6, <2>2
  <2> QED
    BY <2>1, <2>3 DEF W!InMemory
<1> QED
  BY <1>1, <1>6, <1>7, LostStays DEF Kept

(* The reader only moves rows from the table to those which are gone.      *)
LEMMA GoneGrows ==
  ASSUME W!DbOutAssumption, NEW gone, NEW more, WriterInv(gone),
         UNCHANGED <<made, W!memory, up, logged, ended, breaks>>,
         table' \subseteq W!Reading, table \cup gone \subseteq table' \cup more
  PROVE  WriterInv(more)'
<1>1. MemoryInv'
  BY DEF WriterInv, MemoryInv, W!TypeOK, Working, Numbered, W!memory
<1>2. Blamed(more)'
  BY DEF WriterInv, Blamed, Blameless, W!memory
<1>3. Kept(more)'
  BY DEF WriterInv, Kept, W!InMemory, W!Queued, GivenUp, W!memory
<1> QED
  BY <1>1, <1>2, <1>3 DEF WriterInv

(* The same while the process ends. *)
LEMMA AllLost ==
  ASSUME W!DbOutAssumption, NEW gone, NEW more, WriterInv(gone),
         W!MemoryLost, UNCHANGED <<made, up, logged, breaks>>, table' \in SUBSET W!Reading
  PROVE  WriterInv(more)'
<1>1. MemoryInv' /\ backlog' = <<>> /\ link' = "none" /\ \A r \in 1 .. made' : GivenUp(r)'
  BY MemoryLostInv DEF WriterInv
<1>2. Blamed(more)'
  BY <1>1 DEF WriterInv, Blamed
<1> QED
  BY <1>1, <1>2 DEF WriterInv, Kept
------------------------------------------------------------------------------
(***************************************************************************)
(* The maintenance's side (databaseMaintenance.py), for any rows, tables,  *)
(* batches and failures, with rows inserted by anybody at any time.        *)
(***************************************************************************)
(* Where a batch is on its way. *)
Policed == mpc \notin {"idle", "batch"} => policy <= Len(Policies)

Copied ==
  /\ mpc \in {"sync", "rename"} => tmp.rows \subseteq batch
  /\ mpc = "rename" => tmp.synced

(* The file which holds the whole batch; it is durable before the DELETE. *)
Filed ==
  mpc \in {"syncdir", "delete", "commit"} =>
    \E f \in file : f.rows = batch /\ f.synced /\ (mpc # "syncdir" => f.entry)

JobInv == M!TypeOK /\ Policed /\ Copied /\ Filed /\ M!DeletedAreArchived
------------------------------------------------------------------------------
(* Maintenance has its own copies of the operators on sets. *)
LEMMA SameSets ==
  ASSUME NEW S
  PROVE  (M!IsFiniteSet(S) <=> IsFiniteSet(S)) /\ M!Cardinality(S) = Cardinality(S)
BY DEF M!IsFiniteSet, IsFiniteSet, M!Cardinality, Cardinality

(* Rows are finite, so batches can be counted. *)
LEMMA BatchFinite ==
  ASSUME M!MaintenanceAssumption, M!TypeOK
  PROVE  M!IsFiniteSet(batch) /\ M!Cardinality(batch) \in Nat
<1>1. IsFiniteSet(batch)
  BY SameSets, FS_Subset DEF M!MaintenanceAssumption, M!TypeOK
<1> QED
  BY <1>1, SameSets, FS_CardinalityType

LEMMA SomePolicies ==
  ASSUME M!MaintenanceAssumption
  PROVE  Len(Policies) \in Nat
BY DEF M!MaintenanceAssumption

LEMMA SecondIs ==
  ASSUME M!MaintenanceAssumption, NEW r \in Row
  PROVE  M!Second(r) \in Nat
<1>1. TimeOf[r] \in Nat /\ PerSecond \in Nat \ {0}
  BY DEF M!MaintenanceAssumption
<1>2. \A a \in Nat, b \in Nat \ {0} : a \div b \in Nat
  OBVIOUS
<1> QED
  BY <1>1, <1>2 DEF M!Second

(* A file name is one of those which the type allows. *)
LEMMA NamesTyped ==
  ASSUME M!MaintenanceAssumption, M!TypeOK, policy <= Len(Policies)
  PROVE  M!Names \subseteq M!Name
<1> SUFFICES ASSUME NEW name \in M!Names PROVE name \in M!Name
  OBVIOUS
<1>1. \A r \in batch : M!Second(r) \in Nat
  BY SecondIs DEF M!TypeOK
<1>2. Policies[policy] \in M!ToSet(Policies)
  BY DEF M!ToSet, M!TypeOK, M!MaintenanceAssumption
<1>3. \A n \in 0 .. M!Cardinality(file) : n \in Nat
  OBVIOUS
<1> QED
  BY <1>1, <1>2, <1>3 DEF M!Names, M!Name
------------------------------------------------------------------------------
LEMMA JobTypes ==
  ASSUME M!MaintenanceAssumption, M!TypeOK, Policed, [M!Next]_M!vars
  PROVE  M!TypeOK' /\ Policed'
<1> USE SomePolicies DEF M!TypeOK, Policed
<1>a. ASSUME UNCHANGED <<now, table, file, trouble, deleted>>, policy <= Len(Policies), M!NextTable
      PROVE  M!TypeOK' /\ Policed'
  BY <1>a DEF M!NextTable, M!NoFile
<1>b. ASSUME UNCHANGED <<now, table, file, trouble, deleted>>, M!Idle
      PROVE  M!TypeOK' /\ Policed'
  BY <1>b DEF M!Idle, M!NoFile
<1>c. ASSUME trouble' \in Nat, M!RolledBack, UNCHANGED now, file' \in SUBSET M!File,
             M!Idle \/ (M!NextTable /\ policy <= Len(Policies))
      PROVE  M!TypeOK' /\ Policed'
  <2>1. table' \in SUBSET Row /\ deleted' \in SUBSET Row
    BY <1>c DEF M!RolledBack, M!Deleted
  <2>2. CASE M!Idle
    <3>1. 1 \in 1 .. Len(Policies) + 1
      OBVIOUS
    <3> QED
      BY <1>c, <2>1, <2>2, <3>1 DEF M!Idle, M!NoFile
  <2>3. CASE M!NextTable /\ policy <= Len(Policies)
    BY <1>c, <2>1, <2>3 DEF M!NextTable, M!NoFile
  <2> QED
    BY <1>c, <2>2, <2>3
<1>1. CASE M!Tick \/ M!Begin
  BY <1>1 DEF M!Tick, M!Begin, M!job, M!MaintenanceAssumption
<1>j. CASE M!NextBatch
  <2>1. batch' \in SUBSET Row
    BY <1>j DEF M!NextBatch, M!Oldest, M!Expired
  <2> QED
    BY <1>j, <2>1 DEF M!NextBatch
<1>k. CASE M!NoMore \/ M!Finish \/ M!Mismatch
  BY <1>k, <1>a, <1>b DEF M!NoMore, M!Finish, M!Mismatch
<1>2. ASSUME NEW r \in Row, M!Insert(r) PROVE M!TypeOK' /\ Policed'
  BY <1>2 DEF M!Insert, M!job
<1>3. CASE M!Sync \/ M!Delete
  BY <1>3 DEF M!Sync, M!Delete
<1>l. CASE M!Copy
  <2>1. tmp' \in [rows : SUBSET Row, synced : BOOLEAN]
    <3>1. CASE tmp' = [rows |-> batch, synced |-> FALSE]
      BY <3>1
    <3>2. CASE tmp' \in [rows : SUBSET batch, synced : {FALSE}]
      BY <3>2
    <3>3. \/ tmp' = [rows |-> batch, synced |-> FALSE]
          \/ tmp' \in [rows : SUBSET batch, synced : {FALSE}]
      BY <1>l DEF M!Copy
    <3> HIDE DEF M!TypeOK
    <3> QED
      BY <3>1, <3>2, <3>3
  <2>2. trouble' = trouble \/ trouble' = trouble + 1
    <3> HIDE DEF M!TypeOK
    <3> QED
      BY <1>l DEF M!Copy, M!Trouble
  <2>3. /\ mpc' = "sync" /\ mpc = "copy"
        /\ UNCHANGED <<now, table, file, policy, total, batch, deleted>>
    BY <1>l DEF M!Copy
  <2> QED
    BY <2>1, <2>2, <2>3
<1>4. CASE M!Rename
  <2>1. PICK name \in M!Names :
          file' = {f \in file : f.name # name} \cup
                  {[name |-> name, rows |-> tmp.rows, synced |-> tmp.synced, entry |-> FALSE]}
    BY <1>4 DEF M!Rename
  <2>2. name \in M!Name
    BY <1>4, <2>1, NamesTyped DEF M!Rename
  <2>3. [name |-> name, rows |-> tmp.rows, synced |-> tmp.synced, entry |-> FALSE] \in M!File
    BY <2>2 DEF M!File
  <2>4. file' \in SUBSET M!File
    BY <2>1, <2>3
  <2> QED
    BY <1>4, <2>4 DEF M!Rename
<1>5. CASE M!SyncDir
  <2>1. file' = {[f EXCEPT !.entry = TRUE] : f \in file}
    BY <1>5 DEF M!SyncDir
  <2>2. \A f \in M!File : [f EXCEPT !.entry = TRUE] \in M!File
    BY DEF M!File
  <2>3. file' \in SUBSET M!File
    BY <2>1, <2>2
  <2> QED
    BY <1>5, <2>3 DEF M!SyncDir
<1>6. CASE M!Commit
  <2>1. table' \in SUBSET Row /\ deleted' \in SUBSET Row
    BY <1>6 DEF M!Commit, M!Deleted
  <2>2. CASE M!NextTable
    BY <1>6, <2>1, <2>2 DEF M!Commit, M!NextTable, M!NoFile
  <2>3. CASE /\ total' = total + M!Cardinality(batch)
             /\ mpc' = "batch" /\ batch' = {} /\ tmp' = M!NoFile
             /\ UNCHANGED policy
    BY <1>6, <2>1, <2>3, BatchFinite DEF M!Commit, M!NoFile
  <2> QED
    BY <1>6, <2>2, <2>3 DEF M!Commit
<1>7. CASE M!Fail \/ M!Kill
  BY <1>7, <1>c DEF M!Fail, M!Kill, M!Trouble
<1>8. CASE M!PowerCut
  <2>1. file' \in SUBSET M!File
    <3>1. \A f \in M!File : M!Survives(f) \in M!File
      BY DEF M!Survives, M!File
    <3> QED
      BY <1>8, <3>1 DEF M!PowerCut
  <2> QED
    BY <1>8, <1>c, <2>1 DEF M!PowerCut
<1>9. CASE UNCHANGED M!vars
  BY <1>9 DEF M!vars, M!job
<1> QED
  BY <1>1, <1>j, <1>k, <1>l, <1>2, <1>3, <1>4, <1>5, <1>6, <1>7, <1>8, <1>9 DEF M!Next, M!Step
------------------------------------------------------------------------------
(* A durable file outlives the power, and no step renames another over it. *)
LEMMA DurableStays ==
  ASSUME M!TypeOK, [M!Next]_M!vars, NEW f \in file, M!Durable(f)
  PROVE  f \in file'
<1>1. CASE M!Rename
  <2>1. PICK name \in M!Names :
          /\ M!NameFor(name)
          /\ file' = {g \in file : g.name # name} \cup
                     {[name |-> name, rows |-> tmp.rows, synced |-> tmp.synced, entry |-> FALSE]}
    BY <1>1 DEF M!Rename
  <2>2. f.name # name
    BY <2>1 DEF M!NameFor, M!Taken
  <2> QED
    BY <2>1, <2>2
<1>2. CASE M!SyncDir
  <2>1. [f EXCEPT !.entry = TRUE] = f
    BY DEF M!TypeOK, M!File, M!Durable
  <2> QED
    BY <1>2, <2>1 DEF M!SyncDir
<1>3. CASE M!PowerCut
  <2>1. PICK gone \in SUBSET {g \in file : ~g.entry} : file' = {M!Survives(g) : g \in file \ gone}
    BY <1>3 DEF M!PowerCut
  <2>2. f \notin gone /\ M!Survives(f) = f
    BY <2>1 DEF M!Durable, M!Survives
  <2> QED
    BY <2>1, <2>2
<1>4. ASSUME ~M!Rename, ~M!SyncDir, ~M!PowerCut PROVE file' = file
  BY <1>4 DEF M!Next, M!Step, M!vars, M!Tick, M!Insert, M!Begin, M!NextBatch, M!NoMore, M!Finish, M!Copy, M!Sync,
              M!Mismatch, M!Delete, M!Commit, M!Fail, M!Kill
<1> QED
  BY <1>1, <1>2, <1>3, <1>4

(* What is deleted is a batch whose file is durable. *)
LEMMA DeletesFiled ==
  ASSUME M!TypeOK, [M!Next]_M!vars
  PROVE  deleted' = deleted \/ (mpc = "commit" /\ deleted' = deleted \cup batch)
BY DEF M!Next, M!Step, M!vars, M!job, M!Tick, M!Insert, M!Begin, M!NextBatch, M!NoMore, M!Finish, M!Copy, M!Sync,
       M!Mismatch, M!Rename, M!SyncDir, M!Delete, M!Commit, M!Fail, M!Kill, M!PowerCut, M!RolledBack, M!Deleted

LEMMA ArchiveStep ==
  ASSUME M!TypeOK, Filed, M!DeletedAreArchived, [M!Next]_M!vars
  PROVE  M!DeletedAreArchived'
<1>1. \A r \in deleted : \E f \in file' : M!Durable(f) /\ r \in f.rows
  BY DurableStays DEF M!DeletedAreArchived, M!Archived
<1>2. ASSUME mpc = "commit" PROVE \A r \in batch : \E f \in file' : M!Durable(f) /\ r \in f.rows
  <2>1. PICK f \in file : f.rows = batch /\ f.synced /\ f.entry
    BY <1>2 DEF Filed
  <2> QED
    BY <2>1, DurableStays DEF M!Durable
<1> QED
  BY <1>1, <1>2, DeletesFiled DEF M!DeletedAreArchived, M!Archived, M!Durable
------------------------------------------------------------------------------
(* A batch gets to its file as a whole. *)
LEMMA FiledStep ==
  ASSUME M!MaintenanceAssumption, M!TypeOK, Copied, Filed, [M!Next]_M!vars
  PROVE  Copied' /\ Filed'
<1> USE DEF Copied, Filed, M!NextTable, M!Idle, M!NoFile, M!job
<1>1. CASE M!Tick \/ (\E r \in Row : M!Insert(r)) \/ UNCHANGED M!vars
  BY <1>1 DEF M!Tick, M!Insert, M!vars
<1>2. CASE \/ M!Begin \/ M!NextBatch \/ M!NoMore \/ M!Finish \/ M!Mismatch
           \/ M!Commit \/ M!Fail \/ M!Kill \/ M!PowerCut
  BY <1>2 DEF M!Begin, M!NextBatch, M!NoMore, M!Finish, M!Mismatch, M!Commit, M!Fail, M!Kill, M!PowerCut, M!Trouble
<1>3. CASE M!Copy
  <2>1. \/ tmp' = [rows |-> batch, synced |-> FALSE]
        \/ tmp' \in [rows : SUBSET batch, synced : {FALSE}]
    BY <1>3 DEF M!Copy
  <2>2. tmp'.rows \subseteq batch
    <3>1. CASE tmp' = [rows |-> batch, synced |-> FALSE]
      BY <3>1
    <3>2. CASE tmp' \in [rows : SUBSET batch, synced : {FALSE}]
      <4>1. tmp'.rows \in SUBSET batch
        BY <3>2
      <4> QED
        BY <4>1
    <3> QED
      BY <2>1, <3>1, <3>2
  <2> QED
    BY <1>3, <2>2 DEF M!Copy
<1>7. CASE M!Sync
  BY <1>7 DEF M!Sync, M!TypeOK
<1>4. CASE M!Rename
  <2>1. tmp.rows = batch
    BY <1>4, BatchFinite, SameSets, FS_Subset DEF M!Rename
  <2>2. \E f \in file' : f.rows = batch /\ f.synced
    <3>1. PICK name \in M!Names :
            file' = {f \in file : f.name # name} \cup
                    {[name |-> name, rows |-> tmp.rows, synced |-> tmp.synced, entry |-> FALSE]}
      BY <1>4 DEF M!Rename
    <3>2. tmp.synced
      BY <1>4 DEF M!Rename
    <3> DEFINE new == [name |-> name, rows |-> tmp.rows, synced |-> tmp.synced, entry |-> FALSE]
    <3>3. new \in file' /\ new.rows = tmp.rows /\ new.synced = tmp.synced
      BY <3>1
    <3>4. UNCHANGED batch
      BY <1>4 DEF M!Rename
    <3> HIDE DEF new
    <3> QED
      BY <2>1, <3>2, <3>3, <3>4
  <2> QED
    BY <1>4, <2>2 DEF M!Rename
<1>5. CASE M!SyncDir
  <2>1. PICK f \in file : f.rows = batch /\ f.synced
    BY <1>5 DEF M!SyncDir
  <2>2. f \in M!File
    BY DEF M!TypeOK
  <2>3. [f EXCEPT !.entry = TRUE] \in file'
    BY <1>5 DEF M!SyncDir
  <2>4. \E g \in file' : g.rows = batch /\ g.synced /\ g.entry
    BY <2>1, <2>2, <2>3 DEF M!File
  <2> QED
    BY <1>5, <2>4 DEF M!SyncDir
<1>6. CASE M!Delete
  BY <1>6 DEF M!Delete
<1> QED
  BY <1>1, <1>2, <1>3, <1>4, <1>5, <1>6, <1>7 DEF M!Next, M!Step

LEMMA JobInit ==
  ASSUME M!MaintenanceAssumption, M!Init
  PROVE  JobInv
BY SomePolicies DEF M!Init, JobInv, M!TypeOK, Policed, Copied, Filed, M!DeletedAreArchived, M!NoFile

LEMMA JobInvStep ==
  ASSUME M!MaintenanceAssumption, JobInv, [M!Next]_M!vars
  PROVE  JobInv'
BY JobTypes, FiledStep, ArchiveStep DEF JobInv

(* Other processes may change the tables, and things may go wrong for them, *)
(* without touching the files or the batch.                                *)
LEMMA OthersStep ==
  ASSUME JobInv, UNCHANGED <<now, file, M!job, deleted>>, table' \in SUBSET Row, trouble' \in Nat
  PROVE  JobInv'
BY DEF JobInv, M!TypeOK, Policed, Copied, Filed, M!DeletedAreArchived, M!Archived, M!job

(* The maintenance gives up where it is. *)
LEMMA GivesUp ==
  ASSUME M!MaintenanceAssumption, JobInv, M!Idle, UNCHANGED <<now, file, table, trouble, deleted>>
  PROVE  JobInv'
<1>1. 1 \in 1 .. Len(Policies) + 1
  BY SomePolicies
<1> QED
  BY <1>1 DEF M!Idle, M!NoFile, JobInv, M!TypeOK, Policed, Copied, Filed, M!DeletedAreArchived, M!Archived

(* A row leaves its table only to be among the deleted. *)
LEMMA RowsStay ==
  ASSUME [M!Next]_M!vars
  PROVE  table \cup deleted \subseteq table' \cup deleted'
BY DEF M!Next, M!Step, M!vars, M!job, M!Tick, M!Insert, M!Begin, M!NextBatch, M!NoMore, M!Finish, M!Copy, M!Sync,
       M!Mismatch, M!Rename, M!SyncDir, M!Delete, M!Commit, M!Fail, M!Kill, M!PowerCut, M!RolledBack, M!Deleted

------------------------------------------------------------------------------
(* The maintenance keeps its types: a batch is rows, a file's name is made  *)
(* of a table, two seconds and a number (databaseMaintenance.py:108).       *)
THEOREM MaintenanceTypeCorrect == M!MaintenanceAssumption /\ M!Spec => []M!TypeOK
<1> SUFFICES ASSUME M!MaintenanceAssumption PROVE M!Spec => []M!TypeOK
  OBVIOUS
<1>1. M!Init => JobInv
  BY JobInit
<1>2. JobInv /\ [M!Next]_M!vars => JobInv'
  BY JobInvStep
<1>3. JobInv => M!TypeOK
  BY DEF JobInv
<1> QED
  BY <1>1, <1>2, <1>3, PTL DEF M!Spec

(* A deleted row is in a file of the archive which the next power cut      *)
(* leaves alone, whatever failed before: "If anything fails the transaction*)
(* rolls back and nothing is deleted" (databaseMaintenance.py:9).          *)
THEOREM NothingDeletedUnarchived == M!MaintenanceAssumption /\ M!Spec => []M!DeletedAreArchived
<1> SUFFICES ASSUME M!MaintenanceAssumption PROVE M!Spec => []M!DeletedAreArchived
  OBVIOUS
<1>1. M!Init => JobInv
  BY JobInit
<1>2. JobInv /\ [M!Next]_M!vars => JobInv'
  BY JobInvStep
<1>3. JobInv => M!DeletedAreArchived
  BY DEF JobInv
<1> QED
  BY <1>1, <1>2, <1>3, PTL DEF M!Spec
------------------------------------------------------------------------------
(* Both together. *)
IInv == JobInv /\ WriterInv(deleted)

LEMMA Assumed == W!DbOutAssumption /\ M!MaintenanceAssumption
BY LogsAssumption

LEMMA InitInv == Init => IInv
<1> SUFFICES ASSUME Init PROVE IInv
  OBVIOUS
<1>1. W!Init /\ M!Init
  BY DEF Init
<1>2. WriterInv(deleted)
  <2>1. PICK gone : gone = deleted
    OBVIOUS
  <2>2. WriterInv(gone)
    BY <1>1, Assumed, WriterInit
  <2> QED
    BY <2>1, <2>2
<1> QED
  BY <1>1, <1>2, Assumed, JobInit DEF IInv

(* The writer takes a step, and perhaps something went wrong. *)
LEMMA WriterKeeps ==
  ASSUME IInv, W!Next, UNCHANGED <<now, file, mpc, policy, total, batch, tmp, deleted>>,
         trouble' \in Nat
  PROVE  IInv'
<1>1. PICK gone : gone = deleted
  OBVIOUS
<1>2. WriterInv(gone)' /\ gone = deleted'
  BY <1>1, Assumed, WriterStep DEF IInv
<1>3. table' \in SUBSET Row
  BY <1>2 DEF WriterInv, MemoryInv, W!TypeOK, W!Reading, Row
<1>4. JobInv'
  BY <1>3, OthersStep DEF IInv, M!job
<1> QED
  BY <1>2, <1>4 DEF IInv

(* The maintenance takes a step. *)
LEMMA JobKeeps ==
  ASSUME IInv, M!Next, UNCHANGED writerVars
  PROVE  IInv'
<1>1. PICK gone : gone = deleted
  OBVIOUS
<1>2. PICK more : more = deleted'
  OBVIOUS
<1>3. JobInv'
  BY Assumed, JobInvStep DEF IInv
<1>4. table \cup gone \subseteq table' \cup more /\ table' \subseteq W!Reading
  BY <1>1, <1>2, <1>3, RowsStay DEF JobInv, M!TypeOK, Row, W!Reading
<1>5. WriterInv(more)'
  BY <1>1, <1>4, Assumed, GoneGrows DEF IInv, writerVars, W!memory
<1> QED
  BY <1>2, <1>3, <1>5 DEF IInv

(* The power goes, for both. *)
LEMMA PowerCutKeeps ==
  ASSUME IInv, PowerCut
  PROVE  IInv'
<1>1. PICK gone : gone = deleted
  OBVIOUS
<1>2. PICK more : more = deleted'
  OBVIOUS
<1>3. JobInv'
  BY Assumed, JobInvStep DEF IInv, PowerCut, M!Next
<1>4. table' \in SUBSET W!Reading
  BY <1>3 DEF JobInv, M!TypeOK, Row, W!Reading
<1>5. W!MemoryLost
  BY DEF PowerCut, W!MemoryLost
<1>6. WriterInv(more)'
  BY <1>1, <1>4, <1>5, Assumed, AllLost DEF IInv, PowerCut
<1> QED
  BY <1>2, <1>3, <1>6 DEF IInv

(* The database goes, and with it the transaction of the maintenance. *)
LEMMA DatabaseDownKeeps ==
  ASSUME IInv, DatabaseDown
  PROVE  IInv'
<1>1. PICK gone : gone = deleted
  OBVIOUS
<1>2. W!Next
  BY DEF W!Next, DatabaseDown
<1>3. WriterInv(gone)' /\ gone = deleted'
  BY <1>1, <1>2, Assumed, WriterStep DEF IInv, DatabaseDown
<1>4. M!Idle /\ UNCHANGED <<now, file, table, trouble, deleted>>
  BY DEF DatabaseDown, W!DatabaseDown, M!Idle
<1>5. JobInv'
  BY <1>4, Assumed, GivesUp DEF IInv
<1> QED
  BY <1>3, <1>5 DEF IInv

(* To the writer each step is one of its own, one of the maintenance which *)
(* only moves rows, or the loss of its memory.                             *)
LEMMA InvStep ==
  ASSUME IInv, [Next]_vars
  PROVE  IInv'
<1>0. trouble \in Nat
  BY DEF IInv, JobInv, M!TypeOK
<1>1. CASE Poll \/ Process
  <2>1. W!Next
    BY <1>1 DEF W!Next, Poll, Process
  <2> QED
    BY <1>0, <1>1, <2>1, WriterKeeps DEF Poll, Process, jobVars
<1>2. CASE Die
  <2>1. W!Next
    BY <1>2 DEF W!Next, Die
  <2> QED
    BY <1>0, <1>2, <2>1, WriterKeeps DEF Die
<1>3. CASE DatabaseDown
  BY <1>3, DatabaseDownKeeps
<1>4. CASE Job \/ Tick
  <2>1. M!Next
    BY <1>4 DEF Job, Tick, M!Next
  <2> QED
    BY <1>4, <2>1, JobKeeps DEF Job, Tick
<1>5. CASE PowerCut
  BY <1>5, PowerCutKeeps
<1>6. CASE UNCHANGED vars
  <2>1. PICK gone : gone = deleted
    OBVIOUS
  <2>2. WriterInv(gone)' /\ gone = deleted'
    BY <1>6, <2>1, Assumed, WriterStep DEF IInv, vars, writerVars, jobVars, W!vars, W!memory
  <2>3. JobInv'
    BY <1>6, Assumed, JobInvStep DEF IInv, vars, jobVars, M!vars, M!job
  <2> QED
    BY <2>2, <2>3 DEF IInv
<1> QED
  BY <1>1, <1>2, <1>3, <1>4, <1>5, <1>6 DEF Next

LEMMA Inductive == Spec => []IInv
BY InitInv, InvStep, PTL DEF Spec
------------------------------------------------------------------------------
(* The queue, the backlog and the tables hold readings, and the batches and *)
(* files rows, whatever the two sides do to each other (DBout, DB.py, and  *)
(* databaseMaintenance.py).                                                *)
THEOREM TypeCorrect == Spec => []TypeOK
<1>1. IInv => TypeOK
  BY DEF IInv, TypeOK, WriterInv, MemoryInv, JobInv
<1> QED
  BY <1>1, Inductive, PTL

(* A reading is never lost without one of the reasons the code names: the   *)
(* end of the process, a full backlog, or two failures of its statement,   *)
(* which a good one meets only when the connection broke twice (DB.py:303).*)
THEOREM NoReadingIsLost == Spec => []NothingLost
<1>1. IInv => NothingLost
  BY DEF IInv, NothingLost, WriterInv, Kept
<1> QED
  BY <1>1, Inductive, PTL

(* What was deleted can be found in the archive, also with a writer which  *)
(* adds rows and a database which goes away meanwhile                      *)
(* (databaseMaintenance.py:9).                                             *)
THEOREM WhatIsDeletedIsArchived == Spec => []DeletedAreArchived
<1>1. IInv => DeletedAreArchived
  BY DEF IInv, DeletedAreArchived, JobInv
<1> QED
  BY <1>1, Inductive, PTL

LEMMA OrderStep ==
  ASSUME IInv, [Next]_vars, NEW r \in table' \ table, NEW q \in 1 .. r - 1
  PROVE  q \in table' \cup deleted' \/ GivenUp(q)'
<1>1. PICK gone : gone = deleted
  OBVIOUS
<1>2. CASE W!Next /\ UNCHANGED deleted
  <2>1. q \in table \cup gone \/ GivenUp(q)'
    BY <1>1, <1>2, Assumed, InOrderStep DEF IInv
  <2>2. table \subseteq table'
    BY <1>2 DEF W!Next, W!Writer, W!Start, W!Poll, W!Shutdown, W!Exit, W!MemoryLost,
                W!DatabaseDown, W!DatabaseUp, W!memory, W!Take, W!Retry, W!TakeStop, W!Execute,
                W!Commit, W!CommitFailed, W!Unreachable, W!TryAgain, W!Drop
  <2> QED
    BY <1>1, <1>2, <2>1, <2>2 DEF GivenUp
<1>3. CASE M!Begin \/ M!Step \/ M!Fail \/ M!Kill \/ M!PowerCut \/ M!Tick
  <2>1. table' \subseteq table
    BY <1>3 DEF M!Begin, M!Step, M!NextBatch, M!NoMore, M!Finish, M!Copy, M!Sync, M!Mismatch, M!Rename,
                M!SyncDir, M!Delete, M!Commit, M!Fail, M!Kill, M!PowerCut, M!Tick, M!RolledBack, M!Deleted
  <2> QED
    BY <2>1
<1> QED
  BY <1>2, <1>3 DEF Next, W!Next, vars, Poll, Process, Die, DatabaseDown, Job, PowerCut, Tick,
     jobVars

(* Rows reach their table in the order in which the readings were put:     *)
(* nothing which is stored later, and was not given up, belongs before     *)
(* ("Write the backlog in order", DB.py:289).                              *)
THEOREM StoredInOrder == Spec => InOrder
<1>1. IInv /\ [Next]_vars =>
        [\A r \in table' \ table : \A q \in 1 .. r - 1 :
           q \in table' \cup deleted' \/ GivenUp(q)']_vars
  BY OrderStep
<1> QED
  BY <1>1, Inductive, PTL DEF Spec, InOrder
==============================================================================
