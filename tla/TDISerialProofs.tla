--------------------------- MODULE TDISerialProofs ---------------------------
(***************************************************************************)
(* The controller carries out the valve commands in the order they were    *)
(* asked for, nothing turns a valve on after the final all-off, and what a *)
(* requester has a confirmation of is so: for any number of valves,        *)
(* requests, tries, frames sent again and failures.  The last holds in     *)
(* spite of one lost sentence, too, where nothing else has failed and the  *)
(* controller sends replies again only on a quiet line.                    *)
(*                                                                         *)
(* All rest on one invariant, Order: along the way of a request, from the  *)
(* queue over the one in flight to the sentences the controller has taken  *)
(* and the last one it acted on, the numbers of the valve requests do not  *)
(* grow.  A sentence is sent again only while its request is in flight, so *)
(* the same number may occur several times in the work of the controller.  *)
(***************************************************************************)
EXTENDS TDISerial, FiniteSetTheorems, TLAPS

Numbered == [id : Nat \ {0}, who : Who, msg : Message]
ForValve(r) == r.who # "poll"

(* What is needed of the types; the bounds of TypeOK are not.              *)
Types ==
  /\ queue \subseteq Numbered /\ req \in Numbered \cup {NoReq} /\ work \in Seq(Numbered)
  /\ lastId \in Nat /\ carried \in Nat /\ final \in Nat
  /\ accepting \in BOOLEAN /\ open \subseteq Valve
  /\ intent \in [Thread -> Message \cup {NoMsg}]
  /\ state = "ack" => req # NoReq

(* No number exceeds the last one given. *)
Given ==
  /\ \A r \in queue : r.id <= lastId
  /\ req.id <= lastId
  /\ \A i \in 1 .. Len(work) : work[i].id <= lastId
  /\ carried <= lastId

Queued ==
  \A r \in queue : ForValve(r) =>
    /\ carried < r.id
    /\ ForValve(req) => req.id < r.id
    /\ \A i \in 1 .. Len(work) : ForValve(work[i]) => work[i].id < r.id
InFlight ==
  (req # NoReq /\ ForValve(req)) =>
    /\ carried <= req.id
    /\ \A i \in 1 .. Len(work) : ForValve(work[i]) => work[i].id <= req.id
Taken ==
  \A i \in 1 .. Len(work) : ForValve(work[i]) =>
    /\ carried <= work[i].id
    /\ \A j \in i .. Len(work) : ForValve(work[j]) => work[i].id <= work[j].id
Order == Types /\ Given /\ Queued /\ InFlight /\ Taken

(* Polls turn nothing on, and from the final request on all are all-offs.  *)
Fits(r) ==
  /\ r.who = "poll" => r.msg = Poll
  /\ r.who = "main" => r.msg = Off(AllValves)
  /\ (final # 0 /\ r.id >= final) => r.who = "main"
LastOnes ==
  /\ \A r \in queue : Fits(r)
  /\ req # NoReq => Fits(req)
  /\ \A i \in 1 .. Len(work) : Fits(work[i])
  /\ \A w \in Thread : (w = "poll" /\ intent[w] # NoMsg) => intent[w] = Poll
  /\ accepting <=> final = 0
Final == Order /\ LastOnes /\ NothingAfterFinal
------------------------------------------------------------------------------
(***************************************************************************)
(* The ways in which a step can change what Order is about.                *)
(***************************************************************************)
core == <<queue, lastId, accepting, final, work, carried, open>>

(* Nothing moves; the request in flight may be done with. *)
Quiet ==
  /\ UNCHANGED <<queue, lastId, accepting, final, work, carried, open, intent>>
  /\ req' \in {req, NoReq}
  /\ state' = "ack" => state = "ack" /\ req' = req
(* A thread decides, or is done with, a message. *)
Minds ==
  /\ UNCHANGED <<queue, lastId, accepting, final, work, carried, open, req, state>>
  /\ intent' \in [Thread -> Message \cup {NoMsg}]
  /\ \A w \in Thread : intent'[w] \in Asks(w) \cup {NoMsg} \/ intent'[w] = intent[w]
(* The process ends. *)
Ceases ==
  /\ UNCHANGED <<lastId, accepting, final, work, carried, open>>
  /\ queue' = {} /\ req' = NoReq /\ state' # "ack"
  /\ intent' = [w \in Thread |-> NoMsg]
(* A request is taken from the queue, and sent or dropped. *)
Takes ==
  /\ UNCHANGED <<lastId, accepting, final, carried, open, intent>>
  /\ \E r \in queue :
       /\ First(r) /\ queue' = queue \ {r}
       /\ \/ req' = req /\ work' = work /\ state' # "ack"
          \/ req' = r /\ work' \in {work, Append(work, r)}
(* The request in flight is sent again. *)
SendsAgain ==
  /\ UNCHANGED <<queue, lastId, accepting, final, carried, open, intent, req, state>>
  /\ state = "ack"
  /\ work' \in {work, Append(work, req)}
(* The controller acts on the first sentence, or rejects it. *)
Acts ==
  /\ UNCHANGED <<queue, lastId, accepting, final, intent, req, state>>
  /\ work # <<>> /\ work' = Tail(work)
  /\ LET r == Head(work) IN
       \/ /\ open' = Effect(r.msg, open)
          /\ carried' = IF r.who = "poll" THEN carried ELSE r.id
       \/ UNCHANGED <<open, carried>>
(* A request is put into the queue. *)
Puts ==
  /\ UNCHANGED <<work, carried, open, req, state>>
  /\ intent' \in [Thread -> Message \cup {NoMsg}]
  /\ \A w \in Thread : intent'[w] \in {intent[w], NoMsg}
  /\ lastId' = lastId + 1
  /\ \/ \E w \in Thread : /\ accepting /\ intent[w] # NoMsg
                          /\ queue' = queue \cup {[id |-> lastId', who |-> w, msg |-> intent[w]]}
                          /\ UNCHANGED <<accepting, final>>
     \/ /\ queue' = queue \cup {[id |-> lastId', who |-> "main", msg |-> Off(AllValves)]}
        /\ accepting' = FALSE
        /\ final' = IF final = 0 THEN lastId' ELSE final

(* The values which stand for nothing are no requests and no messages. *)
LEMMA Constants ==
  /\ NoMsg \notin Message /\ NoReq \notin Numbered /\ NoReq.id = 0
  /\ Off(AllValves) \in Message /\ Poll \in Message
  /\ "main" \in Who /\ Thread \subseteq Who /\ "main" \notin Thread
PROOF
<1>1. NoMsg \notin Message
  <2>1. \A m \in Message : m.letter \in {"A", "D", "E"}
    BY DEF Message, On, Off, Poll
  <2>2. NoMsg.letter = "none"
    BY DEF NoMsg
  <2> QED
    BY <2>1, <2>2
<1>2. NoReq \notin Numbered /\ NoReq.id = 0
  BY SMT DEF NoReq, Numbered
<1>3. Off(AllValves) \in Message /\ Poll \in Message
  BY DEF Message, Off, Poll
<1>4. "main" \in Who /\ Thread \subseteq Who /\ "main" \notin Thread
  BY SerialAssumption DEF Who, SerialAssumption
<1> QED
  BY <1>1, <1>2, <1>3, <1>4

(* Only an on has the letter A, and it has the address of a valve. *)
LEMMA Letters ==
  ASSUME NEW m \in Message
  PROVE  m.letter = "A" => m.addr \in Valve
PROOF
<1>1. CASE \E v \in Valve : m = On(v)
  BY <1>1 DEF On
<1>2. CASE \E a \in Valve \cup {AllValves} : m = Off(a)
  <2>1. m.letter = "D"
    BY <1>2 DEF Off
  <2> QED
    BY <2>1
<1>3. CASE m = Poll
  BY <1>3 DEF Poll
<1> QED
  BY <1>1, <1>2, <1>3 DEF Message

(* Every step of the specification is one of these, or changes nothing here. *)
LEMMA Steps ==
  ASSUME Types, [Next]_vars
  PROVE  \/ Quiet \/ Minds \/ Ceases \/ Takes \/ SendsAgain \/ Acts \/ Puts
         \/ UNCHANGED <<core, req, state, intent>>
PROOF
<1> USE DEF asking, serial, waits, main, controller, core
<1>1. CASE Line
  BY <1>1 DEF Line, Act, SendAgain, Acts, Answers, AnswersInVain
<1>2. ASSUME DropPending PROVE Quiet
  BY <1>2 DEF DropPending, ReadMessage, ReadMark, Quiet
<1>3. ASSUME TakeRequest PROVE Takes
  <2>1. PICK r \in queue :
          /\ First(r) /\ queue' = queue \ {r}
          /\ \/ state' = Loop /\ UNCHANGED <<req, work, open, carried>>
             \/ req' = r /\ Send(r, toHost) /\ UNCHANGED <<open, carried>>
    BY <1>3 DEF TakeRequest
  <2>2. work' \in {work, Append(work, r)} \/ work' = work
    BY <2>1 DEF Send
  <2>3. Loop # "ack"
    BY DEF Loop
  <2>4. UNCHANGED <<lastId, accepting, final, intent, open, carried>>
    BY <1>3, <2>1 DEF TakeRequest
  <2> QED
    BY <2>1, <2>2, <2>3, <2>4 DEF Takes, Send
<1>4. ASSUME NEW rest, state = "ack", TryAgain(rest), UNCHANGED <<asking>>
      PROVE  Quiet \/ SendsAgain
  <2>1. CASE tried = SendTries
    BY <1>4, <2>1 DEF TryAgain, Answer, Deliver, Loop, Quiet, SendsAgain, Send
  <2>2. CASE tried # SendTries
    BY <1>4, <2>2 DEF TryAgain, Send, SendsAgain
  <2> QED
    BY <2>1, <2>2
<1>5. ASSUME TakeFrame, UNCHANGED <<asking>> PROVE Quiet
  BY <1>5 DEF TakeFrame, ReadMessage, Answer, Deliver, Loop, StayWaiting, Quiet
<1>6. ASSUME ReadAck PROVE Quiet \/ SendsAgain
  <2>1. CASE TakeFrame
    BY <1>5, <1>6, <2>1 DEF ReadAck
  <2>2. CASE TryAgain(Tail(toHost))
    BY <1>4, <1>6, <2>2 DEF ReadAck, Serving
  <2>3. CASE ~TakeFrame /\ ~TryAgain(Tail(toHost))
    BY <1>6, <2>3 DEF ReadAck, ReadMark, StayWaiting, Quiet
  <2> QED
    BY <2>1, <2>2, <2>3
<1>7. ASSUME AckTimeout PROVE Quiet \/ SendsAgain
  BY <1>4, <1>7 DEF AckTimeout, Serving
<1>8. ASSUME ReadReply PROVE Quiet
  <2>1. CASE TakeFrame
    BY <1>5, <1>8, <2>1 DEF ReadReply
  <2>2. CASE ~TakeFrame
    BY <1>8, <2>2 DEF ReadReply, ReadMark, StayWaiting, Quiet
  <2> QED
    BY <2>1, <2>2
<1>9. ASSUME ReplyTimeout \/ PortError \/ Reconnect \/ StopSerial PROVE Quiet
  BY <1>9 DEF ReplyTimeout, PortError, Reconnect, StopSerial, Answer, Deliver, Loop, Quiet
<1>10. CASE Dispatch
  BY <1>2, <1>3, <1>6, <1>7, <1>8, <1>9, <1>10 DEF Dispatch
<1>11. CASE Requester
  <2>1. PICK w \in Thread : Decide(w) \/ Ask(w)
    BY <1>11 DEF Requester
  <2>2. ASSUME Decide(w) PROVE Minds
    <3>1. PICK m \in Asks(w) : intent' = [intent EXCEPT ![w] = m]
      BY <2>2 DEF Decide
    <3>2. m \in Message
      BY <3>1, Constants DEF Asks
    <3> QED
      BY <2>1, <2>2, <3>1, <3>2 DEF Decide, Minds, Types
  <2>3. ASSUME Ask(w) PROVE Puts \/ Minds
    <3>1. UNCHANGED <<work, carried, open, req, state>>
      BY <2>3 DEF Ask
    <3>2. /\ intent' \in [Thread -> Message \cup {NoMsg}]
          /\ \A t \in Thread : intent'[t] \in {intent[t], NoMsg}
      BY <2>3 DEF Ask, Types
    <3>3. CASE accepting
      BY <2>1, <2>3, <3>1, <3>2, <3>3 DEF Ask, Put, Puts, Deciding
    <3>4. CASE ~accepting
      BY <2>3, <3>1, <3>2, <3>4 DEF Ask, Put, Minds, Types
    <3> QED
      BY <3>3, <3>4
  <2> QED
    BY <2>1, <2>2, <2>3
<1>12. CASE Waiter
  <2>1. PICK w \in Who : Done(w)
    BY <1>12 DEF Waiter, TakeAnswer, GiveUp
  <2>2. /\ intent' \in [Thread -> Message \cup {NoMsg}]
        /\ \A t \in Thread : intent'[t] \in {intent[t], NoMsg}
    BY <2>1 DEF Done, Types
  <2> QED
    BY <2>1, <2>2 DEF Done, Minds
<1>13. CASE Server
  <2>1. CASE AllOffNow
    BY <2>1 DEF AllOffNow, Put, Puts, Types
  <2>2. CASE Exit \/ SignalAgain
    BY <2>2 DEF Exit, SignalAgain, Gone, Ceases
  <2>3. CASE StopThreads \/ CloseSerial
    BY <2>3 DEF StopThreads, CloseSerial
  <2> QED
    BY <1>13, <2>1, <2>2, <2>3 DEF Server
<1>14. CASE Over \/ UNCHANGED vars
  BY <1>14 DEF Over, vars
<1> QED
  BY <1>1, <1>10, <1>11, <1>12, <1>13, <1>14 DEF Next
------------------------------------------------------------------------------
(* Requests have numbers, those in the queue and at the controller from 1. *)
LEMMA Numbers ==
  ASSUME Types
  PROVE  /\ \A q \in queue : q \in Numbered /\ q.id \in Nat \ {0}
         /\ req.id \in Nat
         /\ \A i \in 1 .. Len(work) : work[i] \in Numbered /\ work[i].id \in Nat \ {0}
PROOF
<1>1. \A q \in Numbered : q.id \in Nat \ {0}
  BY DEF Numbered
<1>2. \A i \in 1 .. Len(work) : work[i] \in Numbered
  BY DEF Types
<1>3. req.id \in Nat
  BY <1>1, Constants DEF Types
<1> QED
  BY <1>1, <1>2, <1>3 DEF Types

(* What the work of the controller is when a sentence is added. *)
LEMMA Appended ==
  ASSUME Types, NEW r \in Numbered, work' = Append(work, r)
  PROVE  /\ work' \in Seq(Numbered) /\ Len(work') = Len(work) + 1
         /\ \A i \in 1 .. Len(work) : work'[i] = work[i]
         /\ work'[Len(work) + 1] = r
PROOF
  BY DEF Types

(* What is left when the controller has acted on the first sentence. *)
LEMMA Shortened ==
  ASSUME Types, work # <<>>, work' = Tail(work)
  PROVE  /\ work' \in Seq(Numbered) /\ Len(work') = Len(work) - 1 /\ Len(work) \in Nat \ {0}
         /\ \A i \in 1 .. Len(work') : work'[i] = work[i + 1]
         /\ Head(work) = work[1] /\ work[1] \in Numbered
PROOF
  BY DEF Types

(* A request which goes to the controller is at least as late as its work. *)
LEMMA OrderedAppend ==
  ASSUME Types, Taken, NEW r \in Numbered, work' \in {work, Append(work, r)}, carried' = carried,
         ForValve(r) => /\ carried <= r.id
                        /\ \A i \in 1 .. Len(work) : ForValve(work[i]) => work[i].id <= r.id
  PROVE  /\ work' \in Seq(Numbered) /\ Taken'
         /\ \A i \in 1 .. Len(work') : \/ work'[i] = r
                                       \/ i \in 1 .. Len(work) /\ work'[i] = work[i]
PROOF
<1>1. CASE work' = work
  BY <1>1 DEF Types, Taken
<1>2. CASE work' = Append(work, r)
  <2> DEFINE n == Len(work)
  <2>1. /\ work' \in Seq(Numbered) /\ Len(work') = n + 1 /\ n \in Nat
        /\ \A i \in 1 .. n : work'[i] = work[i]
        /\ work'[n + 1] = r
    BY <1>2, Appended DEF Types
  <2>2. \A i \in 1 .. Len(work') : i \in 1 .. n \/ i = n + 1
    BY <2>1
  <2>3. ASSUME NEW i \in 1 .. Len(work'), ForValve(work'[i]),
               NEW j \in i .. Len(work'), ForValve(work'[j])
        PROVE  carried <= work'[i].id /\ work'[i].id <= work'[j].id
    <3>0. r.id \in Nat
      BY DEF Numbered
    <3>1. CASE i = n + 1
      BY <1>2, <2>1, <2>3, <3>0, <3>1 DEF ForValve
    <3>2. CASE i \in 1 .. n /\ j = n + 1
      BY <2>1, <2>3, <3>2 DEF Taken, ForValve
    <3>3. CASE i \in 1 .. n /\ j \in i .. n
      <4>1. work'[i] = work[i] /\ work'[j] = work[j]
        BY <2>1, <3>3
      <4> QED
        BY <2>3, <3>3, <4>1 DEF Taken, ForValve
    <3>4. j \in i .. n \/ j = n + 1
      BY <2>1, <2>3
    <3> QED
      BY <2>2, <2>3, <3>1, <3>2, <3>3, <3>4
  <2>4. ASSUME NEW i \in 1 .. Len(work'), ForValve(work'[i]) PROVE carried' <= work'[i].id
    <3>1. i \in i .. Len(work')
      BY <2>1
    <3> QED
      BY <2>3, <2>4, <3>1
  <2>5. Taken'
    BY <2>3, <2>4 DEF Taken, ForValve
  <2> QED
    BY <2>1, <2>2, <2>5
<1> QED
  BY <1>1, <1>2

(* Being done with the request in flight keeps the order. *)
LEMMA OrderQuiet ==
  Order /\ (Quiet \/ Minds \/ Ceases \/ UNCHANGED <<core, req, state, intent>>) => Order'
PROOF
<1> SUFFICES ASSUME Order, Quiet \/ Minds \/ Ceases \/ UNCHANGED <<core, req, state, intent>>
             PROVE  Order'
  OBVIOUS
<1>1. /\ UNCHANGED <<lastId, accepting, final, work, carried, open>>
      /\ queue' \subseteq queue /\ req' \in {req, NoReq}
  BY DEF Quiet, Minds, Ceases, core
<1>2. Types'
  BY <1>1 DEF Order, Types, Quiet, Minds, Ceases, core
<1>3. Given'
  BY <1>1, Constants DEF Order, Given, Types
<1>4. Queued'
  <2>1. SUFFICES ASSUME NEW r \in queue, ForValve(r)
                 PROVE  /\ carried < r.id
                        /\ ForValve(req') => req'.id < r.id
                        /\ \A i \in 1 .. Len(work) : ForValve(work[i]) => work[i].id < r.id
    BY <1>1 DEF Queued, ForValve
  <2>2. r.id \in Nat \ {0}
    BY Numbers DEF Order
  <2>3. /\ carried < r.id
        /\ ForValve(req) => req.id < r.id
        /\ \A i \in 1 .. Len(work) : ForValve(work[i]) => work[i].id < r.id
    BY <2>1 DEF Order, Queued
  <2>4. CASE req' = req
    BY <2>3, <2>4
  <2>5. CASE req' = NoReq
    BY <2>2, <2>3, <2>5, Constants
  <2> QED
    BY <1>1, <2>4, <2>5
<1>5. InFlight'
  BY <1>1 DEF Order, InFlight, ForValve
<1>6. Taken'
  BY <1>1 DEF Order, Taken, ForValve
<1> QED
  BY <1>2, <1>3, <1>4, <1>5, <1>6 DEF Order

(* The queue gives its earliest valve request first. *)
LEMMA OrderTakes == Order /\ Takes => Order'
PROOF
<1> SUFFICES ASSUME Order, Takes PROVE Order'
  OBVIOUS
<1>1. PICK r \in queue :
        /\ First(r) /\ queue' = queue \ {r}
        /\ \/ req' = req /\ work' = work /\ state' # "ack"
           \/ req' = r /\ work' \in {work, Append(work, r)}
  BY DEF Takes
<1>2. UNCHANGED <<lastId, accepting, final, carried, open, intent>>
  BY DEF Takes
<1>3. r \in Numbered /\ r.id \in Nat \ {0} /\ r # NoReq /\ carried \in Nat
  BY Constants DEF Order, Types, Numbered
<1>4. ForValve(r) => /\ carried <= r.id
                     /\ \A i \in 1 .. Len(work) : ForValve(work[i]) => work[i].id <= r.id
  <2>1. \A i \in 1 .. Len(work) : work[i].id \in Nat
    BY Numbers DEF Order
  <2> QED
    BY <1>3, <2>1 DEF Order, Queued
<1>5. \A q \in queue' : q \in queue /\ q.id \in Nat /\ (ForValve(r) /\ ForValve(q) => r.id < q.id)
  <2> SUFFICES ASSUME NEW q \in queue' PROVE q \in queue /\ q.id \in Nat /\ (ForValve(r) /\ ForValve(q) => r.id < q.id)
    OBVIOUS
  <2>1. q \in queue \ {r} /\ q \in Numbered
    BY <1>1 DEF Order, Types
  <2>2. Ahead(r, q)
    BY <1>1, <2>1 DEF First
  <2> QED
    BY <1>3, <2>1, <2>2 DEF Ahead, Priority, ForValve, Numbered
<1>6. CASE req' = req /\ work' = work /\ state' # "ack"
  <2>1. Types' /\ Given'
    BY <1>1, <1>2, <1>6 DEF Order, Types, Given
  <2>2. Queued' /\ InFlight' /\ Taken'
    BY <1>1, <1>2, <1>6 DEF Order, Queued, InFlight, Taken, ForValve
  <2> QED
    BY <2>1, <2>2 DEF Order
<1>7. CASE req' = r /\ work' \in {work, Append(work, r)}
  <2>1. /\ work' \in Seq(Numbered) /\ Taken'
        /\ \A i \in 1 .. Len(work') : \/ work'[i] = r
                                      \/ i \in 1 .. Len(work) /\ work'[i] = work[i]
    BY <1>2, <1>3, <1>4, <1>7, OrderedAppend DEF Order
  <2>2. Types'
    BY <1>1, <1>2, <1>3, <1>7, <2>1 DEF Order, Types
  <2>3. Given'
    BY <1>1, <1>2, <1>7, <2>1 DEF Order, Given
  <2>4. Queued'
    <3> SUFFICES ASSUME NEW q \in queue', ForValve(q)
                 PROVE  /\ carried' < q.id
                        /\ ForValve(req') => req'.id < q.id
                        /\ \A i \in 1 .. Len(work') : ForValve(work'[i]) => work'[i].id < q.id
      BY DEF Queued, ForValve
    <3>1. q \in queue /\ carried' < q.id
      BY <1>2, <1>5 DEF Order, Queued
    <3>2. ForValve(req') => req'.id < q.id
      BY <1>5, <1>7
    <3>3. ASSUME NEW i \in 1 .. Len(work'), ForValve(work'[i]) PROVE work'[i].id < q.id
      BY <1>5, <2>1, <3>1, <3>3 DEF Order, Queued
    <3> QED
      BY <3>1, <3>2, <3>3
  <2>5. InFlight'
    <3> SUFFICES ASSUME ForValve(r)
                 PROVE  /\ carried' <= r.id
                        /\ \A i \in 1 .. Len(work') : ForValve(work'[i]) => work'[i].id <= r.id
      BY <1>7 DEF InFlight, ForValve
    <3> QED
      BY <1>2, <1>3, <1>4, <2>1
  <2> QED
    BY <2>1, <2>2, <2>3, <2>4, <2>5 DEF Order
<1> QED
  BY <1>1, <1>6, <1>7

(* Sending again repeats the latest number of the work. *)
LEMMA OrderSendsAgain == Order /\ SendsAgain => Order'
PROOF
<1> SUFFICES ASSUME Order, SendsAgain PROVE Order'
  OBVIOUS
<1>1. /\ UNCHANGED <<queue, lastId, accepting, final, carried, open, intent, req, state>>
      /\ work' \in {work, Append(work, req)}
  BY DEF SendsAgain
<1>2. req \in Numbered /\ req # NoReq
  BY DEF Order, Types, SendsAgain
<1>3. /\ work' \in Seq(Numbered) /\ Taken'
      /\ \A i \in 1 .. Len(work') : \/ work'[i] = req
                                    \/ i \in 1 .. Len(work) /\ work'[i] = work[i]
  BY <1>1, <1>2, OrderedAppend DEF Order, InFlight
<1>4. Types' /\ Given'
  BY <1>1, <1>3 DEF Order, Types, Given
<1>5. Queued'
  BY <1>1, <1>3 DEF Order, Queued, ForValve
<1>6. InFlight'
  <2>1. req.id \in Nat
    BY <1>2 DEF Numbered
  <2> QED
    BY <1>1, <1>3, <2>1 DEF Order, InFlight, ForValve
<1> QED
  BY <1>3, <1>4, <1>5, <1>6 DEF Order

(* The controller acts on the earliest command of its work. *)
LEMMA OrderActs == Order /\ Acts => Order' /\ carried' >= carried
PROOF
<1> SUFFICES ASSUME Order, Acts PROVE Order' /\ carried' >= carried
  OBVIOUS
<1> DEFINE r == Head(work)
<1>1. UNCHANGED <<queue, lastId, accepting, final, intent, req, state>>
  BY DEF Acts
<1>2. /\ work' \in Seq(Numbered) /\ Len(work') = Len(work) - 1 /\ Len(work) \in Nat \ {0}
      /\ \A i \in 1 .. Len(work') : work'[i] = work[i + 1]
      /\ r = work[1] /\ r \in Numbered
  BY Shortened DEF Order, Acts
<1>3. \A i \in 1 .. Len(work') : i + 1 \in 1 .. Len(work) /\ 1 \in 1 .. Len(work)
  BY <1>2
<1>4. carried' = carried \/ (ForValve(r) /\ carried' = r.id)
  BY DEF Acts, ForValve
<1>5. carried \in Nat /\ r.id \in Nat /\ lastId \in Nat /\ 1 \in 1 .. Len(work)
  BY <1>2 DEF Order, Types, Numbered
<1>6. carried' \in Nat /\ carried' >= carried /\ carried' <= lastId
  BY <1>2, <1>4, <1>5 DEF Order, Taken, Given
<1>7. open' \subseteq Valve
  <2>1. Effect(r.msg, open) \subseteq Valve
    <3>1. r.msg \in Message
      BY <1>2 DEF Numbered
    <3>2. r.msg.letter = "A" => r.msg.addr \in Valve
      BY <3>1, Letters
    <3> QED
      BY <3>2 DEF Effect, Order, Types
  <2> QED
    BY <2>1 DEF Acts, Order, Types
<1>8. Types'
  BY <1>1, <1>2, <1>6, <1>7 DEF Order, Types
<1>9. Given'
  BY <1>1, <1>2, <1>3, <1>6 DEF Order, Given
<1>10. Queued'
  <2> SUFFICES ASSUME NEW q \in queue, ForValve(q)
               PROVE  /\ carried' < q.id
                      /\ ForValve(req) => req.id < q.id
                      /\ \A i \in 1 .. Len(work') : ForValve(work'[i]) => work'[i].id < q.id
    BY <1>1 DEF Queued, ForValve
  <2>1. carried' < q.id
    BY <1>2, <1>4, <1>5 DEF Order, Queued
  <2> QED
    BY <1>2, <1>3, <2>1 DEF Order, Queued
<1>11. InFlight'
  <2> SUFFICES ASSUME req # NoReq, ForValve(req)
               PROVE  /\ carried' <= req.id
                      /\ \A i \in 1 .. Len(work') : ForValve(work'[i]) => work'[i].id <= req.id
    BY <1>1 DEF InFlight, ForValve
  <2> QED
    BY <1>2, <1>3, <1>4, <1>5 DEF Order, InFlight
<1>12. Taken'
  <2> SUFFICES ASSUME NEW i \in 1 .. Len(work'), ForValve(work'[i])
               PROVE  /\ carried' <= work'[i].id
                      /\ \A j \in i .. Len(work') : ForValve(work'[j]) => work'[i].id <= work'[j].id
    BY DEF Taken, ForValve
  <2>1. i + 1 \in 1 .. Len(work) /\ i + 1 \in 1 .. Len(work) /\ work'[i] = work[i + 1]
    BY <1>2, <1>3
  <2>2. carried' <= work'[i].id
    BY <1>2, <1>4, <1>5, <2>1 DEF Order, Taken
  <2>3. ASSUME NEW j \in i .. Len(work'), ForValve(work'[j]) PROVE work'[i].id <= work'[j].id
    <3>1. j \in 1 .. Len(work') /\ j + 1 \in (i + 1) .. Len(work)
      BY <1>2
    <3>2. work'[j] = work[j + 1]
      BY <1>2, <3>1
    <3> QED
      BY <2>1, <2>3, <3>1, <3>2 DEF Order, Taken
  <2> QED
    BY <2>2, <2>3
<1> QED
  BY <1>6, <1>8, <1>9, <1>10, <1>11, <1>12 DEF Order

(* A new request is later than all before it. *)
LEMMA OrderPuts == Order /\ Puts => Order'
PROOF
<1> SUFFICES ASSUME Order, Puts PROVE Order'
  OBVIOUS
<1>1. UNCHANGED <<work, carried, open, req, state>> /\ lastId' = lastId + 1
  BY DEF Puts
<1>2. lastId \in Nat /\ carried \in Nat
  BY DEF Order, Types
<1>3. PICK n \in Numbered : n.id = lastId' /\ queue' = queue \cup {n}
  <2>1. ASSUME NEW w \in Who, NEW m \in Message,
               queue' = queue \cup {[id |-> lastId', who |-> w, msg |-> m]}
        PROVE  \E n \in Numbered : n.id = lastId' /\ queue' = queue \cup {n}
    <3> DEFINE n == [id |-> lastId', who |-> w, msg |-> m]
    <3>1. lastId' \in Nat \ {0}
      BY <1>1, <1>2
    <3>2. n \in Numbered /\ n.id = lastId'
      BY <3>1 DEF Numbered
    <3> QED
      BY <2>1, <3>2
  <2>2. CASE \E w \in Thread : /\ accepting /\ intent[w] # NoMsg
                               /\ queue' = queue \cup {[id |-> lastId', who |-> w, msg |-> intent[w]]}
    <3>1. PICK w \in Thread : /\ intent[w] # NoMsg
                              /\ queue' = queue \cup {[id |-> lastId', who |-> w, msg |-> intent[w]]}
      BY <2>2
    <3>2. intent[w] \in Message /\ w \in Who
      BY <3>1, Constants DEF Order, Types
    <3> QED
      BY <2>1, <3>1, <3>2
  <2>3. CASE queue' = queue \cup {[id |-> lastId', who |-> "main", msg |-> Off(AllValves)]}
    BY <2>1, <2>3, Constants
  <2> QED
    BY <2>2, <2>3 DEF Puts
<1>4. Types'
  <2>1. accepting' \in BOOLEAN
    BY DEF Puts, Order, Types
  <2>2. final' \in Nat
    BY <1>1, <1>2 DEF Puts, Order, Types
  <2>3. lastId' \in Nat /\ queue' \subseteq Numbered
    BY <1>1, <1>2, <1>3 DEF Order, Types
  <2>4. intent' \in [Thread -> Message \cup {NoMsg}]
    BY DEF Puts
  <2> QED
    BY <1>1, <2>1, <2>2, <2>3, <2>4 DEF Order, Types
<1>5. /\ \A q \in queue : q.id \in Nat /\ q.id <= lastId
      /\ req.id \in Nat /\ req.id <= lastId
      /\ \A i \in 1 .. Len(work) : work[i].id \in Nat /\ work[i].id <= lastId
  BY Numbers DEF Order, Given
<1>6. Given'
  BY <1>1, <1>2, <1>3, <1>5 DEF Order, Given
<1>7. Queued'
  <2> SUFFICES ASSUME NEW q \in queue', ForValve(q)
               PROVE  /\ carried < q.id
                      /\ ForValve(req) => req.id < q.id
                      /\ \A i \in 1 .. Len(work) : ForValve(work[i]) => work[i].id < q.id
    BY <1>1 DEF Queued, ForValve
  <2>1. CASE q \in queue
    BY <2>1 DEF Order, Queued
  <2>2. CASE q = n
    BY <1>1, <1>2, <1>3, <1>5, <2>2 DEF Order, Given
  <2> QED
    BY <1>3, <2>1, <2>2
<1>8. InFlight' /\ Taken'
  BY <1>1 DEF Order, InFlight, Taken, ForValve
<1> QED
  BY <1>4, <1>6, <1>7, <1>8 DEF Order

(* Order is inductive. *)
LEMMA OrderKept == Order /\ [Next]_vars => Order'
PROOF
  BY Steps, OrderQuiet, OrderTakes, OrderSendsAgain, OrderActs, OrderPuts DEF Order

(* There are no requests at first. *)
LEMMA OrderInitially == Init => Order
PROOF
<1> SUFFICES ASSUME Init PROVE Order
  OBVIOUS
<1>1. work = <<>> /\ Len(work) = 0 /\ work \in Seq(Numbered)
  BY DEF Init
<1>2. Types
  BY <1>1 DEF Init, Types
<1>3. Given /\ Queued /\ InFlight /\ Taken
  BY <1>1, Constants DEF Init, Given, Queued, InFlight, Taken
<1> QED
  BY <1>2, <1>3 DEF Order

(* InOrder: the controller carries out the valve commands in the order in  *)
(* which Serial.put numbered them, however often they are sent, given up   *)
(* or answered late.                                                       *)
THEOREM CarriedInOrder == Spec => InOrder
PROOF
<1>1. Order /\ [Next]_vars => [carried' >= carried]_carried
  <2> SUFFICES ASSUME Order, [Next]_vars PROVE [carried' >= carried]_carried
    OBVIOUS
  <2>1. CASE Acts
    BY <2>1, OrderActs
  <2>2. CASE ~Acts
    BY <2>2, Steps DEF Order, Quiet, Minds, Ceases, Takes, SendsAgain, Puts, core
  <2> QED
    BY <2>1, <2>2
<1> QED
  BY <1>1, OrderInitially, OrderKept, PTL DEF Spec, InOrder
------------------------------------------------------------------------------
(* Acting on a poll changes no valve, on a final request none stays on. *)
LEMMA FitsActs == Final /\ Acts => LastOnes' /\ NothingAfterFinal'
PROOF
<1> SUFFICES ASSUME Final, Acts PROVE LastOnes' /\ NothingAfterFinal'
  OBVIOUS
<1> DEFINE r == Head(work)
<1>1. UNCHANGED <<queue, lastId, accepting, final, intent, req, state>>
  BY DEF Acts
<1>2. /\ work' \in Seq(Numbered) /\ Len(work') = Len(work) - 1 /\ Len(work) \in Nat \ {0}
      /\ \A i \in 1 .. Len(work') : work'[i] = work[i + 1]
      /\ r = work[1] /\ r \in Numbered
  BY Shortened DEF Final, Order, Acts
<1>3. 1 \in 1 .. Len(work) /\ \A i \in 1 .. Len(work') : i + 1 \in 1 .. Len(work)
  BY <1>2
<1>4. Fits(r)
  BY <1>2, <1>3 DEF Final, LastOnes
<1>5. LastOnes'
  BY <1>1, <1>2, <1>3 DEF Final, LastOnes, Fits
<1>6. CASE r.who = "poll"
  <2>1. Effect(r.msg, open) = open
    BY <1>4, <1>6 DEF Fits, Effect, Poll
  <2>2. UNCHANGED <<open, carried>>
    BY <1>6, <2>1 DEF Acts
  <2> QED
    BY <1>1, <1>5, <2>2 DEF Final, NothingAfterFinal
<1>7. CASE r.who # "poll"
  <2>1. CASE UNCHANGED <<open, carried>>
    BY <1>1, <1>5, <2>1 DEF Final, NothingAfterFinal
  <2>2. CASE open' = Effect(r.msg, open) /\ carried' = r.id
    <3>1. SUFFICES ASSUME final # 0, r.id >= final PROVE open' = {}
      BY <1>1, <1>5, <2>2 DEF NothingAfterFinal
    <3>2. r.msg = Off(AllValves)
      BY <1>4, <3>1 DEF Fits
    <3>3. open' = open \ Valve
      BY <2>2, <3>2 DEF Effect, Off
    <3> QED
      BY <3>3 DEF Final, Order, Types
  <2> QED
    BY <1>7, <2>1, <2>2 DEF Acts
<1> QED
  BY <1>6, <1>7

(* After a final request only all-offs are taken, each later than before. *)
LEMMA FitsPuts == Final /\ Puts => LastOnes' /\ NothingAfterFinal'
PROOF
<1> SUFFICES ASSUME Final, Puts PROVE LastOnes' /\ NothingAfterFinal'
  OBVIOUS
<1>1. UNCHANGED <<work, carried, open, req, state>> /\ lastId' = lastId + 1
  BY DEF Puts
<1>2. lastId \in Nat /\ carried \in Nat /\ carried <= lastId /\ final \in Nat
  BY DEF Final, Order, Types, Given
<1>3. /\ \A q \in queue : q.id \in Nat /\ q.id <= lastId
      /\ req.id \in Nat /\ req.id <= lastId
      /\ \A i \in 1 .. Len(work) : work[i].id \in Nat /\ work[i].id <= lastId
  BY Numbers DEF Final, Order, Given
<1>4. \A w \in Thread : (w = "poll" /\ intent'[w] # NoMsg) => intent'[w] = Poll
  BY DEF Puts, Final, LastOnes
<1>5. CASE UNCHANGED <<accepting, final>> /\ accepting
  <2>1. PICK w \in Thread : /\ intent[w] # NoMsg
                            /\ queue' = queue \cup {[id |-> lastId', who |-> w, msg |-> intent[w]]}
    BY <1>5, Constants DEF Puts
  <2>2. final = 0 /\ final' = 0
    BY <1>5 DEF Final, LastOnes
  <2>3. w # "main" /\ (w = "poll" => intent[w] = Poll)
    BY <2>1, Constants DEF Final, LastOnes
  <2>4. \A q \in queue' : Fits(q)'
    BY <2>1, <2>2, <2>3 DEF Final, LastOnes, Fits
  <2> QED
    BY <1>1, <1>4, <1>5, <2>2, <2>4 DEF Final, LastOnes, NothingAfterFinal, Fits
<1>6. CASE /\ queue' = queue \cup {[id |-> lastId', who |-> "main", msg |-> Off(AllValves)]}
           /\ accepting' = FALSE
           /\ final' = IF final = 0 THEN lastId' ELSE final
  <2>1. final' # 0 /\ (final # 0 => final' = final) /\ (final = 0 => final' = lastId + 1)
    BY <1>1, <1>2, <1>6
  <2>2. ASSUME NEW q, Fits(q), q.id \in Nat, q.id <= lastId PROVE Fits(q)'
    BY <1>2, <2>1, <2>2 DEF Fits
  <2>3. \A q \in queue' : Fits(q)'
    BY <1>3, <1>6, <2>2 DEF Final, LastOnes, Fits
  <2>4. (req # NoReq => Fits(req)) /\ \A i \in 1 .. Len(work) : Fits(work[i])
    BY DEF Final, LastOnes
  <2>5. (req' # NoReq => Fits(req)') /\ \A i \in 1 .. Len(work') : Fits(work[i])'
    BY <1>1, <1>2, <1>3, <2>1, <2>4 DEF Fits
  <2>6. NothingAfterFinal'
    BY <1>1, <1>2, <2>1 DEF Final, NothingAfterFinal
  <2> QED
    BY <1>4, <1>6, <2>1, <2>3, <2>5, <2>6 DEF LastOnes
<1> QED
  BY <1>5, <1>6 DEF Puts

(* A request keeps its message on its way to the controller. *)
LEMMA FitsElse ==
  Final /\ (Quiet \/ Minds \/ Ceases \/ Takes \/ SendsAgain \/ UNCHANGED <<core, req, state, intent>>)
    => LastOnes' /\ NothingAfterFinal'
PROOF
<1> SUFFICES ASSUME Final,
                    Quiet \/ Minds \/ Ceases \/ Takes \/ SendsAgain \/ UNCHANGED <<core, req, state, intent>>
             PROVE  LastOnes' /\ NothingAfterFinal'
  OBVIOUS
<1>1. UNCHANGED <<lastId, accepting, final, carried, open>>
  BY DEF Quiet, Minds, Ceases, Takes, SendsAgain, core
<1>2. queue' \subseteq queue
  BY DEF Quiet, Minds, Ceases, Takes, SendsAgain, core
<1>3. (req # NoReq => Fits(req)) /\ \A q \in queue : Fits(q)
  BY DEF Final, LastOnes
<1>4. req' = NoReq \/ req' = req \/ req' \in queue
  BY DEF Quiet, Minds, Ceases, Takes, SendsAgain, core
<1>5. \E q : (q \in queue \/ (q = req /\ req # NoReq) \/ work' = work)
             /\ q \in Numbered /\ work' \in {work, Append(work, q)}
  <2>1. CASE Takes
    <3>1. PICK q \in queue : work' \in {work, Append(work, q)}
      BY <2>1 DEF Takes
    <3> QED
      BY <3>1 DEF Final, Order, Types
  <2>2. CASE SendsAgain
    BY <2>2, Constants DEF SendsAgain, Final, Order, Types
  <2>3. CASE ~Takes /\ ~SendsAgain
    <3>1. work' = work
      BY <2>3 DEF Quiet, Minds, Ceases, core
    <3>2. [id |-> 1, who |-> "main", msg |-> Poll] \in Numbered
      BY Constants DEF Numbered
    <3> QED
      BY <3>1, <3>2
  <2> QED
    BY <2>1, <2>2, <2>3
<1>6. \A i \in 1 .. Len(work') : Fits(work'[i])
  <2>1. PICK q \in Numbered : /\ q \in queue \/ (q = req /\ req # NoReq) \/ work' = work
                              /\ work' \in {work, Append(work, q)}
    BY <1>5
  <2>2. CASE work' = work
    BY <2>2 DEF Final, LastOnes
  <2>3. CASE work' # work
    <3>1. /\ Len(work') = Len(work) + 1 /\ Len(work) \in Nat
          /\ \A i \in 1 .. Len(work) : work'[i] = work[i]
          /\ work'[Len(work) + 1] = q
      BY <2>1, <2>3, Appended DEF Final, Order, Types
    <3>2. Fits(q)
      BY <1>3, <2>1, <2>3
    <3>3. ASSUME NEW i \in 1 .. Len(work') PROVE i \in 1 .. Len(work) \/ i = Len(work) + 1
      BY <3>1
    <3> QED
      BY <3>1, <3>2, <3>3 DEF Final, LastOnes
  <2> QED
    BY <2>2, <2>3
<1>7. \A w \in Thread : (w = "poll" /\ intent'[w] # NoMsg) => intent'[w] = Poll
  BY DEF Final, LastOnes, Quiet, Minds, Ceases, Takes, SendsAgain, Asks, core
<1>8. LastOnes'
  BY <1>1, <1>2, <1>3, <1>4, <1>6, <1>7 DEF Final, LastOnes, Fits
<1> QED
  BY <1>1, <1>8 DEF Final, NothingAfterFinal

LEMMA FinalInitially ==
  Init => Final
PROOF
<1> SUFFICES ASSUME Init PROVE Final
  OBVIOUS
<1>1. Order
  BY OrderInitially
<1>2. work = <<>> /\ Len(work) = 0
  BY DEF Init
<1>3. LastOnes /\ NothingAfterFinal
  BY <1>2 DEF Init, LastOnes, NothingAfterFinal
<1> QED
  BY <1>1, <1>3 DEF Final

LEMMA FinalKept ==
  Final /\ [Next]_vars => Final'
PROOF
  BY Steps, OrderKept, FitsActs, FitsPuts, FitsElse DEF Final, Order

(* NothingAfterFinal: once the controller has carried out an all-off which  *)
(* was asked for with final=True, no valve is on, whatever was queued, in  *)
(* flight or about to be asked for when the server was told to stop.       *)
THEOREM AllOffIsFinal == Spec => []NothingAfterFinal
PROOF
<1>1. Final => NothingAfterFinal
  BY DEF Final
<1> QED
  BY <1>1, FinalInitially, FinalKept, PTL DEF Spec

------------------------------------------------------------------------------
(***************************************************************************)
(* The types, with their bounds.  The numbers of requests stay within Id   *)
(* because a thread decides only while one is left for each which has      *)
(* decided, and the main thread has as many as it has tries.               *)
(***************************************************************************)
Limits ==
  /\ state = "ack" => req # NoReq
  /\ lastId + Cardinality(Deciding) <= MaxRequests + finals
  /\ server \in {"running", "stopping"} => finals = 0
Typed == TypeOK /\ Limits

(* At most two threads decide. *)
LEMMA DecidingFinite ==
  IsFiniteSet(Deciding) /\ Cardinality(Deciding) \in Nat
PROOF
<1>1. IsFiniteSet({"valve", "poll"})
  <2>1. IsFiniteSet({} \cup {"valve"})
    BY FS_EmptySet, FS_AddElement
  <2>2. IsFiniteSet(({} \cup {"valve"}) \cup {"poll"})
    BY <2>1, FS_AddElement
  <2>3. ({} \cup {"valve"}) \cup {"poll"} = {"valve", "poll"}
    OBVIOUS
  <2> QED
    BY <2>2, <2>3
<1>2. Deciding \in SUBSET {"valve", "poll"}
  BY SerialAssumption DEF Deciding, SerialAssumption
<1> QED
  BY <1>1, <1>2, FS_Subset, FS_CardinalityType

(* Some of those who decide are no more than all of them. *)
LEMMA FewerDeciding ==
  ASSUME NEW D \in SUBSET Deciding
  PROVE  Cardinality(D) \in Nat /\ Cardinality(D) <= Cardinality(Deciding)
PROOF
  BY DecidingFinite, FS_Subset, FS_CardinalityType

(* Whoever may ask for a command has a number left. *)
LEMMA NumberLeft ==
  ASSUME Typed, Deciding # {} \/ finals < FinalTries
  PROVE  lastId + 1 \in Id
PROOF
<1>1. Deciding # {} => Cardinality(Deciding) >= 1
  BY DecidingFinite, FS_EmptySet
<1>2. lastId \in Nat /\ finals \in 0 .. FinalTries
  BY SerialAssumption DEF Typed, TypeOK, Id, SerialAssumption
<1> QED
  BY <1>1, <1>2, DecidingFinite, SerialAssumption DEF Typed, Limits, Id, SerialAssumption

(* The values which stand for nothing are none of the values they stand for. *)
LEMMA Marks ==
  /\ NoReq \notin Request /\ \A k \in {"ACK", "NAK", "damaged"} : Mark(k) \in Arrival
  /\ \A r \in Reply : Frame(r) \in Arrival
  /\ \A m \in Message : ReplyTo(m) \in Reply /\ Zee(m) \in Reply
PROOF
<1>1. NoReq \notin Request
  BY SerialAssumption DEF NoReq, Request, Id, SerialAssumption
<1>2. \A m \in Message : m.letter \in {"A", "D", "E"} /\ m.addr \in Valve \cup {AllValves, NoAddr}
  BY DEF Message, On, Off, Poll
<1> QED
  BY <1>1, <1>2 DEF Arrival, ReplyTo, Zee, Reply

FailureTypes == faults \in 0 .. MaxFaults /\ lost \in BOOLEAN

(* A failure counts towards the bound. *)
LEMMA FaultTyped ==
  ASSUME TypeOK, NEW kind, Fault(kind) \/ UNCHANGED failures
  PROVE  FailureTypes'
PROOF
<1>1. CASE UNCHANGED failures
  BY <1>1 DEF TypeOK, FailureTypes, failures
<1>2. CASE Fault(kind)
  <2>1. faults' \in 0 .. MaxFaults
    BY <1>2, SerialAssumption DEF TypeOK, Fault, SerialAssumption
  <2>2. lost' = (lost \/ kind \in {"sentence", "zee"})
    BY <1>2 DEF Fault
  <2>3. lost' \in BOOLEAN
    BY <2>2, Zenon
  <2> QED
    BY <2>1, <2>3 DEF FailureTypes
<1> QED
  BY <1>1, <1>2

LEMMA SendTyped ==
  ASSUME TypeOK, NEW r \in Request, NEW before \in Seq(Arrival), Send(r, before)
  PROVE  work' \in Seq(Request) /\ toHost' \in Seq(Arrival) /\ FailureTypes'
PROOF
<1>1. FailureTypes'
  BY FaultTyped DEF Send, LineFault
<1>2. Append(work, r) \in Seq(Request)
  BY DEF TypeOK
<1>3. Append(before, Mark("ACK")) \in Seq(Arrival) /\ Append(before, Mark("NAK")) \in Seq(Arrival)
  BY Marks
<1> QED
  BY <1>1, <1>2, <1>3 DEF Send, TypeOK

(* What is read has arrived; the rest is still on its way. *)
LEMMA ReadTyped ==
  ASSUME TypeOK, toHost # <<>>
  PROVE  Tail(toHost) \in Seq(Arrival)
PROOF
  BY DEF TypeOK

LEMMA DeliverTyped ==
  ASSUME TypeOK, NEW a \in Reply \cup {Nothing}, Deliver(a)
  PROVE  /\ answer' \in [Who -> Reply \cup {Waiting, Nothing}]
         /\ UNCHANGED <<intent, slot, abandoned>>
PROOF
  BY DEF TypeOK, Deliver

(* The limits do not depend on what the serial thread and the line do. *)
LEMMA LimitsElse ==
  ASSUME Typed, UNCHANGED <<intent, slot, lastId, server, finals>>,
         state' = "ack" => req' # NoReq
  PROVE  Limits'
PROOF
<1>1. Deciding' = Deciding
  BY DEF Deciding
<1> QED
  BY <1>1 DEF Typed, Limits

(* The controller and the line. *)
LEMMA LineTyped ==
  Typed /\ Line => Typed'
PROOF
<1> SUFFICES ASSUME Typed, Line PROVE Typed'
  OBVIOUS
<1> USE DEF asking, serial, waits, main, controller, failures, FailureTypes
<1>1. CASE Act
  <2> DEFINE r == Head(work)
  <2>0. r \in Request /\ Tail(work) \in Seq(Request)
    <3>1. work \in Seq(Request) /\ work # <<>>
      BY <1>1 DEF Act, Typed, TypeOK
    <3> QED
      BY <3>1
  <2>1. r.msg \in Message /\ r.id \in Id
    BY <2>0 DEF Request
  <2>2. ReplyTo(r.msg) \in Reply /\ Zee(r.msg) \in Reply
    BY <2>1, Marks
  <2>3. FailureTypes'
    BY <1>1, FaultTyped DEF Act, Answers, AnswersInVain, LineFault, Typed
  <2>4. ASSUME NEW reply \in Reply, Answers(reply) \/ AnswersInVain(reply)
        PROVE  owed' \in SUBSET Reply /\ toHost' \in Seq(Arrival)
    <3>1. toHost \in Seq(Arrival) /\ owed \in SUBSET Reply
      BY DEF Typed, TypeOK
    <3>2. Frame(reply) \in Arrival /\ Mark("damaged") \in Arrival
      BY Marks
    <3>3. Append(toHost, Frame(reply)) \in Seq(Arrival) /\ Append(toHost, Mark("damaged")) \in Seq(Arrival)
      BY <3>1, <3>2
    <3> QED
      BY <2>4, <3>1, <3>3 DEF Answers, AnswersInVain
  <2>5. owed' \in SUBSET Reply /\ toHost' \in Seq(Arrival)
    BY <1>1, <2>2, <2>4 DEF Act
  <2>6. ASSUME NEW on \in SUBSET Valve PROVE Effect(r.msg, on) \in SUBSET Valve
    BY <2>1, Letters DEF Effect
  <2>7. open' \in SUBSET Valve /\ carried' \in Id \cup {0}
    BY <1>1, <2>1, <2>6 DEF Act, Typed, TypeOK
  <2>8. TypeOK'
    BY <1>1, <2>0, <2>3, <2>5, <2>7 DEF Act, Typed, TypeOK
  <2> QED
    BY <1>1, <2>8, LimitsElse DEF Act, Typed, Limits
<1>2. CASE SendAgain
  <2>1. toHost' \in Seq(Arrival)
    <3>1. PICK r \in owed : toHost' = Append(toHost, Frame(r))
      BY <1>2 DEF SendAgain
    <3>2. Frame(r) \in Arrival /\ toHost \in Seq(Arrival)
      BY <3>1, Marks DEF Typed, TypeOK
    <3> QED
      BY <3>1, <3>2
  <2>2. TypeOK'
    BY <1>2, <2>1 DEF SendAgain, Typed, TypeOK
  <2> QED
    BY <1>2, <2>2, LimitsElse DEF SendAgain, Typed, Limits
<1> QED
  BY <1>1, <1>2 DEF Line

(* What the serial thread does to the line and to the requester. *)
LineTypes ==
  /\ work \in Seq(Request) /\ toHost \in Seq(Arrival) /\ owed \in SUBSET Reply
  /\ FailureTypes
ThreadTypes ==
  /\ state \in {"idle", "ack", "reply", "reconnect", "dead"}
  /\ req \in Request \cup {NoReq} /\ tried \in 0 .. SendTries
  /\ answer \in [Who -> Reply \cup {Waiting, Nothing}]
  /\ state = "ack" => req # NoReq

LEMMA AnswerTyped ==
  ASSUME Typed, NEW a \in Reply \cup {Nothing}, Answer(a)
  PROVE  ThreadTypes' /\ UNCHANGED <<stop, intent, slot, abandoned>>
PROOF
  BY DeliverTyped, SerialAssumption DEF Typed, Answer, ThreadTypes, Loop, SerialAssumption

LEMMA ReadMessageTyped ==
  ASSUME Typed, NEW r \in Reply, ReadMessage(r)
  PROVE  LineTypes' /\ UNCHANGED <<open, carried>>
PROOF
<1>1. FailureTypes'
  BY FaultTyped DEF ReadMessage, LineFault, Typed
<1> QED
  BY <1>1, ReadTyped DEF ReadMessage, LineTypes, Typed, TypeOK

LEMMA ReadMarkTyped ==
  ASSUME Typed, NEW kind, ReadMark(kind)
  PROVE  LineTypes' /\ UNCHANGED <<open, carried>>
PROOF
  BY ReadTyped DEF ReadMark, LineTypes, FailureTypes, Typed, TypeOK, controller, failures

LEMMA TakeFrameTyped ==
  ASSUME Typed, TakeFrame
  PROVE  LineTypes' /\ ThreadTypes' /\ UNCHANGED <<open, carried, stop, intent, slot, abandoned>>
PROOF
<1>1. PICK r \in Reply : ReadMessage(r) /\ (Answer(r) \/ StayWaiting)
  BY DEF TakeFrame
<1>2. LineTypes' /\ UNCHANGED <<open, carried>>
  BY <1>1, ReadMessageTyped
<1>3. CASE Answer(r)
  BY <1>2, <1>3, AnswerTyped
<1>4. CASE StayWaiting
  BY <1>2, <1>4 DEF StayWaiting, serial, waits, ThreadTypes, Typed, Limits, TypeOK
<1> QED
  BY <1>1, <1>3, <1>4

LEMMA TryAgainTyped ==
  ASSUME Typed, state = "ack", NEW before \in Seq(Arrival), TryAgain(before)
  PROVE  LineTypes' /\ ThreadTypes' /\ UNCHANGED <<open, carried, stop, intent, slot, abandoned>>
PROOF
<1>1. CASE tried < SendTries /\ Send(req, before)
  <2>1. req \in Request
    BY DEF Typed, TypeOK, Limits
  <2>2. LineTypes'
    BY <1>1, <2>1, SendTyped DEF TryAgain, LineTypes, Typed, TypeOK
  <2>3. tried' \in 0 .. SendTries
    BY <1>1, SerialAssumption DEF TryAgain, Typed, TypeOK, SerialAssumption
  <2> QED
    BY <1>1, <2>2, <2>3 DEF TryAgain, ThreadTypes, Typed, TypeOK, Limits, waits
<1>2. CASE tried = SendTries /\ Answer(Nothing)
  BY <1>2, AnswerTyped DEF TryAgain, LineTypes, FailureTypes, controller, failures, Typed, TypeOK
<1> QED
  BY <1>1, <1>2 DEF TryAgain

(* What the serial thread takes from the queue. *)
LEMMA TakeRequestTyped ==
  ASSUME Typed, TakeRequest
  PROVE  LineTypes' /\ ThreadTypes' /\ abandoned' \in SUBSET Id /\ queue' \in SUBSET Request
PROOF
<1>1. PICK r \in queue :
        /\ queue' = queue \ {r}
        /\ \/ /\ abandoned' = abandoned \ {r.id} /\ state' = Loop
              /\ UNCHANGED <<req, tried, toHost, controller, failures>>
           \/ /\ state' = "ack" /\ req' = r /\ tried' = 1
              /\ Send(r, toHost)
              /\ UNCHANGED <<owed, open, carried, abandoned>>
  BY DEF TakeRequest
<1>2. r \in Request /\ r # NoReq
  BY <1>1, Marks DEF Typed, TypeOK
<1>3. Loop \in {"dead", "idle"}
  BY DEF Loop
<1>4. abandoned' \in SUBSET Id /\ queue' \in SUBSET Request
  BY <1>1 DEF Typed, TypeOK
<1>5. answer' = answer
  BY DEF TakeRequest
<1>6. CASE state' = Loop /\ UNCHANGED <<req, tried, toHost, controller, failures>>
  BY <1>3, <1>4, <1>5, <1>6 DEF controller, failures, LineTypes, FailureTypes, ThreadTypes, Typed, TypeOK
<1>7. CASE state' = "ack" /\ req' = r /\ tried' = 1 /\ Send(r, toHost) /\ owed' = owed
  <2>1. LineTypes'
    BY <1>2, <1>7, SendTyped DEF LineTypes, Typed, TypeOK
  <2>2. 1 \in 0 .. SendTries
    BY SerialAssumption DEF SerialAssumption
  <2> QED
    BY <1>2, <1>4, <1>5, <1>7, <2>1, <2>2 DEF ThreadTypes, Typed, TypeOK
<1> QED
  BY <1>1, <1>6, <1>7

LEMMA DispatchTyped ==
  Typed /\ Dispatch => Typed'
PROOF
<1> SUFFICES ASSUME Typed, Dispatch PROVE Typed'
  OBVIOUS
<1> USE DEF asking, serial, waits, main, controller, failures, FailureTypes
<1>1. ASSUME LineTypes', ThreadTypes', UNCHANGED <<intent, slot, lastId, accepting, final, server, finals>>,
             queue' \in SUBSET Request, stop' \in BOOLEAN, abandoned' \in SUBSET Id,
             UNCHANGED <<open, carried>>
      PROVE  Typed'
  <2>1. TypeOK'
    BY <1>1 DEF LineTypes, ThreadTypes, Typed, TypeOK
  <2>2. Limits'
    BY <1>1, LimitsElse DEF ThreadTypes
  <2> QED
    BY <2>1, <2>2 DEF Typed
<1>2. /\ UNCHANGED <<intent, slot, lastId, accepting, final, server, finals, stop>>
      /\ ~TakeRequest => UNCHANGED <<queue, abandoned>>
  <2>1. CASE TakeRequest
    BY <2>1 DEF TakeRequest
  <2>2. CASE DropPending \/ Reconnect \/ StopSerial
    BY <2>2 DEF DropPending, Reconnect, StopSerial
  <2>3. CASE PortError \/ ReplyTimeout
    BY <2>3 DEF PortError, ReplyTimeout, Answer, Deliver
  <2>4. ASSUME NEW before, TryAgain(before) PROVE UNCHANGED <<intent, slot, abandoned, stop>>
    BY <2>4 DEF TryAgain, Answer, Deliver
  <2>5. ASSUME TakeFrame PROVE UNCHANGED <<intent, slot, abandoned, stop>>
    BY <2>5 DEF TakeFrame, Answer, Deliver, StayWaiting
  <2>6. CASE ReadAck
    BY <2>4, <2>5, <2>6 DEF ReadAck, StayWaiting
  <2>7. CASE AckTimeout
    BY <2>4, <2>7 DEF AckTimeout
  <2>8. CASE ReadReply
    BY <2>5, <2>8 DEF ReadReply, StayWaiting
  <2> QED
    BY <2>1, <2>2, <2>3, <2>6, <2>7, <2>8 DEF Dispatch
<1>3. stop \in BOOLEAN /\ queue \in SUBSET Request /\ abandoned \in SUBSET Id
  BY DEF Typed, TypeOK
<1>4. ASSUME UNCHANGED serial PROVE answer' = answer => ThreadTypes'
  BY <1>4 DEF ThreadTypes, Typed, TypeOK, Limits
<1>5. CASE TakeRequest
  <2>1. UNCHANGED <<open, carried>>
    BY <1>5 DEF TakeRequest
  <2> QED
    BY <1>1, <1>2, <1>3, <1>5, <2>1, TakeRequestTyped
<1>6. ASSUME LineTypes', ThreadTypes', UNCHANGED <<open, carried>>, ~TakeRequest PROVE Typed'
  BY <1>1, <1>2, <1>3, <1>6
<1>7. LineTypes
  BY DEF LineTypes, Typed, TypeOK
<1>8. CASE DropPending /\ ~TakeRequest
  <2>1. LineTypes' /\ UNCHANGED <<open, carried>>
    BY <1>8, ReadMessageTyped, ReadMarkTyped DEF DropPending
  <2> QED
    BY <1>4, <1>6, <1>8, <2>1 DEF DropPending
<1>9. CASE ReadAck /\ ~TakeRequest
  <2>1. state = "ack" /\ (toHost # <<>> => Tail(toHost) \in Seq(Arrival))
    BY <1>9, ReadTyped DEF ReadAck, Serving, Typed
  <2>2. CASE toHost # <<>> /\ TryAgain(Tail(toHost))
    BY <1>6, <1>9, <2>1, <2>2, TryAgainTyped
  <2>3. CASE TakeFrame
    BY <1>6, <1>9, <2>3, TakeFrameTyped
  <2>4. CASE ReadMark("ACK") /\ state' = "reply" /\ UNCHANGED <<req, tried, stop, waits>>
    BY <1>6, <1>9, <2>4, ReadMarkTyped DEF ThreadTypes, Typed, TypeOK
  <2>5. CASE ReadMark("damaged") /\ StayWaiting
    BY <1>4, <1>6, <1>9, <2>5, ReadMarkTyped DEF StayWaiting
  <2> QED
    BY <1>9, <2>2, <2>3, <2>4, <2>5 DEF ReadAck
<1>10. CASE AckTimeout /\ ~TakeRequest
  <2>1. toHost \in Seq(Arrival) /\ state = "ack" /\ TryAgain(toHost)
    BY <1>10 DEF AckTimeout, Serving, Typed, TypeOK
  <2> QED
    BY <1>6, <1>10, <2>1, TryAgainTyped
<1>11. CASE ReadReply /\ ~TakeRequest
  <2>1. CASE TakeFrame
    BY <1>6, <1>11, <2>1, TakeFrameTyped
  <2>2. CASE \E kind \in {"ACK", "NAK", "damaged"} : ReadMark(kind) /\ StayWaiting
    BY <1>4, <1>6, <1>11, <2>2, ReadMarkTyped DEF StayWaiting
  <2> QED
    BY <1>11, <2>1, <2>2 DEF ReadReply
<1>12. CASE ReplyTimeout /\ ~TakeRequest
  <2>1. FailureTypes'
    BY <1>12, FaultTyped DEF ReplyTimeout, Typed
  <2>2. LineTypes'
    BY <1>7, <1>12, <2>1 DEF ReplyTimeout, LineTypes
  <2> QED
    BY <1>6, <1>12, <2>2, AnswerTyped DEF ReplyTimeout
<1>13. CASE PortError /\ ~TakeRequest
  <2>1. FailureTypes' /\ answer' \in [Who -> Reply \cup {Waiting, Nothing}]
    BY <1>13, FaultTyped, DeliverTyped DEF PortError, Typed
  <2>2. LineTypes'
    BY <1>7, <1>13, <2>1 DEF PortError, LineTypes
  <2>3. ThreadTypes'
    BY <1>13, <2>1, SerialAssumption DEF PortError, ThreadTypes, SerialAssumption
  <2> QED
    BY <1>6, <1>13, <2>2, <2>3 DEF PortError
<1>14. CASE (Reconnect \/ StopSerial) /\ ~TakeRequest
  <2>1. <<>> \in Seq(Arrival)
    OBVIOUS
  <2>2. LineTypes'
    BY <1>7, <1>14, <2>1 DEF Reconnect, StopSerial, LineTypes
  <2>3. ThreadTypes'
    BY <1>14 DEF Reconnect, StopSerial, Loop, ThreadTypes, Typed, TypeOK
  <2> QED
    BY <1>6, <1>14, <2>2, <2>3 DEF Reconnect, StopSerial
<1> QED
  BY <1>5, <1>8, <1>9, <1>10, <1>11, <1>12, <1>13, <1>14 DEF Dispatch

(* A request which is put has the next number; then its requester waits.   *)
LEMMA PutTyped ==
  ASSUME Typed, NEW w \in Who, NEW m \in Message, NEW isFinal \in BOOLEAN, Put(w, m, isFinal),
         accepting \/ isFinal => lastId + 1 \in Id
  PROVE  /\ queue' \in SUBSET Request /\ lastId' \in Id \cup {0} /\ accepting' \in BOOLEAN
         /\ slot' \in [Who -> Id \cup {0}] /\ answer' \in [Who -> Reply \cup {Waiting, Nothing}]
         /\ abandoned' \in SUBSET Id /\ final' \in Id \cup {0}
         /\ \A t \in Who \ {w} : slot'[t] = slot[t]
         /\ IF accepting \/ isFinal THEN lastId' = lastId + 1 /\ slot'[w] # 0
            ELSE lastId' = lastId /\ slot' = slot
PROOF
<1>1. /\ queue \in SUBSET Request /\ lastId \in Id \cup {0} /\ accepting \in BOOLEAN
      /\ slot \in [Who -> Id \cup {0}] /\ answer \in [Who -> Reply \cup {Waiting, Nothing}]
      /\ abandoned \in SUBSET Id /\ final \in Id \cup {0}
  BY DEF Typed, TypeOK
<1>2. CASE accepting \/ isFinal
  <2>1. /\ lastId' = lastId + 1 /\ lastId' \in Id
        /\ queue' = queue \cup {[id |-> lastId', who |-> w, msg |-> m]}
        /\ slot' = [slot EXCEPT ![w] = lastId'] /\ answer' = [answer EXCEPT ![w] = Waiting]
        /\ abandoned' = abandoned
    BY <1>2 DEF Put
  <2>2. [id |-> lastId', who |-> w, msg |-> m] \in Request
    BY <2>1 DEF Request
  <2>3. accepting' \in BOOLEAN /\ final' \in Id \cup {0}
    BY <1>1, <2>1 DEF Put
  <2>4. lastId' # 0
    BY <2>1, SerialAssumption DEF Id, SerialAssumption
  <2>5. slot'[w] # 0 /\ \A t \in Who \ {w} : slot'[t] = slot[t]
    BY <1>1, <2>1, <2>4
  <2> QED
    BY <1>1, <1>2, <2>1, <2>2, <2>3, <2>5
<1>3. CASE ~(accepting \/ isFinal)
  BY <1>1, <1>3 DEF Put
<1> QED
  BY <1>2, <1>3

(* A thread which decides leaves a number to each which has decided. *)
LEMMA DecideTyped ==
  ASSUME Typed, NEW w \in Thread, Decide(w)
  PROVE  Typed'
PROOF
<1> USE DEF asking, serial, main, controller, failures
<1>1. PICK m \in Asks(w) : intent' = [intent EXCEPT ![w] = m]
  BY DEF Decide
<1>2. m \in Message
  BY <1>1, Constants DEF Asks
<1>3. TypeOK'
  BY <1>1, <1>2 DEF Decide, Typed, TypeOK
<1>4. Deciding' \in SUBSET (Deciding \cup {w})
  BY <1>1 DEF Decide, Deciding, Typed, TypeOK
<1>5. Cardinality(Deciding') \in Nat /\ Cardinality(Deciding') <= Cardinality(Deciding) + 1
  <2>1. /\ IsFiniteSet(Deciding \cup {w}) /\ Cardinality(Deciding \cup {w}) \in Nat
        /\ Cardinality(Deciding \cup {w}) <= Cardinality(Deciding) + 1
    <3>1. /\ IsFiniteSet(Deciding \cup {w})
          /\ Cardinality(Deciding \cup {w})
               = IF w \in Deciding THEN Cardinality(Deciding) ELSE Cardinality(Deciding) + 1
      BY DecidingFinite, FS_AddElement
    <3> QED
      BY <3>1, DecidingFinite
  <2>2. /\ IsFiniteSet(Deciding')
        /\ Cardinality(Deciding') <= Cardinality(Deciding \cup {w})
    BY <1>4, <2>1, FS_Subset
  <2>3. Cardinality(Deciding') \in Nat
    BY <2>2, FS_CardinalityType
  <2> QED
    BY <2>1, <2>2, <2>3, DecidingFinite
<1>6. lastId \in Nat /\ finals \in Nat
  BY SerialAssumption DEF Typed, TypeOK, Id, SerialAssumption
<1>7. lastId' + Cardinality(Deciding') <= MaxRequests + finals'
  BY <1>5, <1>6, DecidingFinite, SerialAssumption DEF Decide, SerialAssumption
<1> QED
  BY <1>3, <1>7 DEF Decide, Typed, Limits

(* One which asks uses the number which was left to it. *)
LEMMA AskTyped ==
  ASSUME Typed, NEW w \in Thread, Ask(w)
  PROVE  Typed'
PROOF
<1> USE DEF serial, main, controller, failures
<1>1. w \in Deciding /\ w \in Who /\ Deciding # {}
  BY Constants DEF Ask
<1>2. intent[w] \in Message /\ accepting \in BOOLEAN
  BY <1>1 DEF Deciding, Typed, TypeOK
<1>3. /\ queue' \in SUBSET Request /\ lastId' \in Id \cup {0} /\ accepting' \in BOOLEAN
      /\ slot' \in [Who -> Id \cup {0}] /\ answer' \in [Who -> Reply \cup {Waiting, Nothing}]
      /\ abandoned' \in SUBSET Id /\ final' \in Id \cup {0}
      /\ \A t \in Who \ {w} : slot'[t] = slot[t]
      /\ IF accepting THEN lastId' = lastId + 1 /\ slot'[w] # 0
         ELSE lastId' = lastId /\ slot' = slot
  BY <1>1, <1>2, NumberLeft, PutTyped DEF Ask
<1>4. intent' \in [Thread -> Message \cup {NoMsg}] /\ \A t \in Thread \ {w} : intent'[t] = intent[t]
  BY DEF Ask, Typed, TypeOK
<1>5. TypeOK'
  BY <1>3, <1>4 DEF Ask, Typed, TypeOK
<1>6. intent'[w] = NoMsg \/ slot'[w] # 0
  BY <1>3 DEF Ask, Typed, TypeOK
<1>7. Deciding' = Deciding \ {w}
  <2>1. \A t \in Thread \ {w} : t \in Who \ {w}
    BY Constants
  <2> QED
    BY <1>3, <1>4, <1>6, <2>1 DEF Deciding
<1>8. Cardinality(Deciding') = Cardinality(Deciding) - 1
  BY <1>1, <1>7, DecidingFinite, FS_RemoveElement
<1>9. lastId \in Nat /\ finals \in Nat
  BY SerialAssumption DEF Typed, TypeOK, Id, SerialAssumption
<1>10. lastId' + Cardinality(Deciding') <= MaxRequests + finals'
  BY <1>3, <1>8, <1>9, DecidingFinite, SerialAssumption DEF Ask, Typed, Limits, SerialAssumption
<1> QED
  BY <1>5, <1>10 DEF Ask, Typed, Limits

(* Who is done with a request decides anew. *)
LEMMA WaiterTyped ==
  Typed /\ Waiter => Typed'
PROOF
<1> SUFFICES ASSUME Typed, NEW w \in Who, TakeAnswer(w) \/ GiveUp(w) PROVE Typed'
  BY DEF Waiter
<1> USE DEF asking, serial, main, controller, failures
<1>1. Done(w)
  BY DEF TakeAnswer, GiveUp
<1>2. abandoned' \in SUBSET Id
  <2>1. \A r \in queue : r.id \in Id
    BY DEF Typed, TypeOK, Request
  <2> QED
    BY <2>1 DEF TakeAnswer, GiveUp, Typed, TypeOK
<1>3. TypeOK'
  BY <1>1, <1>2 DEF Done, Typed, TypeOK
<1>4. Deciding' \in SUBSET Deciding
  BY <1>1, Constants DEF Done, Deciding, Typed, TypeOK
<1>5. lastId \in Nat /\ finals \in Nat
  BY SerialAssumption DEF Typed, TypeOK, Id, SerialAssumption
<1>6. lastId' + Cardinality(Deciding') <= MaxRequests + finals'
  BY <1>1, <1>4, <1>5, FewerDeciding, DecidingFinite, SerialAssumption
     DEF Done, Typed, Limits, SerialAssumption
<1> QED
  BY <1>1, <1>3, <1>6 DEF Done, Typed, Limits

(* The main thread has as many numbers as it has tries. *)
LEMMA ServerTyped ==
  Typed /\ Server => Typed'
PROOF
<1> SUFFICES ASSUME Typed, Server PROVE Typed'
  OBVIOUS
<1> USE DEF asking, serial, waits, main, controller, failures, FailureTypes
<1>0. lastId \in Nat /\ finals \in 0 .. FinalTries /\ FinalTries \in Nat \ {0}
  BY SerialAssumption DEF Typed, TypeOK, Id, SerialAssumption
<1>1. CASE StopThreads
  <2>1. TypeOK'
    BY <1>1 DEF StopThreads, Typed, TypeOK
  <2>2. Deciding' = Deciding
    BY <1>1 DEF StopThreads, Deciding
  <2> QED
    BY <1>1, <2>1, <2>2 DEF StopThreads, Typed, Limits
<1>2. CASE AllOffNow
  <2>1. finals < FinalTries
    BY <1>0, <1>2 DEF AllOffNow, Typed, Limits
  <2>2. lastId + 1 \in Id /\ "main" \in Who /\ Off(AllValves) \in Message
    BY <2>1, NumberLeft, Constants
  <2>3. /\ queue' \in SUBSET Request /\ lastId' \in Id \cup {0} /\ accepting' \in BOOLEAN
        /\ slot' \in [Who -> Id \cup {0}] /\ answer' \in [Who -> Reply \cup {Waiting, Nothing}]
        /\ abandoned' \in SUBSET Id /\ final' \in Id \cup {0}
        /\ \A t \in Who \ {"main"} : slot'[t] = slot[t]
        /\ lastId' = lastId + 1
    BY <1>2, <2>2, PutTyped DEF AllOffNow
  <2>4. finals' \in 0 .. FinalTries
    BY <1>0, <1>2, <2>1 DEF AllOffNow
  <2>5. TypeOK'
    BY <1>2, <2>3, <2>4 DEF AllOffNow, Typed, TypeOK
  <2>6. Deciding' = Deciding
    <3>1. \A t \in Thread : t \in Who \ {"main"}
      BY Constants
    <3> QED
      BY <1>2, <2>3, <3>1 DEF AllOffNow, Deciding
  <2>7. lastId' + Cardinality(Deciding') <= MaxRequests + finals'
    BY <1>0, <1>2, <2>3, <2>6, DecidingFinite, SerialAssumption
       DEF AllOffNow, Typed, Limits, SerialAssumption
  <2> QED
    BY <1>2, <2>5, <2>7 DEF AllOffNow, Typed, Limits
<1>3. CASE CloseSerial
  <2>1. TypeOK'
    BY <1>3 DEF CloseSerial, Typed, TypeOK
  <2>2. Deciding' = Deciding
    BY <1>3 DEF CloseSerial, Deciding
  <2> QED
    BY <1>3, <2>1, <2>2 DEF CloseSerial, Typed, Limits
<1>4. CASE Gone /\ (Fault("signal") \/ UNCHANGED failures)
  <2>1. FailureTypes'
    BY <1>4, FaultTyped DEF Typed
  <2>2. 0 \in 0 .. SendTries /\ <<>> \in Seq(Arrival)
    BY SerialAssumption DEF SerialAssumption
  <2>3. TypeOK'
    BY <1>4, <2>1, <2>2 DEF Gone, Typed, TypeOK
  <2>4. Deciding' \in SUBSET Deciding
    BY <1>4 DEF Gone, Deciding
  <2>5. lastId' + Cardinality(Deciding') <= MaxRequests + finals'
    BY <1>0, <1>4, <2>4, FewerDeciding, DecidingFinite, SerialAssumption
       DEF Gone, Typed, Limits, SerialAssumption
  <2> QED
    BY <1>4, <2>3, <2>5 DEF Gone, Typed, Limits
<1> QED
  BY <1>1, <1>2, <1>3, <1>4 DEF Server, Exit, SignalAgain

LEMMA TypedInitially ==
  Init => Typed
PROOF
<1> SUFFICES ASSUME Init PROVE Typed
  OBVIOUS
<1>1. TypeOK
  <2>1. 0 \in 0 .. SendTries /\ 0 \in 0 .. FinalTries /\ 0 \in 0 .. MaxFaults
    BY SerialAssumption DEF SerialAssumption
  <2>2. <<>> \in Seq(Arrival) /\ <<>> \in Seq(Request)
    OBVIOUS
  <2> QED
    BY <2>1, <2>2 DEF Init, TypeOK
<1>2. Deciding = {}
  BY DEF Init, Deciding
<1>3. Cardinality(Deciding) = 0
  BY <1>2, FS_EmptySet
<1> QED
  BY <1>1, <1>3, SerialAssumption DEF Init, Typed, Limits, SerialAssumption

LEMMA TypedKept ==
  Typed /\ [Next]_vars => Typed'
PROOF
<1> SUFFICES ASSUME Typed, [Next]_vars PROVE Typed'
  OBVIOUS
<1>1. CASE Over \/ UNCHANGED vars
  <2>1. UNCHANGED vars
    BY <1>1 DEF Over
  <2>2. Deciding' = Deciding
    BY <2>1 DEF vars, waits, Deciding
  <2> QED
    BY <2>1, <2>2 DEF vars, asking, serial, waits, main, controller, failures, Typed, TypeOK, Limits
<1>2. CASE Requester
  BY <1>2, DecideTyped, AskTyped DEF Requester
<1> QED
  BY <1>1, <1>2, LineTyped, DispatchTyped, WaiterTyped, ServerTyped DEF Next

(* TypeOK, with its bounds: no request lacks a number, no sentence is sent *)
(* more than SEND_TRIES times, and what is sent, taken, answered and given *)
(* up is what the protocol has.                                            *)
THEOREM TypeCorrect == Spec => []TypeOK
PROOF
<1>1. Typed => TypeOK
  BY DEF Typed
<1> QED
  BY <1>1, TypedInitially, TypedKept, PTL DEF Spec

------------------------------------------------------------------------------
(***************************************************************************)
(* What a requester has a confirmation of is so: first, how the valves     *)
(* which will be on depend on the work of the controller.                  *)
(***************************************************************************)
(* Of a message only its effect matters. *)
LEMMA Effects ==
  ASSUME NEW m \in Message, NEW S \in SUBSET Valve
  PROVE  /\ Effect(m, S) = {v \in Valve : TurnsOn(m, v) \/ (v \in S /\ ~TurnsOff(m, v))}
         /\ Effect(m, S) \in SUBSET Valve /\ Effect(m, Effect(m, S)) = Effect(m, S)
         /\ \A v \in Valve : ~(TurnsOn(m, v) /\ TurnsOff(m, v))
         /\ m = Poll => Effect(m, S) = S
PROOF
<1>1. CASE m \in {On(v) : v \in Valve}
  <2>1. PICK v \in Valve : m = On(v)
    BY <1>1
  <2>2. m.letter = "A" /\ m.addr = v /\ m # Poll
    BY <2>1 DEF On, Poll
  <2> QED
    BY <2>2 DEF Effect, TurnsOn, TurnsOff
<1>2. CASE m \in {Off(a) : a \in Valve \cup {AllValves}}
  <2>1. PICK a \in Valve \cup {AllValves} : m = Off(a)
    BY <1>2
  <2>2. m.letter = "D" /\ m.addr = a /\ m # Poll
    BY <2>1 DEF Off, Poll
  <2>3. CASE a = AllValves
    BY <2>2, <2>3 DEF Effect, TurnsOn, TurnsOff
  <2>4. CASE a # AllValves
    BY <2>1, <2>2, <2>4, SerialAssumption DEF Effect, TurnsOn, TurnsOff, SerialAssumption
  <2> QED
    BY <2>3, <2>4
<1>3. CASE m = Poll
  BY <1>3 DEF Poll, Effect, TurnsOn, TurnsOff
<1> QED
  BY <1>1, <1>2, <1>3 DEF Message

(* When the controller acts on a sentence, what will be on stays the same. *)
LEMMA SettledActs ==
  ASSUME Types, work # <<>>, work' = Tail(work), open' = Effect(Head(work).msg, open)
  PROVE  Settled' = Settled
PROOF
<1> DEFINE n == Len(work)
<1>1. /\ n \in Nat \ {0} /\ Len(work') = n - 1
      /\ \A i \in 1 .. n - 1 : work'[i] = work[i + 1]
      /\ Head(work) = work[1] /\ work[1] \in Numbered
  BY Shortened
<1>2. work[1].msg \in Message /\ open \in SUBSET Valve
  BY <1>1 DEF Numbered, Types
<1>3. \A v \in Valve : v \in open' <=> TurnsOn(work[1].msg, v) \/ (v \in open /\ ~TurnsOff(work[1].msg, v))
  BY <1>1, <1>2, Effects
<1>4. \A v \in Valve : ~(TurnsOn(work[1].msg, v) /\ TurnsOff(work[1].msg, v))
  BY <1>2, Effects
<1>5. ASSUME NEW v \in Valve, v \in Settled PROVE v \in Settled'
  <2>1. PICK i \in 0 .. n : /\ IF i = 0 THEN v \in open ELSE TurnsOn(work[i].msg, v)
                            /\ \A j \in i + 1 .. n : ~TurnsOff(work[j].msg, v)
    BY <1>5 DEF Settled
  <2> DEFINE k == IF i = 0 THEN 0 ELSE i - 1
  <2>2. k \in 0 .. n - 1 /\ (k = 0 <=> i \in {0, 1}) /\ (k # 0 => i = k + 1)
    BY <1>1, <2>1
  <2>3. IF k = 0 THEN v \in open' ELSE TurnsOn(work'[k].msg, v)
    <3>1. CASE i = 0
      <4>1. 1 \in i + 1 .. n
        BY <1>1, <3>1
      <4> QED
        BY <1>3, <2>1, <2>2, <3>1, <4>1
    <3>2. CASE i = 1
      BY <1>3, <2>1, <2>2, <3>2
    <3>3. CASE i > 1
      <4>1. k \in 1 .. n - 1 /\ k # 0 /\ k + 1 = i
        BY <2>1, <2>2, <3>3
      <4>2. work'[k] = work[i]
        BY <1>1, <4>1
      <4> QED
        BY <2>1, <3>3, <4>1, <4>2
    <3> QED
      BY <2>1, <3>1, <3>2, <3>3
  <2>4. ASSUME NEW j \in k + 1 .. n - 1 PROVE ~TurnsOff(work'[j].msg, v)
    <3>1. j \in 1 .. n - 1 /\ j + 1 \in i + 1 .. n
      BY <1>1, <2>1, <2>2
    <3> QED
      BY <1>1, <2>1, <3>1
  <2> HIDE DEF k
  <2> QED
    BY <1>1, <2>2, <2>3, <2>4 DEF Settled
<1>6. ASSUME NEW v \in Valve, v \in Settled' PROVE v \in Settled
  <2>1. PICK k \in 0 .. n - 1 : /\ IF k = 0 THEN v \in open' ELSE TurnsOn(work'[k].msg, v)
                                /\ \A j \in k + 1 .. n - 1 : ~TurnsOff(work'[j].msg, v)
    BY <1>1, <1>6 DEF Settled
  <2>2. ASSUME NEW j \in k + 2 .. n PROVE ~TurnsOff(work[j].msg, v)
    <3>1. j - 1 \in k + 1 .. n - 1 /\ j - 1 \in 1 .. n - 1 /\ (j - 1) + 1 = j
      BY <1>1, <2>1
    <3>2. work'[j - 1] = work[j]
      BY <1>1, <3>1
    <3> QED
      BY <2>1, <3>1, <3>2
  <2>3. CASE k # 0
    <3>1. k + 1 \in 0 .. n /\ k + 1 # 0 /\ work'[k] = work[k + 1] /\ (k + 1) + 1 = k + 2
      BY <1>1, <2>1, <2>3
    <3> DEFINE i == k + 1
    <3>2. i \in 0 .. n /\ i # 0 /\ TurnsOn(work[i].msg, v)
          /\ \A j \in i + 1 .. n : ~TurnsOff(work[j].msg, v)
      BY <2>1, <2>2, <2>3, <3>1
    <3> HIDE DEF i
    <3> QED
      BY <3>2 DEF Settled
  <2>4. CASE k = 0 /\ TurnsOn(work[1].msg, v)
    <3>1. 1 \in 0 .. n /\ \A j \in 2 .. n : ~TurnsOff(work[j].msg, v)
      BY <1>1, <2>2, <2>4
    <3> QED
      BY <2>4, <3>1 DEF Settled
  <2>5. CASE k = 0 /\ v \in open /\ ~TurnsOff(work[1].msg, v)
    <3>1. ASSUME NEW j \in 1 .. n PROVE ~TurnsOff(work[j].msg, v)
      <4>1. j = 1 \/ j \in 2 .. n
        BY <1>1
      <4> QED
        BY <2>2, <2>5, <4>1
    <3>2. 0 \in 0 .. n
      BY <1>1
    <3> QED
      BY <2>5, <3>1, <3>2 DEF Settled
  <2> QED
    BY <1>3, <2>1, <2>3, <2>4, <2>5
<1> QED
  BY <1>5, <1>6 DEF Settled

(* A sentence which it takes will have its effect after all the others. *)
LEMMA SettledAppends ==
  ASSUME Types, NEW r \in Numbered, work' = Append(work, r), open' = open
  PROVE  Settled' = Effect(r.msg, Settled)
PROOF
<1> DEFINE n == Len(work)
<1>1. /\ n \in Nat /\ Len(work') = n + 1
      /\ \A i \in 1 .. n : work'[i] = work[i]
      /\ work'[n + 1] = r
  BY Appended DEF Types
<1>2. r.msg \in Message /\ Settled \in SUBSET Valve
  BY DEF Numbered, Settled
<1>3. Effect(r.msg, Settled)
        = {v \in Valve : TurnsOn(r.msg, v) \/ (v \in Settled /\ ~TurnsOff(r.msg, v))}
  BY <1>2, Effects
<1>4. ASSUME NEW v \in Valve, TurnsOn(r.msg, v) PROVE v \in Settled'
  <2>1. n + 1 \in 0 .. n + 1 /\ n + 1 # 0 /\ ((n + 1) + 1) .. (n + 1) = {}
    BY <1>1
  <2> DEFINE i == n + 1
  <2>2. /\ i \in 0 .. Len(work') /\ i # 0 /\ TurnsOn(work'[i].msg, v)
        /\ \A j \in i + 1 .. Len(work') : ~TurnsOff(work'[j].msg, v)
    BY <1>1, <1>4, <2>1
  <2> HIDE DEF i
  <2> QED
    BY <2>2 DEF Settled
<1>5. ASSUME NEW v \in Valve, v \in Settled, ~TurnsOff(r.msg, v) PROVE v \in Settled'
  <2>1. PICK i \in 0 .. n : /\ IF i = 0 THEN v \in open ELSE TurnsOn(work[i].msg, v)
                            /\ \A j \in i + 1 .. n : ~TurnsOff(work[j].msg, v)
    BY <1>5 DEF Settled
  <2>2. i \in 0 .. n + 1 /\ (i # 0 => i \in 1 .. n)
    BY <1>1, <2>1
  <2>3. ASSUME NEW j \in i + 1 .. n + 1 PROVE ~TurnsOff(work'[j].msg, v)
    <3>1. j = n + 1 \/ (j \in i + 1 .. n /\ j \in 1 .. n)
      BY <1>1, <2>1
    <3> QED
      BY <1>1, <1>5, <2>1, <3>1
  <2>4. IF i = 0 THEN v \in open' ELSE TurnsOn(work'[i].msg, v)
    BY <1>1, <2>1, <2>2
  <2> QED
    BY <1>1, <2>2, <2>3, <2>4 DEF Settled
<1>6. ASSUME NEW v \in Valve, v \in Settled', ~TurnsOn(r.msg, v)
      PROVE  v \in Settled /\ ~TurnsOff(r.msg, v)
  <2>1. PICK i \in 0 .. n + 1 : /\ IF i = 0 THEN v \in open ELSE TurnsOn(work'[i].msg, v)
                                /\ \A j \in i + 1 .. n + 1 : ~TurnsOff(work'[j].msg, v)
    BY <1>1, <1>6 DEF Settled
  <2>2. i # n + 1
    BY <1>1, <1>6, <2>1
  <2>3. i \in 0 .. n /\ (i # 0 => i \in 1 .. n) /\ n + 1 \in i + 1 .. n + 1
    BY <1>1, <2>1, <2>2
  <2>4. \A j \in i + 1 .. n : j \in i + 1 .. n + 1 /\ j \in 1 .. n
    BY <1>1, <2>1
  <2>5. IF i = 0 THEN v \in open ELSE TurnsOn(work[i].msg, v)
    BY <1>1, <2>1, <2>3
  <2>6. \A j \in i + 1 .. n : ~TurnsOff(work[j].msg, v)
    BY <1>1, <2>1, <2>4
  <2> QED
    BY <1>1, <2>1, <2>3, <2>5, <2>6 DEF Settled
<1> QED
  BY <1>3, <1>4, <1>5, <1>6 DEF Settled

(***************************************************************************)
(* Next, whose the requests are.  One in the queue is waited for, or given *)
(* up, or its thread has been stopped; and once the all-off of the main    *)
(* thread has been taken, no other valve request is in the queue.          *)
(***************************************************************************)
WaitedFor(r) == slot[r.who] = r.id /\ answer[r.who] = Waiting
Stopped(r) ==
  /\ server # "running" /\ r.who \in Thread
  /\ \/ slot[r.who] = r.id /\ answer[r.who] = Nothing
     \/ slot[r.who] = 0 /\ intent[r.who] = NoMsg
InQueue ==
  \A r \in queue : (ForValve(r) /\ r.id \notin abandoned) => WaitedFor(r) \/ Stopped(r)

Meant(r) == (r.who \in Thread /\ slot[r.who] = r.id) => intent[r.who] = r.msg
Meaning ==
  /\ \A r \in queue : Meant(r)
  /\ req # NoReq => Meant(req)
  /\ \A w \in Thread : slot[w] # 0 => intent[w] # NoMsg

OnlyMain == \A r \in queue : ForValve(r) => r.who = "main"
MainLast ==
  /\ server \in {"running", "stopping"} => slot["main"] = 0
  /\ slot["main"] # 0 => final # 0
  /\ final <= lastId
  /\ \A r \in queue : r.who = "main" => final # 0 /\ final <= r.id
  /\ (req # NoReq /\ req.who = "main") => final # 0 /\ OnlyMain
  /\ Confirmed("main") => OnlyMain

Busy == state \in {"ack", "reply"}
Links == InQueue /\ Meaning /\ MainLast /\ (~Busy => req = NoReq)
Linked == Typed /\ Final /\ Links

(* Nothing, and an empty queue, confirm nothing. *)
LEMMA NoConfirmation ==
  ASSUME Typed, NEW w \in Who \ {"poll"}, Confirmed(w)
  PROVE  answer[w] \notin {Waiting, Nothing} /\ slot[w] # 0 /\ MessageOf(w) \in Message \cup {NoMsg}
PROOF
<1>1. MessageOf(w) \in Message \cup {NoMsg}
  BY Constants DEF MessageOf, Typed, TypeOK, Who
<1> QED
  BY <1>1 DEF Confirmed, Confirms, Waiting, Nothing

(* Only the main thread's own request can be the one which is confirmed. *)
LEMMA Others ==
  ASSUME Linked, NEW r \in queue, ForValve(r), r.id \notin abandoned,
         NEW w \in Who \ {"poll"}, Confirmed(w)
  PROVE  r.who = "main" /\ w # "main" /\ ~accepting
PROOF
<1>1. answer[w] \notin {Waiting, Nothing} /\ slot[w] # 0
  BY NoConfirmation DEF Linked
<1>2. WaitedFor(r) \/ Stopped(r)
  BY DEF Linked, Links, InQueue
<1>3. r.who # w
  BY <1>1, <1>2 DEF WaitedFor, Stopped
<1>4. r.who \in Who /\ r.who # "poll"
  BY DEF Linked, Typed, TypeOK, Request, ForValve
<1>5. CASE w = "main"
  BY <1>3, <1>5 DEF Linked, Links, MainLast, OnlyMain
<1>6. CASE w # "main"
  <2>1. w = "valve" /\ r.who = "main"
    BY <1>3, <1>4, <1>6, SerialAssumption DEF Who, SerialAssumption
  <2>2. final # 0
    BY <2>1 DEF Linked, Links, MainLast
  <2>3. ~accepting
    BY <2>2 DEF Linked, Final, LastOnes
  <2> QED
    BY <2>1, <2>3
<1> QED
  BY <1>5, <1>6

(* Steps which move no request and no answer. *)
LEMMA LinksSame ==
  ASSUME Linked, queue' \subseteq queue, UNCHANGED <<abandoned, waits, server, final, lastId>>,
         req' \in {req, NoReq}, Busy' \/ req' = NoReq
  PROVE  Links'
PROOF
<1>1. \A r : (WaitedFor(r)' <=> WaitedFor(r)) /\ (Stopped(r)' <=> Stopped(r)) /\ (Meant(r)' <=> Meant(r))
  BY DEF waits, WaitedFor, Stopped, Meant
<1>2. Confirmed("main")' <=> Confirmed("main")
  BY DEF waits, Confirmed, MessageOf
<1>3. OnlyMain => OnlyMain'
  BY DEF OnlyMain
<1>4. InQueue' /\ Meaning'
  BY <1>1 DEF Linked, Links, InQueue, Meaning, waits
<1>5. MainLast'
  BY <1>2, <1>3 DEF Linked, Links, MainLast, waits
<1> QED
  BY <1>4, <1>5 DEF Links

(* The serial thread is done with the request in flight. *)
LEMMA LinksAnswer ==
  ASSUME Linked, NEW a, Deliver(a), UNCHANGED <<queue, server, final, lastId>>, req' = NoReq
  PROVE  Links'
PROOF
<1>1. UNCHANGED <<intent, slot, abandoned>> /\ answer \in [Who -> Reply \cup {Waiting, Nothing}]
  BY DEF Deliver, Linked, Typed, TypeOK
<1>2. \A w \in Who : (w # req.who \/ slot[w] # req.id) => answer'[w] = answer[w]
  BY <1>1 DEF Deliver
<1>3. ASSUME NEW r \in queue, ForValve(r) PROVE r.who # req.who \/ r.id # req.id
  <2>1. CASE req = NoReq
    <3>1. r.who \in Who /\ req.who = "none"
      BY <2>1 DEF NoReq, Linked, Typed, TypeOK, Request
    <3> QED
      BY <3>1, SerialAssumption DEF Who, SerialAssumption
  <2>2. CASE req # NoReq /\ ForValve(req)
    <3>1. req.id < r.id /\ req.id \in Nat
      BY <1>3, <2>2, Numbers DEF Linked, Final, Order, Queued
    <3> QED
      BY <3>1
  <2>3. CASE ~ForValve(req)
    BY <1>3, <2>3 DEF ForValve
  <2> QED
    BY <2>1, <2>2, <2>3
<1>4. ASSUME NEW r \in queue, ForValve(r)
      PROVE  (WaitedFor(r) => WaitedFor(r)') /\ (Stopped(r) => Stopped(r)')
  <2>1. r.who \in Who
    BY DEF Linked, Typed, TypeOK, Request
  <2>2. slot[r.who] = r.id => answer'[r.who] = answer[r.who]
    BY <1>2, <1>3, <1>4, <2>1
  <2> QED
    BY <1>1, <2>2 DEF WaitedFor, Stopped
<1>5. InQueue'
  BY <1>1, <1>4 DEF Linked, Links, InQueue, ForValve
<1>6. Meaning'
  BY <1>1 DEF Linked, Links, Meaning, Meant
<1>7. OnlyMain' <=> OnlyMain
  BY DEF OnlyMain, ForValve
<1>8. Confirmed("main")' => Confirmed("main") \/ (req # NoReq /\ req.who = "main")
  <2>1. "main" \in Who
    BY Constants
  <2>2. CASE req.who = "main"
    <3>1. req # NoReq
      BY <2>2 DEF NoReq
    <3> QED
      BY <2>2, <3>1
  <2>3. CASE req.who # "main"
    BY <1>1, <1>2, <2>1, <2>3 DEF Confirmed, MessageOf
  <2> QED
    BY <2>2, <2>3
<1>9. MainLast'
  BY <1>1, <1>7, <1>8 DEF Linked, Links, MainLast
<1> QED
  BY <1>5, <1>6, <1>9 DEF Links

(* A request is taken from the queue. *)
LEMMA LinksTake ==
  ASSUME Linked, TakeRequest
  PROVE  Links'
PROOF
<1>1. PICK r \in queue :
        /\ First(r) /\ queue' = queue \ {r}
        /\ \/ abandoned' = abandoned \ {r.id} /\ state' = Loop /\ req' = req
           \/ abandoned' = abandoned /\ state' = "ack" /\ req' = r
  BY DEF TakeRequest
<1>2. UNCHANGED <<intent, slot, answer, server, final, lastId>> /\ req = NoReq
  BY DEF TakeRequest, Serving, main, Linked, Links, Busy
<1>3. \A q \in queue : q \in Numbered /\ q.id \in Nat \ {0}
  BY Numbers DEF Linked, Final, Order
<1>4. ASSUME NEW q \in queue', ForValve(q) PROVE ForValve(r) /\ r.id < q.id
  <2>1. Ahead(r, q) /\ Priority(q) = 0
    BY <1>1, <1>4 DEF First, Priority, ForValve
  <2> QED
    BY <1>4, <2>1 DEF Ahead, Priority, ForValve
<1>5. \A q : (WaitedFor(q)' <=> WaitedFor(q)) /\ (Stopped(q)' <=> Stopped(q)) /\ (Meant(q)' <=> Meant(q))
  BY <1>2 DEF WaitedFor, Stopped, Meant
<1>6. InQueue'
  <2> SUFFICES ASSUME NEW q \in queue', ForValve(q), q.id \notin abandoned'
               PROVE  WaitedFor(q) \/ Stopped(q)
    BY <1>5 DEF InQueue, ForValve
  <2>1. q.id # r.id
    BY <1>1, <1>3, <1>4
  <2>2. q \in queue /\ q.id \notin abandoned
    BY <1>1, <2>1
  <2> QED
    BY <2>2 DEF Linked, Links, InQueue
<1>7. Meaning'
  BY <1>1, <1>2, <1>5 DEF Linked, Links, Meaning
<1>8. OnlyMain => OnlyMain'
  BY <1>1 DEF OnlyMain, ForValve
<1>9. Confirmed("main")' <=> Confirmed("main")
  BY <1>2 DEF Confirmed, MessageOf
<1>10. r.who = "main" => OnlyMain'
  <2> SUFFICES ASSUME r.who = "main", NEW q \in queue', ForValve(q) PROVE q.who = "main"
    BY DEF OnlyMain, ForValve
  <2>1. final # 0 /\ final <= r.id /\ final \in Nat
    BY DEF Linked, Links, MainLast, Final, Order, Types
  <2>2. q \in queue /\ q.id >= final
    BY <1>1, <1>3, <1>4, <2>1
  <2> QED
    BY <2>1, <2>2 DEF Linked, Final, LastOnes, Fits
<1>11. MainLast'
  BY <1>1, <1>2, <1>8, <1>9, <1>10 DEF Linked, Links, MainLast
<1>12. Busy' \/ req' = NoReq
  BY <1>1, <1>2 DEF Busy
<1> QED
  BY <1>6, <1>7, <1>11, <1>12 DEF Links

(* A new request has a number of its own, and whoever puts it waits for no *)
(* other: one the requester has in the queue was given up.                 *)
LEMMA LinksPut ==
  ASSUME Linked, NEW w \in Who, NEW m \in Message, lastId + 1 \in Id,
         slot[w] = 0, lastId' = lastId + 1,
         queue' = queue \cup {[id |-> lastId', who |-> w, msg |-> m]},
         slot' = [slot EXCEPT ![w] = lastId'], answer' = [answer EXCEPT ![w] = Waiting],
         w \in Thread => intent[w] = m /\ intent[w] # NoMsg /\ accepting /\ final' = final,
         w = "main" => final' = (IF final = 0 THEN lastId' ELSE final) /\ server' \notin {"running", "stopping"},
         server' = "running" => server = "running",
         server' \in {"running", "stopping"} => server \in {"running", "stopping"},
         UNCHANGED <<intent, abandoned, req, state>>
  PROVE  Links'
PROOF
<1> DEFINE new == [id |-> lastId', who |-> w, msg |-> m]
<1>0. /\ slot \in [Who -> Id \cup {0}] /\ answer \in [Who -> Reply \cup {Waiting, Nothing}]
      /\ lastId \in Nat /\ lastId' # 0
  <2>1. lastId \in Nat
    BY DEF Linked, Final, Order, Types
  <2> QED
    BY <2>1 DEF Linked, Typed, TypeOK
<1>1. /\ \A q \in queue : q \in Numbered /\ q.id \in Nat \ {0} /\ q.id < lastId'
      /\ req.id \in Nat /\ req.id < lastId'
  BY <1>0, Numbers DEF Linked, Final, Order, Given
<1>2. slot'[w] = lastId' /\ answer'[w] = Waiting
      /\ \A t \in Who \ {w} : slot'[t] = slot[t] /\ answer'[t] = answer[t]
  BY <1>0
<1>3. ASSUME NEW q \in queue, ForValve(q), q.id \notin abandoned
      PROVE  q.who \in Who \ {w}
  <2>1. q.who \in Who
    BY <1>3 DEF Linked, Typed, TypeOK, Request
  <2>2. WaitedFor(q) \/ Stopped(q)
    BY <1>3 DEF Linked, Links, InQueue
  <2>3. CASE q.who = w
    <3>1. slot[w] # q.id
      BY <1>1, <1>3
    <3>2. w \in Thread /\ intent[w] = NoMsg
      BY <2>2, <2>3, <3>1 DEF WaitedFor, Stopped
    <3> QED
      BY <3>2
  <2> QED
    BY <2>1, <2>3
<1>4. InQueue'
  <2> SUFFICES ASSUME NEW q \in queue', ForValve(q), q.id \notin abandoned
               PROVE  WaitedFor(q)' \/ Stopped(q)'
    BY DEF InQueue, ForValve
  <2>1. CASE q \in queue
    <3>1. WaitedFor(q) \/ Stopped(q)
      BY <2>1 DEF Linked, Links, InQueue
    <3>2. slot'[q.who] = slot[q.who] /\ answer'[q.who] = answer[q.who]
      BY <1>2, <1>3, <2>1
    <3> QED
      BY <3>1, <3>2 DEF WaitedFor, Stopped
  <2>2. CASE q = new
    BY <1>2, <2>2 DEF WaitedFor
  <2> QED
    BY <2>1, <2>2
<1>5. Meaning'
  <2>1. ASSUME NEW q, Meant(q), q.id \in Nat, q.id < lastId' PROVE Meant(q)'
    <3>1. CASE q.who = w
      BY <1>0, <1>2, <2>1, <3>1 DEF Meant
    <3>2. CASE q.who # w
      BY <1>2, <2>1, <3>2, Constants DEF Meant
    <3> QED
      BY <3>1, <3>2
  <2>2. new.who = w /\ new.msg = m /\ (w \in Thread => intent'[w] = m)
    OBVIOUS
  <2>3. ASSUME NEW q \in queue' PROVE Meant(q)'
    <3>1. CASE q \in queue
      <4>1. Meant(q)
        BY <3>1 DEF Linked, Links, Meaning
      <4> QED
        BY <1>1, <2>1, <3>1, <4>1
    <3>2. CASE q = new
      BY <2>2, <3>2 DEF Meant
    <3> QED
      BY <3>1, <3>2
  <2>4. req # NoReq => Meant(req)'
    <3> SUFFICES ASSUME req # NoReq PROVE Meant(req)'
      OBVIOUS
    <3>1. Meant(req)
      BY DEF Linked, Links, Meaning
    <3>2. CASE req.who \in Thread \ {w}
      BY <1>2, <3>1, <3>2, Constants DEF Meant
    <3>3. CASE req.who = w
      BY <1>1, <1>2, <3>3 DEF Meant
    <3> QED
      BY <3>2, <3>3 DEF Meant
  <2>5. \A t \in Thread : slot'[t] # 0 => intent'[t] # NoMsg
    BY <1>2, Constants DEF Linked, Links, Meaning
  <2> QED
    BY <2>3, <2>4, <2>5 DEF Meaning
<1>6. final \in Nat /\ (accepting <=> final = 0)
  BY DEF Linked, Final, Order, Types, LastOnes
<1>7. MainLast'
  <2>1. CASE w = "main"
    <3>1. OnlyMain => OnlyMain'
      BY <2>1 DEF OnlyMain, ForValve
    <3>2. ~Confirmed("main")'
      BY <1>2, <2>1 DEF Confirmed, MessageOf, Confirms, IsReplyTo, Waiting, Off
    <3>3. final' # 0 /\ (final # 0 => final' = final) /\ final' <= lastId'
      <4>1. final <= lastId
        BY DEF Linked, Links, MainLast
      <4> QED
        BY <1>0, <1>6, <2>1, <4>1
    <3>4. \A q \in queue' : q.who = "main" => final' # 0 /\ final' <= q.id
      BY <3>3 DEF Linked, Links, MainLast
    <3> QED
      BY <2>1, <3>1, <3>2, <3>3, <3>4 DEF Linked, Links, MainLast
  <2>2. CASE w # "main"
    <3>1. w \in Thread /\ final = 0 /\ final' = 0
      BY <1>6, <2>2 DEF Who
    <3>2. slot["main"] = 0 /\ slot'["main"] = 0
      BY <1>2, <2>2, <3>1, Constants DEF Linked, Links, MainLast
    <3>3. ~Confirmed("main")'
      BY <3>2 DEF Confirmed
    <3>4. \A q \in queue' : q.who # "main"
      BY <2>2, <3>1 DEF Linked, Links, MainLast
    <3>5. req = NoReq \/ req.who # "main"
      BY <3>1 DEF Linked, Links, MainLast
    <3> QED
      BY <1>0, <3>1, <3>2, <3>3, <3>4, <3>5 DEF MainLast
  <2> QED
    BY <2>1, <2>2
<1> QED
  BY <1>4, <1>5, <1>7 DEF Linked, Links, Busy

(* Threads decide and ask; the answer to what is not accepted is Nothing. *)
LEMMA LinksRequester ==
  ASSUME Linked, NEW w \in Thread, Decide(w) \/ Ask(w)
  PROVE  Links'
PROOF
<1> USE DEF serial, main
<1>0. /\ intent \in [Thread -> Message \cup {NoMsg}] /\ slot \in [Who -> Id \cup {0}]
      /\ answer \in [Who -> Reply \cup {Waiting, Nothing}] /\ w \in Who /\ w # "main"
  BY Constants DEF Linked, Typed, TypeOK
<1>1. CASE Decide(w)
  <2>1. /\ server = "running" /\ intent[w] = NoMsg /\ \A t \in Thread \ {w} : intent'[t] = intent[t]
        /\ UNCHANGED <<queue, slot, answer, abandoned, server, final, lastId, req, state>>
    BY <1>0, <1>1 DEF Decide, asking
  <2>2. slot[w] = 0
    BY <2>1 DEF Linked, Links, Meaning
  <2>3. InQueue'
    BY <2>1 DEF Linked, Links, InQueue, WaitedFor, Stopped
  <2>4. \A q \in queue : q.id # 0
    BY Numbers DEF Linked, Final, Order
  <2>5. Meant(req)' \/ req = NoReq
    <3>1. req # NoReq => req.id # 0
      BY DEF Linked, Final, Order, Types, Numbered
    <3> QED
      BY <2>1, <2>2, <3>1 DEF Linked, Links, Meaning, Meant
  <2>6. Meaning'
    BY <2>1, <2>2, <2>4, <2>5 DEF Linked, Links, Meaning, Meant
  <2>7. MainLast'
    BY <2>1 DEF Linked, Links, MainLast, Confirmed, MessageOf, OnlyMain
  <2> QED
    BY <2>1, <2>3, <2>6, <2>7 DEF Linked, Links, Busy
<1>2. CASE Ask(w) /\ accepting
  <2>1. w \in Deciding /\ intent[w] \in Message /\ intent[w] # NoMsg /\ slot[w] = 0
    BY <1>0, <1>2 DEF Ask, Deciding
  <2>2. lastId + 1 \in Id
    BY <2>1, NumberLeft DEF Linked
  <2>3. /\ lastId' = lastId + 1
        /\ queue' = queue \cup {[id |-> lastId', who |-> w, msg |-> intent[w]]}
        /\ slot' = [slot EXCEPT ![w] = lastId'] /\ answer' = [answer EXCEPT ![w] = Waiting]
        /\ final' = final /\ abandoned' = abandoned
    BY <1>2 DEF Ask, Put
  <2>4. UNCHANGED <<intent, req, state, server>>
    BY <1>2 DEF Ask
  <2> QED
    BY <1>0, <1>2, <2>1, <2>2, <2>3, <2>4, LinksPut
<1>3. CASE Ask(w) /\ ~accepting
  <2>1. /\ intent[w] # NoMsg /\ slot[w] = 0
        /\ intent' = [intent EXCEPT ![w] = NoMsg] /\ answer' = [answer EXCEPT ![w] = Nothing]
        /\ UNCHANGED <<queue, slot, abandoned, server, final, lastId, req, state>>
    BY <1>3 DEF Ask, Deciding, Put
  <2>2. \A q \in queue : q.id # 0
    BY Numbers DEF Linked, Final, Order
  <2>3. InQueue'
    <3> SUFFICES ASSUME NEW q \in queue, ForValve(q), q.id \notin abandoned
                 PROVE  WaitedFor(q)' \/ Stopped(q)'
      BY <2>1 DEF InQueue, ForValve
    <3>1. WaitedFor(q) \/ Stopped(q)
      BY DEF Linked, Links, InQueue
    <3>2. q.who # w
      BY <2>1, <2>2, <3>1 DEF WaitedFor, Stopped
    <3>3. answer'[q.who] = answer[q.who] /\ (q.who \in Thread => intent'[q.who] = intent[q.who])
      BY <1>0, <2>1, <3>2
    <3> QED
      BY <2>1, <3>1, <3>3 DEF WaitedFor, Stopped
  <2>4. req = NoReq \/ Meant(req)'
    <3>1. req # NoReq => req.id # 0
      BY DEF Linked, Final, Order, Types, Numbered
    <3> QED
      BY <1>0, <2>1, <3>1 DEF Linked, Links, Meaning, Meant
  <2>5. Meaning'
    BY <1>0, <2>1, <2>2, <2>4 DEF Linked, Links, Meaning, Meant
  <2>6. answer'["main"] = answer["main"]
    BY <1>0, <2>1, Constants
  <2>7. MainLast'
    BY <2>1, <2>6 DEF Linked, Links, MainLast, Confirmed, MessageOf, OnlyMain
  <2> QED
    BY <2>1, <2>3, <2>5, <2>7 DEF Linked, Links, Busy
<1> QED
  BY <1>1, <1>2, <1>3

(* Whoever is done with a request leaves none in the queue which is not    *)
(* given up, unless it was stopped.                                        *)
LEMMA LinksWaiter ==
  ASSUME Linked, Waiter
  PROVE  Links'
PROOF
<1>1. PICK w \in Who : TakeAnswer(w) \/ GiveUp(w)
  BY DEF Waiter
<1>2. /\ slot' = [slot EXCEPT ![w] = 0] /\ answer' = [answer EXCEPT ![w] = Nothing]
      /\ intent' = [t \in Thread |-> IF t = w THEN NoMsg ELSE intent[t]]
      /\ UNCHANGED <<queue, lastId, accepting, final, req, state, server>>
      /\ slot[w] # 0
  BY <1>1 DEF TakeAnswer, GiveUp, Done, asking, serial, main
<1>3. /\ slot \in [Who -> Id \cup {0}] /\ answer \in [Who -> Reply \cup {Waiting, Nothing}]
      /\ intent \in [Thread -> Message \cup {NoMsg}] /\ "main" \in Who
  BY Constants DEF Linked, Typed, TypeOK
<1>4. slot'[w] = 0 /\ \A t \in Who \ {w} : slot'[t] = slot[t] /\ answer'[t] = answer[t]
  BY <1>2, <1>3
<1>5. \A q \in queue : q.id # 0 /\ q.who \in Who
  BY Numbers DEF Linked, Final, Order, Typed, TypeOK, Request
<1>6. InQueue'
  <2> SUFFICES ASSUME NEW q \in queue, ForValve(q), q.id \notin abandoned'
               PROVE  WaitedFor(q)' \/ Stopped(q)'
    BY <1>2 DEF InQueue, ForValve
  <2>1. q.id \notin abandoned
    BY <1>1 DEF TakeAnswer, GiveUp
  <2>2. WaitedFor(q) \/ Stopped(q)
    BY <2>1 DEF Linked, Links, InQueue
  <2>3. CASE q.who # w
    BY <1>2, <1>4, <1>5, <2>2, <2>3 DEF WaitedFor, Stopped
  <2>4. CASE q.who = w /\ TakeAnswer(w)
    <3>1. Stopped(q)
      BY <2>2, <2>4 DEF WaitedFor, TakeAnswer
    <3> QED
      BY <1>2, <1>4, <2>4, <3>1 DEF Stopped
  <2>5. CASE q.who = w /\ GiveUp(w)
    <3>1. slot[w] = q.id
      BY <1>2, <2>2, <2>5 DEF WaitedFor, Stopped
    <3>2. q.id \in abandoned'
      BY <2>5, <3>1 DEF GiveUp
    <3> QED
      BY <3>2
  <2> QED
    BY <1>1, <2>3, <2>4, <2>5
<1>7. Meaning'
  <2>1. ASSUME NEW q, Meant(q), q.id # 0 PROVE Meant(q)'
    BY <1>2, <1>4, <2>1, Constants DEF Meant
  <2>2. req # NoReq => req.id # 0
    BY DEF Linked, Final, Order, Types, Numbered
  <2>3. req # NoReq => Meant(req)'
    BY <1>2, <1>4, <2>2, Constants DEF Linked, Links, Meaning, Meant
  <2>4. \A t \in Thread : slot'[t] # 0 => intent'[t] # NoMsg
    BY <1>2, <1>4, Constants DEF Linked, Links, Meaning
  <2>5. \A q \in queue' : Meant(q)'
    BY <1>2, <1>5, <2>1 DEF Linked, Links, Meaning
  <2> QED
    BY <1>2, <2>3, <2>4, <2>5 DEF Meaning
<1>8. Confirmed("main")' => Confirmed("main")
  BY <1>3, <1>4 DEF Confirmed, MessageOf
<1>9. slot'["main"] # 0 => slot["main"] # 0
  BY <1>3, <1>4
<1>10. MainLast'
  BY <1>2, <1>3, <1>4, <1>8, <1>9 DEF Linked, Links, MainLast, OnlyMain
<1> QED
  BY <1>2, <1>6, <1>7, <1>10 DEF Linked, Links, Busy

(* The main thread stops the others first, and then asks for its all-off. *)
LEMMA LinksServer ==
  ASSUME Linked, Server
  PROVE  Links'
PROOF
<1> USE DEF asking, serial, waits, main
<1>0. /\ slot \in [Who -> Id \cup {0}] /\ answer \in [Who -> Reply \cup {Waiting, Nothing}]
      /\ "main" \in Who /\ "main" \notin Thread /\ Off(AllValves) \in Message
  BY Constants DEF Linked, Typed, TypeOK
<1>1. CASE StopThreads
  <2>1. /\ server = "running" /\ server' = "stopping"
        /\ answer' = [w \in Who |-> IF answer[w] = Waiting THEN Nothing ELSE answer[w]]
        /\ UNCHANGED <<queue, lastId, final, req, state, intent, slot, abandoned>>
    BY <1>1 DEF StopThreads
  <2>2. InQueue'
    <3> SUFFICES ASSUME NEW q \in queue, ForValve(q), q.id \notin abandoned PROVE Stopped(q)'
      BY <2>1 DEF InQueue, ForValve
    <3>1. WaitedFor(q)
      BY <2>1 DEF Linked, Links, InQueue, Stopped
    <3>2. q.who \in Who /\ q.id # 0
      BY Numbers DEF Linked, Final, Order, Typed, TypeOK, Request
    <3>3. q.who # "main"
      BY <2>1, <3>1, <3>2 DEF Linked, Links, MainLast, WaitedFor
    <3> QED
      BY <2>1, <3>1, <3>2, <3>3 DEF WaitedFor, Stopped, Who
  <2>3. Meaning'
    BY <2>1 DEF Linked, Links, Meaning, Meant
  <2>4. ~Confirmed("main")'
    BY <2>1 DEF Linked, Links, MainLast, Confirmed
  <2>5. MainLast'
    BY <2>1, <2>4 DEF Linked, Links, MainLast, OnlyMain
  <2> QED
    BY <2>1, <2>2, <2>3, <2>5 DEF Linked, Links, Busy
<1>2. CASE AllOffNow
  <2>1. finals < FinalTries /\ slot["main"] = 0
    BY <1>2, SerialAssumption DEF AllOffNow, Linked, Typed, Limits, Links, MainLast, SerialAssumption
  <2>2. lastId + 1 \in Id
    BY <2>1, NumberLeft DEF Linked
  <2>3. /\ lastId' = lastId + 1
        /\ queue' = queue \cup {[id |-> lastId', who |-> "main", msg |-> Off(AllValves)]}
        /\ slot' = [slot EXCEPT !["main"] = lastId'] /\ answer' = [answer EXCEPT !["main"] = Waiting]
        /\ final' = (IF final = 0 THEN lastId' ELSE final)
        /\ server' = "allOff" /\ UNCHANGED <<intent, abandoned, req, state>>
    BY <1>2 DEF AllOffNow, Put
  <2> QED
    BY <1>0, <2>1, <2>2, <2>3, LinksPut
<1>3. CASE CloseSerial
  <2>1. /\ server' = "closing"
        /\ UNCHANGED <<queue, lastId, final, req, state, intent, slot, answer, abandoned>>
    BY <1>3 DEF CloseSerial
  <2>2. server # "running"
    BY <1>3 DEF CloseSerial
  <2>3. InQueue' /\ Meaning'
    BY <2>1, <2>2 DEF Linked, Links, InQueue, Meaning, WaitedFor, Stopped, Meant
  <2>4. MainLast'
    BY <2>1 DEF Linked, Links, MainLast, Confirmed, MessageOf, OnlyMain
  <2> QED
    BY <2>1, <2>3, <2>4 DEF Linked, Links, Busy
<1>4. CASE Gone
  <2>1. /\ queue' = {} /\ req' = NoReq /\ slot' = [w \in Who |-> 0] /\ server' = "exited"
        /\ UNCHANGED <<lastId, final>>
    BY <1>4 DEF Gone
  <2>2. \A w \in Who : slot'[w] = 0
    BY <2>1
  <2>3. InQueue' /\ Meaning'
    BY <2>1, <2>2, Constants DEF InQueue, Meaning
  <2>4. MainLast'
    BY <1>0, <2>1, <2>2 DEF Linked, Links, MainLast, Confirmed
  <2> QED
    BY <2>1, <2>3, <2>4 DEF Links, Busy
<1> QED
  BY <1>1, <1>2, <1>3, <1>4 DEF Server, Exit, SignalAgain

(* The serial thread answers, or moves no request and no answer. *)
LEMMA Dispatches ==
  ASSUME Linked, Dispatch, ~TakeRequest
  PROVE  /\ UNCHANGED <<queue, server, final, lastId, accepting, intent, slot, abandoned, open>>
         /\ \/ UNCHANGED <<waits, work>> /\ req' \in {req, NoReq} /\ (Busy' \/ req' = NoReq)
            \/ (\E a \in Reply \cup {Nothing} : Deliver(a)) /\ req' = NoReq /\ work' = work
            \/ /\ state = "ack" /\ state' = "ack" /\ req' = req
               /\ UNCHANGED waits /\ \E before : Send(req, before)
PROOF
<1> USE DEF asking, serial, main, controller
<1>1. CASE DropPending \/ Reconnect \/ StopSerial
  <2>1. UNCHANGED <<queue, server, final, lastId, accepting, waits, open, work, req>>
    BY <1>1 DEF DropPending, ReadMessage, ReadMark, Reconnect, StopSerial
  <2>2. req = NoReq
    BY <1>1 DEF DropPending, Reconnect, StopSerial, Serving, Linked, Links, Busy
  <2> QED
    BY <2>1, <2>2 DEF waits
<1>2. CASE PortError \/ ReplyTimeout
  BY <1>2 DEF PortError, ReplyTimeout, Answer, Deliver
<1>3. ASSUME NEW before, TryAgain(before), state = "ack"
      PROVE  /\ UNCHANGED <<intent, slot, abandoned, open>>
             /\ \/ Deliver(Nothing) /\ req' = NoReq /\ work' = work
                \/ /\ state' = "ack" /\ req' = req
                   /\ UNCHANGED waits /\ Send(req, before)
  BY <1>3 DEF TryAgain, Answer, Deliver, waits
<1>4. ASSUME TakeFrame, state # "idle"
      PROVE  /\ UNCHANGED <<intent, slot, abandoned, open, work>>
             /\ \/ (\E a \in Reply : Deliver(a)) /\ req' = NoReq
                \/ UNCHANGED <<waits, req, state>>
  BY <1>4 DEF TakeFrame, ReadMessage, Answer, Deliver, StayWaiting, waits, Busy
<1>5. CASE ReadAck
  <2>1. state = "ack" /\ UNCHANGED <<queue, server, final, lastId, accepting>>
    BY <1>5 DEF ReadAck, Serving
  <2>2. CASE TakeFrame
    BY <1>4, <2>1, <2>2 DEF Busy
  <2>3. CASE TryAgain(Tail(toHost))
    BY <1>3, <2>1, <2>3
  <2>4. CASE ReadMark("ACK") /\ state' = "reply" /\ UNCHANGED <<req, tried, stop, waits>>
    BY <2>1, <2>4 DEF ReadMark, waits, Busy
  <2>5. CASE ReadMark("damaged") /\ StayWaiting
    BY <2>1, <2>5 DEF ReadMark, StayWaiting, waits, Busy
  <2> QED
    BY <1>5, <2>2, <2>3, <2>4, <2>5 DEF ReadAck
<1>6. CASE AckTimeout
  BY <1>3, <1>6 DEF AckTimeout, Serving
<1>7. CASE ReadReply
  <2>1. state = "reply" /\ UNCHANGED <<queue, server, final, lastId, accepting>>
    BY <1>7 DEF ReadReply, Serving
  <2>2. CASE TakeFrame
    BY <1>4, <2>1, <2>2 DEF Busy
  <2>3. CASE ~TakeFrame
    BY <1>7, <2>1, <2>3 DEF ReadReply, ReadMark, StayWaiting, waits, Busy
  <2> QED
    BY <2>2, <2>3
<1> QED
  BY <1>1, <1>2, <1>5, <1>6, <1>7 DEF Dispatch

LEMMA LinksKept ==
  Linked /\ [Next]_vars => Links'
PROOF
<1> SUFFICES ASSUME Linked, [Next]_vars PROVE Links'
  OBVIOUS
<1> USE DEF asking, serial, waits, main
<1>1. CASE Line \/ Over \/ UNCHANGED vars
  <2>1. UNCHANGED <<queue, abandoned, waits, server, final, lastId, req, state>>
    BY <1>1 DEF Line, Act, SendAgain, Over, vars
  <2> QED
    BY <2>1, LinksSame DEF Linked, Links, Busy
<1>2. CASE TakeRequest
  BY <1>2, LinksTake
<1>3. CASE Dispatch /\ ~TakeRequest
  <2>1. CASE UNCHANGED waits /\ req' \in {req, NoReq} /\ (Busy' \/ req' = NoReq)
    BY <1>3, <2>1, Dispatches, LinksSame
  <2>2. CASE (\E a \in Reply \cup {Nothing} : Deliver(a)) /\ req' = NoReq
    BY <1>3, <2>2, Dispatches, LinksAnswer
  <2>3. CASE state' = "ack" /\ req' = req /\ UNCHANGED waits
    BY <1>3, <2>3, Dispatches, LinksSame DEF Busy
  <2> QED
    BY <1>3, <2>1, <2>2, <2>3, Dispatches
<1>4. CASE Requester
  BY <1>4, LinksRequester DEF Requester
<1> QED
  BY <1>1, <1>2, <1>3, <1>4, LinksWaiter, LinksServer DEF Next
------------------------------------------------------------------------------
(***************************************************************************)
(* While no sentence was lost, the one in flight is in force, and so is    *)
(* what anybody has a confirmation of.                                     *)
(***************************************************************************)
Heard == ~lost => (req # NoReq => InForce(req.msg)) /\ AsConfirmed
HeardInv == Linked /\ Heard

(* A confirmation which somebody has already stays good, unless a sentence *)
(* is added to the work which is not in force yet.                         *)
LEMMA StaysConfirmed ==
  ASSUME AsConfirmed, Settled' = Settled, (accepting' = accepting) \/ ~accepting',
         \A w \in Who \ {"poll"} : Confirmed(w)' => Confirmed(w) /\ MessageOf(w)' = MessageOf(w)
  PROVE  AsConfirmed'
PROOF
<1>1. \A m : InForce(m)' <=> InForce(m)
  BY DEF InForce, Effect
<1> SUFFICES ASSUME NEW w \in Who \ {"poll"}, Confirmed(w)'
             PROVE  InForce(MessageOf(w))' \/ (MessageOf(w).letter = "A" /\ ~accepting)'
  BY DEF AsConfirmed
<1>2. InForce(MessageOf(w)) \/ (MessageOf(w).letter = "A" /\ ~accepting)
  BY DEF AsConfirmed
<1>3. InForce(MessageOf(w))' <=> InForce(MessageOf(w))
  BY DEF InForce, Effect
<1> QED
  BY <1>2, <1>3

(* A sentence is taken by the controller, or lost. *)
LEMMA SendHeard ==
  ASSUME NEW r, NEW before, Send(r, before), ~lost'
  PROVE  work' = Append(work, r) /\ ~lost
PROOF
<1>1. ~Fault("sentence")
  BY DEF Fault
<1>2. work' = Append(work, r) /\ (UNCHANGED failures \/ LineFault)
  BY <1>1 DEF Send
<1>3. CASE LineFault
  BY <1>2, <1>3, Zenon DEF LineFault, Fault
<1>4. CASE UNCHANGED failures
  <2>1. lost' = lost
    BY <1>4 DEF failures
  <2> QED
    BY <1>2, <2>1, Zenon
<1> QED
  BY <1>2, <1>3, <1>4

(* The controller acts on sentences in their order, or rejects one. *)
LEMMA HeardLine ==
  ASSUME HeardInv, Line, ~lost'
  PROVE  Heard'
PROOF
<1> USE DEF asking, serial, waits, main, controller
<1>1. UNCHANGED <<req, accepting, waits>>
  BY DEF Line, Act, SendAgain
<1>2. ~lost /\ Settled' = Settled
  <2>1. CASE SendAgain
    BY <2>1 DEF SendAgain, failures, Settled
  <2>2. CASE Act
    <3>1. work # <<>> /\ work' = Tail(work)
      BY <2>2 DEF Act
    <3>2. CASE open' = Effect(Head(work).msg, open)
      <4>1. Settled' = Settled
        BY <3>1, <3>2, SettledActs DEF HeardInv, Linked, Final, Order
      <4>2. ~lost
        BY <2>2 DEF Act, AnswersInVain, LineFault, Fault, failures
      <4> QED
        BY <4>1, <4>2
    <3>3. CASE Fault("zee")
      BY <3>3 DEF Fault
    <3> QED
      BY <2>2, <3>2, <3>3 DEF Act
  <2> QED
    BY <2>1, <2>2 DEF Line
<1>3. \A w \in Who \ {"poll"} : Confirmed(w)' => Confirmed(w) /\ MessageOf(w)' = MessageOf(w)
  BY <1>1 DEF Confirmed, MessageOf
<1>4. AsConfirmed'
  BY <1>1, <1>2, <1>3, StaysConfirmed DEF HeardInv, Heard
<1>5. (req # NoReq => InForce(req.msg))'
  BY <1>1, <1>2 DEF HeardInv, Heard, InForce, Effect
<1> QED
  BY <1>1, <1>4, <1>5 DEF Heard

(* A step counts at most one failure. *)
LEMMA Failing ==
  ASSUME [Next]_vars
  PROVE  UNCHANGED failures \/ \E kind : Fault(kind)
PROOF
<1> USE DEF controller, vars
<1>1. CASE Line
  BY <1>1 DEF Line, Act, SendAgain, Answers, AnswersInVain, LineFault
<1>2. ASSUME NEW r, ReadMessage(r) PROVE UNCHANGED failures \/ Fault("line")
  BY <1>2 DEF ReadMessage, LineFault
<1>3. ASSUME NEW r, NEW before, Send(r, before)
      PROVE  UNCHANGED failures \/ Fault("line") \/ Fault("sentence")
  BY <1>3 DEF Send, LineFault
<1>4. ASSUME NEW before, TryAgain(before) PROVE UNCHANGED failures \/ \E kind : Fault(kind)
  BY <1>3, <1>4 DEF TryAgain
<1>5. ASSUME TakeFrame PROVE UNCHANGED failures \/ \E kind : Fault(kind)
  BY <1>2, <1>5 DEF TakeFrame
<1>6. CASE DropPending
  BY <1>2, <1>6 DEF DropPending, ReadMark
<1>7. CASE TakeRequest
  BY <1>3, <1>7 DEF TakeRequest
<1>8. CASE ReadAck
  BY <1>4, <1>5, <1>8 DEF ReadAck, ReadMark
<1>9. CASE AckTimeout
  BY <1>4, <1>9 DEF AckTimeout
<1>10. CASE ReadReply
  BY <1>5, <1>10 DEF ReadReply, ReadMark
<1>11. CASE ReplyTimeout \/ PortError \/ Reconnect \/ StopSerial
  BY <1>11 DEF ReplyTimeout, PortError, Reconnect, StopSerial
<1>12. CASE Requester \/ Waiter
  BY <1>12 DEF Requester, Waiter, Decide, Ask, TakeAnswer, GiveUp, Done
<1>13. CASE Server
  BY <1>13 DEF Server, StopThreads, AllOffNow, CloseSerial, Exit, SignalAgain
<1>14. CASE Over \/ UNCHANGED vars
  BY <1>14 DEF Over
<1> QED
  BY <1>1, <1>6, <1>7, <1>8, <1>9, <1>10, <1>11, <1>12, <1>13, <1>14 DEF Next, Dispatch

(* What was lost stays lost. *)
LEMMA LostStays ==
  ASSUME [Next]_vars, ~lost'
  PROVE  ~lost
PROOF
<1>1. CASE UNCHANGED failures
  <2>1. lost' = lost
    BY <1>1 DEF failures
  <2> QED
    BY <2>1, Zenon
<1>2. CASE \E kind : Fault(kind)
  BY <1>2, Zenon DEF Fault
<1> QED
  BY <1>1, <1>2, Failing

(* A sentence which is taken is in force, and undoes nothing which is      *)
(* confirmed but by the final all-off.                                     *)
LEMMA HeardTake ==
  ASSUME HeardInv, TakeRequest, ~lost, ~lost'
  PROVE  Heard'
PROOF
<1>1. UNCHANGED <<intent, slot, answer, accepting, open>> /\ req = NoReq
  BY DEF TakeRequest, Serving, controller, HeardInv, Linked, Links, Busy
<1>2. \A w \in Who \ {"poll"} : Confirmed(w)' => Confirmed(w) /\ MessageOf(w)' = MessageOf(w)
  BY <1>1 DEF Confirmed, MessageOf
<1>3. PICK r \in queue :
        \/ UNCHANGED <<req, work>>
        \/ r.id \notin abandoned /\ req' = r /\ Send(r, toHost)
  BY DEF TakeRequest, controller
<1>4. CASE UNCHANGED <<req, work>>
  <2>1. Settled' = Settled
    BY <1>1, <1>4 DEF Settled
  <2> QED
    BY <1>1, <1>2, <1>4, <2>1, StaysConfirmed DEF HeardInv, Heard
<1>5. CASE r.id \notin abandoned /\ req' = r /\ Send(r, toHost)
  <2>1. r \in Numbered /\ r.msg \in Message /\ Settled \in SUBSET Valve
    BY DEF HeardInv, Linked, Final, Order, Types, Numbered, Settled
  <2>2. Settled' = Effect(r.msg, Settled)
    BY <1>1, <1>5, <2>1, SendHeard, SettledAppends DEF HeardInv, Linked, Final, Order
  <2>3. Effect(r.msg, Settled') = Settled'
    BY <2>1, <2>2, Effects
  <2>4. (req # NoReq => InForce(req.msg))'
    BY <1>5, <2>3 DEF InForce, Effect
  <2>5. CASE ~ForValve(r)
    <3>1. r.msg = Poll
      BY <2>5 DEF ForValve, HeardInv, Linked, Final, LastOnes, Fits
    <3>2. Settled' = Settled
      BY <2>1, <2>2, <3>1, Effects
    <3> QED
      BY <1>1, <1>2, <2>4, <3>2, StaysConfirmed DEF HeardInv, Heard
  <2>6. CASE ForValve(r)
    <3>1. ASSUME NEW w \in Who \ {"poll"}, Confirmed(w)
          PROVE  InForce(MessageOf(w))' \/ (MessageOf(w).letter = "A" /\ ~accepting)'
      <4>1. r.who = "main" /\ ~accepting
        BY <1>5, <2>6, <3>1, Others DEF HeardInv
      <4>2. r.msg = Off(AllValves)
        BY <4>1 DEF HeardInv, Linked, Final, LastOnes, Fits
      <4>3. Settled' = {}
        BY <2>1, <2>2, <4>2 DEF Effect, Off
      <4>4. MessageOf(w)' = MessageOf(w)
        BY <1>1 DEF MessageOf
      <4>5. CASE MessageOf(w).letter = "A"
        BY <1>1, <4>1, <4>4, <4>5
      <4>6. CASE MessageOf(w).letter # "A"
        BY <4>3, <4>4, <4>6 DEF InForce, Effect
      <4> QED
        BY <4>5, <4>6
    <3>2. AsConfirmed'
      BY <1>2, <3>1 DEF AsConfirmed
    <3> QED
      BY <2>4, <3>2 DEF Heard
  <2> QED
    BY <2>5, <2>6
<1> QED
  BY <1>3, <1>4, <1>5

(* What is delivered confirms the message of its request. *)
LEMMA HeardAnswer ==
  ASSUME HeardInv, NEW a \in Reply \cup {Nothing}, Deliver(a), req' = NoReq,
         UNCHANGED <<work, open, accepting>>, ~lost
  PROVE  Heard'
PROOF
<1>1. UNCHANGED <<intent, slot>> /\ Settled' = Settled
  BY DEF Deliver, Settled
<1>2. ASSUME NEW w \in Who \ {"poll"}, Confirmed(w)'
      PROVE  InForce(MessageOf(w)) \/ (MessageOf(w).letter = "A" /\ ~accepting)
  <2>1. slot[w] # 0 /\ MessageOf(w)' = MessageOf(w)
    BY <1>1, <1>2 DEF Confirmed, MessageOf
  <2>2. CASE w = req.who /\ slot[w] = req.id
    <3>1. req # NoReq
      BY <2>1, <2>2, Constants
    <3>2. CASE w = "main"
      <4>1. req.msg = MessageOf(w)
        BY <2>2, <3>1, <3>2 DEF HeardInv, Linked, Final, LastOnes, Fits, MessageOf
      <4> QED
        BY <3>1, <4>1 DEF HeardInv, Heard
    <3>3. CASE w # "main"
      <4>1. w \in Thread /\ Meant(req)
        BY <3>1, <3>3 DEF Who, HeardInv, Linked, Links, Meaning
      <4>2. req.msg = MessageOf(w)
        BY <2>2, <3>3, <4>1 DEF Meant, MessageOf
      <4> QED
        BY <3>1, <4>2 DEF HeardInv, Heard
    <3> QED
      BY <3>2, <3>3
  <2>3. CASE ~(w = req.who /\ slot[w] = req.id)
    <3>1. answer'[w] = answer[w]
      BY <2>3 DEF Deliver
    <3>2. Confirmed(w)
      BY <1>1, <1>2, <2>1, <3>1 DEF Confirmed
    <3> QED
      BY <3>2 DEF HeardInv, Heard, AsConfirmed
  <2> QED
    BY <2>2, <2>3
<1>3. \A w \in Who : MessageOf(w)' = MessageOf(w)
  BY <1>1 DEF MessageOf
<1>4. AsConfirmed'
  <2> SUFFICES ASSUME NEW w \in Who \ {"poll"}, Confirmed(w)'
               PROVE  InForce(MessageOf(w))' \/ (MessageOf(w).letter = "A" /\ ~accepting)'
    BY DEF AsConfirmed
  <2>1. InForce(MessageOf(w))' <=> InForce(MessageOf(w))
    BY <1>1, <1>3 DEF InForce, Effect
  <2> QED
    BY <1>2, <1>3, <2>1
<1> QED
  BY <1>4 DEF Heard

(* Sending the sentence in flight again adds nothing which is not in force. *)
LEMMA HeardDispatch ==
  ASSUME HeardInv, Dispatch, ~TakeRequest, ~lost, ~lost'
  PROVE  Heard'
PROOF
<1>1. UNCHANGED <<accepting, intent, slot, open>>
  BY Dispatches DEF HeardInv
<1>2. ASSUME UNCHANGED waits, Settled' = Settled, req' \in {req, NoReq} PROVE Heard'
  <2>1. \A w \in Who \ {"poll"} : Confirmed(w)' => Confirmed(w) /\ MessageOf(w)' = MessageOf(w)
    BY <1>2 DEF waits, Confirmed, MessageOf
  <2>2. AsConfirmed'
    BY <1>1, <1>2, <2>1, StaysConfirmed DEF HeardInv, Heard
  <2>3. (req # NoReq => InForce(req.msg))'
    BY <1>2 DEF HeardInv, Heard, InForce, Effect
  <2> QED
    BY <2>2, <2>3 DEF Heard
<1>3. CASE UNCHANGED <<waits, work>> /\ req' \in {req, NoReq}
  BY <1>1, <1>2, <1>3 DEF Settled
<1>4. CASE (\E a \in Reply \cup {Nothing} : Deliver(a)) /\ req' = NoReq /\ work' = work
  BY <1>1, <1>4, HeardAnswer
<1>5. CASE /\ state = "ack" /\ req' = req
           /\ UNCHANGED waits /\ \E before : Send(req, before)
  <2>1. req # NoReq /\ req \in Numbered
    BY <1>5 DEF HeardInv, Linked, Typed, Limits, Final, Order, Types
  <2>2. work' = Append(work, req)
    BY <1>5, SendHeard
  <2>3. Settled' = Effect(req.msg, Settled)
    BY <1>1, <2>1, <2>2, SettledAppends DEF HeardInv, Linked, Final, Order
  <2>4. Settled' = Settled
    BY <2>1, <2>3 DEF HeardInv, Heard, InForce
  <2> QED
    BY <1>2, <1>5, <2>4
<1> QED
  BY <1>3, <1>4, <1>5, Dispatches DEF HeardInv

(* Whoever asks, is done with its request or is stopped has no             *)
(* confirmation which it did not have.                                     *)
(* No valve moves, and nobody has a confirmation which it did not have. *)
SameConfirmed ==
  /\ UNCHANGED <<work, open>> /\ req' \in {req, NoReq} /\ (accepting' = accepting \/ ~accepting')
  /\ \A w \in Who \ {"poll"} : Confirmed(w)' => Confirmed(w) /\ MessageOf(w)' = MessageOf(w)

LEMMA NoNewConfirmation ==
  ASSUME Linked, Requester \/ Waiter \/ Server \/ Over \/ UNCHANGED vars
  PROVE  SameConfirmed
PROOF
<1> USE DEF asking, serial, waits, main, controller
<1>0. /\ slot \in [Who -> Id \cup {0}] /\ answer \in [Who -> Reply \cup {Waiting, Nothing}]
      /\ intent \in [Thread -> Message \cup {NoMsg}] /\ \A t \in Thread : t \in Who /\ t # "main"
  BY Constants DEF Linked, Typed, TypeOK
<1>2. ASSUME NEW w \in Who, answer'[w] \in {Waiting, Nothing} \/ slot'[w] = 0 PROVE ~Confirmed(w)'
  <2>1. CASE slot'[w] = 0
    BY <2>1 DEF Confirmed
  <2>2. CASE answer'[w] \in {Waiting, Nothing}
    <3>1. answer'[w].zee
      BY <2>2 DEF Waiting, Nothing
    <3> QED
      BY <3>1 DEF Confirmed, Confirms
  <2> QED
    BY <1>2, <2>1, <2>2
<1>3. CASE Requester
  <2>1. PICK w \in Thread : Decide(w) \/ Ask(w)
    BY <1>3 DEF Requester
  <2>2. CASE Decide(w)
    <3>1. slot[w] = 0 /\ \A t \in Thread \ {w} : intent'[t] = intent[t]
      BY <1>0, <2>2 DEF Decide, Linked, Links, Meaning
    <3>2. UNCHANGED <<slot, answer, work, open, req, accepting>>
      BY <2>2 DEF Decide
    <3>3. ASSUME NEW t \in Who \ {"poll"}, Confirmed(t)'
          PROVE  Confirmed(t) /\ MessageOf(t)' = MessageOf(t)
      <4>1. t # w
        BY <3>1, <3>2, <3>3 DEF Confirmed
      <4>2. MessageOf(t)' = MessageOf(t)
        BY <3>1, <4>1 DEF MessageOf, Who
      <4> QED
        BY <3>2, <3>3, <4>2 DEF Confirmed
    <3> QED
      BY <3>2, <3>3 DEF SameConfirmed
  <2>3. CASE Ask(w)
    <3>1. /\ UNCHANGED <<work, open, req>> /\ accepting' = accepting
      BY <2>3 DEF Ask, Put, Linked, Typed, TypeOK
    <3>2. /\ answer'[w] \in {Waiting, Nothing}
          /\ \A t \in Who \ {w} : slot'[t] = slot[t] /\ answer'[t] = answer[t]
          /\ \A t \in Thread \ {w} : intent'[t] = intent[t]
      BY <1>0, <2>3 DEF Ask, Put
    <3>3. ASSUME NEW t \in Who \ {"poll"}, Confirmed(t)'
          PROVE  Confirmed(t) /\ MessageOf(t)' = MessageOf(t)
      <4>1. t # w
        BY <1>2, <3>2, <3>3
      <4>2. MessageOf(t)' = MessageOf(t)
        BY <3>2, <4>1 DEF MessageOf, Who
      <4> QED
        BY <3>2, <3>3, <4>1, <4>2 DEF Confirmed
    <3> QED
      BY <3>1, <3>3 DEF SameConfirmed
  <2> QED
    BY <2>1, <2>2, <2>3
<1>4. CASE Waiter
  <2>1. PICK w \in Who : Done(w)
    BY <1>4 DEF Waiter, TakeAnswer, GiveUp
  <2>2. /\ UNCHANGED <<work, open, req, accepting>>
        /\ slot'[w] = 0 /\ \A t \in Who \ {w} : slot'[t] = slot[t] /\ answer'[t] = answer[t]
        /\ \A t \in Thread \ {w} : intent'[t] = intent[t]
    BY <1>0, <2>1 DEF Done
  <2>3. ASSUME NEW t \in Who \ {"poll"}, Confirmed(t)'
        PROVE  Confirmed(t) /\ MessageOf(t)' = MessageOf(t)
    <3>1. t # w
      BY <1>2, <2>2, <2>3
    <3>2. MessageOf(t)' = MessageOf(t)
      BY <2>2, <3>1 DEF MessageOf, Who
    <3> QED
      BY <2>2, <2>3, <3>1, <3>2 DEF Confirmed
  <2> QED
    BY <2>2, <2>3 DEF SameConfirmed
<1>5. CASE StopThreads
  <2>1. UNCHANGED <<work, open, req, accepting, slot, intent>>
        /\ \A w \in Who : answer'[w] = answer[w] \/ answer'[w] = Nothing
    BY <1>5 DEF StopThreads
  <2>2. \A w \in Who : MessageOf(w)' = MessageOf(w)
    BY <2>1 DEF MessageOf
  <2>3. ASSUME NEW w \in Who \ {"poll"}, Confirmed(w)' PROVE Confirmed(w)
    BY <1>2, <2>1, <2>2, <2>3 DEF Confirmed
  <2> QED
    BY <2>1, <2>2, <2>3 DEF SameConfirmed
<1>6. CASE AllOffNow
  <2>1. /\ UNCHANGED <<work, open, req, intent>> /\ ~accepting'
        /\ answer'["main"] \in {Waiting, Nothing}
        /\ \A t \in Who \ {"main"} : slot'[t] = slot[t] /\ answer'[t] = answer[t]
    BY <1>0, <1>6 DEF AllOffNow, Put, Who
  <2>2. \A w \in Who : MessageOf(w)' = MessageOf(w)
    BY <2>1 DEF MessageOf
  <2>3. ASSUME NEW w \in Who \ {"poll"}, Confirmed(w)' PROVE Confirmed(w)
    <3>1. w # "main"
      BY <1>2, <2>1, <2>3
    <3> QED
      BY <2>1, <2>2, <2>3, <3>1 DEF Confirmed
  <2> QED
    BY <2>1, <2>2, <2>3 DEF SameConfirmed
<1>7. CASE CloseSerial \/ Over \/ UNCHANGED vars
  <2>1. UNCHANGED <<work, open, req, accepting, slot, intent, answer>>
    BY <1>7 DEF CloseSerial, Over, vars
  <2> QED
    BY <2>1 DEF Confirmed, MessageOf, SameConfirmed
<1>8. CASE Exit \/ SignalAgain
  <2>1. /\ UNCHANGED <<work, open, accepting>> /\ req' = NoReq
        /\ slot' = [w \in Who |-> 0]
    BY <1>8 DEF Exit, SignalAgain, Gone
  <2>2. \A w \in Who : ~Confirmed(w)'
    BY <2>1 DEF Confirmed
  <2> QED
    BY <2>1, <2>2 DEF SameConfirmed
<1> QED
  BY <1>3, <1>4, <1>5, <1>6, <1>7, <1>8 DEF Server

LEMMA HeardElse ==
  ASSUME HeardInv, Requester \/ Waiter \/ Server \/ Over \/ UNCHANGED vars, ~lost
  PROVE  Heard'
PROOF
<1>1. SameConfirmed
  BY NoNewConfirmation DEF HeardInv
<1>2. Settled' = Settled
  BY <1>1 DEF SameConfirmed, Settled
<1>3. AsConfirmed'
  BY <1>1, <1>2, StaysConfirmed DEF SameConfirmed, HeardInv, Heard
<1>4. (req # NoReq => InForce(req.msg))'
  BY <1>1, <1>2 DEF SameConfirmed, HeardInv, Heard, InForce, Effect
<1> QED
  BY <1>3, <1>4 DEF Heard

LEMMA LinkedInitially ==
  Init => Linked
PROOF
<1> SUFFICES ASSUME Init PROVE Linked
  OBVIOUS
<1>1. Links
  BY Constants DEF Init, Links, Busy, InQueue, Meaning, MainLast, Confirmed
<1> QED
  BY <1>1, TypedInitially, FinalInitially DEF Linked

(* ConfirmedHolds: what a requester has a confirmation of is so, or will   *)
(* be once the controller has acted on what it has taken; nothing which it *)
(* still has to do undoes it.  Only the loss of a sentence can break this, *)
(* no matter what else is lost, late, sent again, given up or stopped.     *)
THEOREM ConfirmedIsSo == Spec => []ConfirmedHolds
PROOF
<1>1. Init => HeardInv
  BY LinkedInitially DEF Init, Confirmed, Heard, HeardInv, AsConfirmed
<1>2. HeardInv /\ [Next]_vars => HeardInv'
  <2> SUFFICES ASSUME HeardInv, [Next]_vars PROVE HeardInv'
    OBVIOUS
  <2>1. Linked'
    BY TypedKept, FinalKept, LinksKept DEF HeardInv, Linked
  <2>2. ~lost' => ~lost
    BY LostStays
  <2>3. ASSUME ~lost' PROVE Heard'
    BY <2>2, <2>3, HeardLine, HeardTake, HeardDispatch, HeardElse DEF Next
  <2>4. Heard'
    BY <2>3 DEF Heard
  <2> QED
    BY <2>1, <2>4 DEF HeardInv
<1>3. HeardInv => ConfirmedHolds
  BY DEF HeardInv, Heard, ConfirmedHolds
<1> QED
  BY <1>1, <1>2, <1>3, PTL DEF Spec
------------------------------------------------------------------------------
(***************************************************************************)
(* The same although a sentence was lost, when nothing else has failed and *)
(* replies are sent again only on a quiet line.  Then the serial thread    *)
(* and the controller are in step: of the ACK and the reply of the request *)
(* in flight, and of no other, there is on the line what is not yet read,  *)
(* so that no late reply to an earlier request can be taken for its reply. *)
(***************************************************************************)
(* The one failure there was, if any, has cost a sentence. *)
Calm == faults \in {0, 1} /\ (lost <=> faults = 1)
Counted == lost => faults >= 1

Replies == {ReplyTo(req.msg), Zee(req.msg)}
InStep ==
  \/ state \in {"idle", "dead"} /\ work = <<>> /\ toHost = <<>> /\ owed = {}
  \/ state = "ack" /\ work = <<>> /\ toHost \in {<<>>, <<Mark("NAK")>>} /\ owed = {}
  \/ state = "ack" /\ work = <<req>> /\ toHost = <<Mark("ACK")>> /\ owed = {}
  \/ state = "reply" /\ work = <<req>> /\ toHost = <<>> /\ owed = {}
  \/ /\ work = <<>>
     /\ \E r \in Replies :
          /\ owed = {r}
          /\ \/ state = "ack" /\ toHost = <<Mark("ACK"), Frame(r)>>
             \/ state = "reply" /\ toHost = <<Frame(r)>>

(* What w has a confirmation of is so, when on are the valves which are on. *)
Holds(w, on) == Effect(MessageOf(w), on) = on \/ (MessageOf(w).letter = "A" /\ ~accepting)
Held == \A w \in Who \ {"poll"} : Confirmed(w) => Holds(w, open)

(* Only the final all-off is sent while another has a confirmation. *)
Rivals ==
  (req # NoReq /\ ForValve(req)) =>
    \A w \in Who \ {"poll"} : Confirmed(w) => req.who = "main" /\ ~accepting
(* The controller replies to what it has carried out. *)
Echoed == (req # NoReq /\ ReplyTo(req.msg) \in owed) => Effect(req.msg, open) = open

Attuned == InStep /\ Held /\ Rivals /\ Echoed
QuietInv ==
  /\ Linked /\ Counted
  /\ (MaxFrames <= 1 /\ Calm) => IF Alive THEN Attuned ELSE \A w \in Who : slot[w] = 0

(* A line of at most two. *)
LEMMA OfTwo ==
  ASSUME NEW x, NEW y
  PROVE  Append(<<x>>, y) = <<x, y>>
PROOF
<1>1. <<x>> \in Seq({x, y}) /\ y \in {x, y}
  OBVIOUS
<1>2. DOMAIN Append(<<x>>, y) = 1 .. 2 /\ Append(<<x>>, y)[1] = x /\ Append(<<x>>, y)[2] = y
  BY <1>1
<1>3. DOMAIN <<x, y>> = 1 .. 2 /\ <<x, y>>[1] = x /\ <<x, y>>[2] = y
  OBVIOUS
<1>4. Append(<<x>>, y) = [i \in 1 .. 2 |-> Append(<<x>>, y)[i]]
  BY <1>1, <1>2
<1>5. <<x, y>> = [i \in 1 .. 2 |-> <<x, y>>[i]]
  BY <1>3
<1>6. \A i \in 1 .. 2 : i = 1 \/ i = 2
  OBVIOUS
<1>7. \A i \in 1 .. 2 : Append(<<x>>, y)[i] = <<x, y>>[i]
  BY <1>2, <1>3, <1>6
<1> QED
  BY <1>4, <1>5, <1>7, Zenon

LEMMA ShortLines ==
  /\ \A x : /\ Append(<<>>, x) = <<x>> /\ Head(<<x>>) = x /\ Tail(<<x>>) = <<>>
            /\ Len(<<x>>) = 1 /\ <<x>> # <<>>
  /\ \A x, y : /\ Append(<<x>>, y) = <<x, y>> /\ Head(<<x, y>>) = x /\ Tail(<<x, y>>) = <<y>>
               /\ Len(<<x, y>>) = 2 /\ <<x, y>> # <<>>
PROOF
<1>1. ASSUME NEW x
      PROVE  /\ Append(<<>>, x) = <<x>> /\ Head(<<x>>) = x /\ Tail(<<x>>) = <<>>
             /\ Len(<<x>>) = 1 /\ <<x>> # <<>>
  OBVIOUS
<1>2. ASSUME NEW x, NEW y
      PROVE  /\ Append(<<x>>, y) = <<x, y>> /\ Head(<<x, y>>) = x /\ Tail(<<x, y>>) = <<y>>
             /\ Len(<<x, y>>) = 2 /\ <<x, y>> # <<>>
  BY OfTwo
<1> QED
  BY <1>1, <1>2

(* What comes over the line is told apart. *)
LEMMA ToldApart ==
  /\ \A k, l : Mark(k) = Mark(l) => k = l
  /\ \A r, s : Frame(r) = Frame(s) => r = s
  /\ \A r : \A k \in {"ACK", "NAK", "damaged"} : Mark(k) # Frame(r)
  /\ \A m : /\ IsReplyTo(m, ReplyTo(m)) /\ IsReplyTo(m, Zee(m))
            /\ ReplyTo(m) # Zee(m) /\ Zee(m).zee
PROOF
<1>1. \A k : Mark(k).kind = k
  BY DEF Mark
<1>2. \A r : Frame(r).kind = "SYNC" /\ Frame(r).reply = r
  BY DEF Frame
<1>3. \A m : IsReplyTo(m, ReplyTo(m)) /\ IsReplyTo(m, Zee(m))
  BY DEF IsReplyTo, ReplyTo, Zee
<1>4. \A m : ReplyTo(m).zee = FALSE /\ Zee(m).zee = TRUE
  BY DEF ReplyTo, Zee
<1> QED
  BY <1>1, <1>2, <1>3, <1>4

(* Nothing but the loss of a sentence leaves the line calm. *)
LEMMA CalmBefore ==
  ASSUME TypeOK, Counted, Calm', NEW kind, Fault(kind)
  PROVE  Calm /\ kind \in {"sentence", "zee"}
PROOF
<1>1. faults \in Nat /\ faults' = faults + 1 /\ (lost' = (lost \/ kind \in {"sentence", "zee"}))
  BY SerialAssumption DEF Fault, TypeOK, SerialAssumption
<1>2. faults = 0 /\ faults' = 1 /\ lost \in BOOLEAN
  BY <1>1 DEF Calm, TypeOK
<1>3. ~lost
  BY <1>2 DEF Counted
<1>4. kind \in {"sentence", "zee"}
  BY <1>1, <1>2, <1>3 DEF Calm
<1> QED
  BY <1>2, <1>3, <1>4 DEF Calm

LEMMA NoLineFault ==
  ASSUME TypeOK, Counted, Calm'
  PROVE  ~LineFault /\ ~Fault("slow") /\ ~Fault("port")
PROOF
  BY CalmBefore DEF LineFault

(* What the controller has to act on is a request. *)
LEMMA OneSentence ==
  ASSUME Types, work = <<req>>
  PROVE  Len(work) = 1 /\ work[1] = req /\ req # NoReq /\ req.msg \in Message
PROOF
<1>1. Len(work) = 1 /\ work[1] = req /\ 1 \in 1 .. Len(work)
  OBVIOUS
<1>2. work[1] \in Numbered
  BY <1>1 DEF Types
<1> QED
  BY <1>1, <1>2, Constants DEF Numbered

(* Which of the valves are on once all sentences, of at most one, are done. *)
LEMMA SettledShort ==
  ASSUME Types
  PROVE  /\ work = <<>> => Settled = open
         /\ work = <<req>> => Settled = Effect(req.msg, open)
PROOF
<1>0. open \in SUBSET Valve
  BY DEF Types
<1>1. ASSUME work = <<>> PROVE Settled = open
  <2>1. Len(work) = 0 /\ 0 .. 0 = {0} /\ 0 + 1 .. 0 = {}
    BY <1>1
  <2> QED
    BY <1>0, <2>1 DEF Settled
<1>2. ASSUME work = <<req>> PROVE Settled = Effect(req.msg, open)
  <2>1. Len(work) = 1 /\ work[1] = req /\ req.msg \in Message
    BY <1>2, OneSentence
  <2>2. 0 .. 1 = {0, 1} /\ 0 + 1 .. 1 = {1} /\ 1 + 1 .. 1 = {} /\ 1 # 0
    OBVIOUS
  <2>3. Settled = {v \in Valve : TurnsOn(req.msg, v) \/ (v \in open /\ ~TurnsOff(req.msg, v))}
    BY <2>1, <2>2 DEF Settled
  <2> QED
    BY <1>0, <2>1, <2>3, Effects
<1> QED
  BY <1>1, <1>2

(* The final all-off undoes nothing which is confirmed, but an on. *)
LEMMA OverRivals ==
  ASSUME Linked, Rivals, req # NoReq, NEW on \in SUBSET Valve,
         NEW w \in Who \ {"poll"}, Confirmed(w), Holds(w, on)
  PROVE  Holds(w, Effect(req.msg, on))
PROOF
<1>1. CASE ~ForValve(req)
  <2>1. req.msg = Poll
    BY <1>1 DEF ForValve, Linked, Final, LastOnes, Fits
  <2>2. Effect(req.msg, on) = on
    BY <2>1 DEF Poll, Effect
  <2> QED
    BY <2>2
<1>2. CASE ForValve(req)
  <2>1. req.who = "main" /\ ~accepting
    BY <1>2 DEF Rivals
  <2>2. req.msg = Off(AllValves)
    BY <2>1 DEF Linked, Final, LastOnes, Fits
  <2>3. Effect(req.msg, on) = {}
    BY <2>2 DEF Effect, Off
  <2> QED
    BY <2>1, <2>3 DEF Holds, Effect
<1> QED
  BY <1>1, <1>2

(* In step, AsConfirmed is what is held. *)
LEMMA AttunedConfirms ==
  ASSUME Linked, Attuned
  PROVE  AsConfirmed
PROOF
<1>1. Types /\ open \in SUBSET Valve
  BY DEF Linked, Final, Order, Types
<1>2. CASE work = <<>>
  <2>1. Settled = open
    BY <1>1, <1>2, SettledShort
  <2> QED
    BY <2>1 DEF Attuned, Held, Holds, AsConfirmed, InForce
<1>3. CASE work = <<req>>
  <2>1. Settled = Effect(req.msg, open)
    BY <1>1, <1>3, SettledShort
  <2>2. req # NoReq
    BY <1>1, <1>3, OneSentence
  <2>3. \A w \in Who \ {"poll"} : Confirmed(w) => Holds(w, Settled)
    BY <1>1, <2>1, <2>2, OverRivals DEF Attuned, Held
  <2> QED
    BY <2>3 DEF Holds, AsConfirmed, InForce
<1> QED
  BY <1>2, <1>3 DEF Attuned, InStep

(* The line carries nothing but replies to the request in flight: the      *)
(* controller acts on that one or rejects it, and sends no reply again.    *)
LEMMA AttunedLine ==
  ASSUME Linked, Counted, Attuned, MaxFrames <= 1, Line, Calm'
  PROVE  Attuned'
PROOF
<1> USE DEF asking, serial, waits, main, controller
<1>1. TypeOK /\ Types /\ open \in SUBSET Valve
  BY DEF Linked, Typed, Final, Order, Types
<1>2. UNCHANGED <<state, req, intent, slot, answer, accepting>>
  BY DEF Line, Act, SendAgain
<1>3. /\ \A w : (Confirmed(w)' <=> Confirmed(w)) /\ MessageOf(w)' = MessageOf(w)
      /\ \A w, on : Holds(w, on)' <=> Effect(MessageOf(w), on') = on' \/ (MessageOf(w).letter = "A" /\ ~accepting)
  BY <1>2 DEF Confirmed, MessageOf, Holds
<1>4. Rivals'
  BY <1>2, <1>3 DEF Attuned, Rivals
<1>5. ~SendAgain
  <2>1. ASSUME SendAgain PROVE FALSE
    <3>1. owed # {} /\ Len(toHost) < MaxFrames
      BY <2>1 DEF SendAgain
    <3>2. Len(toHost) >= 1
      BY <3>1, ShortLines DEF Attuned, InStep
    <3> QED
      BY <3>1, <3>2, SerialAssumption DEF SerialAssumption
  <2> QED
    BY <2>1
<1>6. Act
  BY <1>5 DEF Line
<1>7. /\ work = <<req>> /\ owed = {}
      /\ \/ state = "ack" /\ toHost = <<Mark("ACK")>>
         \/ state = "reply" /\ toHost = <<>>
  BY <1>6 DEF Act, Attuned, InStep
<1>8. work' = <<>> /\ Head(work) = req
  BY <1>6, <1>7, ShortLines DEF Act
<1>9. req # NoReq /\ req.msg \in Message
  BY <1>1, <1>7, OneSentence
<1>10. \/ Answers(ReplyTo(req.msg)) /\ open' = Effect(req.msg, open)
       \/ Answers(Zee(req.msg)) /\ open' = open
  BY <1>1, <1>6, <1>8, NoLineFault DEF Act, AnswersInVain
<1>11. ASSUME NEW r \in Replies, Answers(r) PROVE InStep' /\ owed' = {r}
  <2>1. owed' = {r} /\ toHost' = Append(toHost, Frame(r))
    BY <1>7, <1>11 DEF Answers
  <2>2. Replies' = Replies
    BY <1>2 DEF Replies
  <2>3. \/ state' = "ack" /\ toHost' = <<Mark("ACK"), Frame(r)>>
        \/ state' = "reply" /\ toHost' = <<Frame(r)>>
    BY <1>2, <1>7, <2>1, ShortLines
  <2> QED
    BY <1>8, <2>1, <2>2, <2>3 DEF InStep
<1>12. CASE Answers(ReplyTo(req.msg)) /\ open' = Effect(req.msg, open)
  <2>1. InStep'
    BY <1>11, <1>12 DEF Replies
  <2>2. \A w \in Who \ {"poll"} : Confirmed(w) => Holds(w, open')
    BY <1>1, <1>9, <1>12, OverRivals DEF Attuned, Held
  <2>3. Held'
    BY <1>2, <1>3, <2>2 DEF Held, Holds
  <2>4. Echoed'
    BY <1>1, <1>2, <1>9, <1>12, Effects DEF Echoed
  <2> QED
    BY <1>4, <2>1, <2>3, <2>4 DEF Attuned
<1>13. CASE Answers(Zee(req.msg)) /\ open' = open
  <2>1. InStep' /\ owed' = {Zee(req.msg)}
    BY <1>11, <1>13 DEF Replies
  <2>2. Held'
    BY <1>2, <1>3, <1>13 DEF Attuned, Held, Holds
  <2>3. Echoed'
    BY <1>2, <2>1, ToldApart DEF Echoed
  <2> QED
    BY <1>4, <2>1, <2>2, <2>3 DEF Attuned
<1> QED
  BY <1>10, <1>12, <1>13

(* A request is taken when the line is quiet. *)
LEMMA AttunedTake ==
  ASSUME Linked, Counted, Attuned, TakeRequest, Calm'
  PROVE  Attuned'
PROOF
<1> USE DEF controller
<1>1. UNCHANGED <<intent, slot, answer, accepting, open, owed>> /\ TypeOK
  BY DEF TakeRequest, Linked, Typed
<1>2. state = "idle" /\ req = NoReq /\ work = <<>> /\ toHost = <<>> /\ owed = {}
  BY DEF TakeRequest, Serving, Linked, Links, Busy, Attuned, InStep
<1>3. \A w : (Confirmed(w)' <=> Confirmed(w)) /\ (Holds(w, open)' <=> Holds(w, open))
  BY <1>1 DEF Confirmed, MessageOf, Holds, Effect
<1>4. Held'
  BY <1>3 DEF Attuned, Held
<1>5. PICK r \in queue :
        \/ state' = Loop /\ UNCHANGED <<req, toHost, work>>
        \/ r.id \notin abandoned /\ state' = "ack" /\ req' = r /\ Send(r, toHost)
  BY DEF TakeRequest
<1>6. CASE state' = Loop /\ UNCHANGED <<req, toHost, work>>
  <2>1. InStep'
    BY <1>1, <1>2, <1>6 DEF Loop, InStep
  <2>2. req' = NoReq
    BY <1>2, <1>6
  <2> QED
    BY <1>4, <2>1, <2>2 DEF Attuned, Rivals, Echoed
<1>7. CASE r.id \notin abandoned /\ state' = "ack" /\ req' = r /\ Send(r, toHost)
  <2>1. \/ work' = <<r>> /\ toHost' = <<Mark("ACK")>>
        \/ work' = <<>> /\ toHost' \in {<<>>, <<Mark("NAK")>>}
    BY <1>1, <1>2, <1>7, NoLineFault, ShortLines DEF Send
  <2>2. InStep'
    BY <1>1, <1>2, <1>7, <2>1 DEF InStep
  <2>3. Rivals'
    <3>1. ASSUME ForValve(r), NEW w \in Who \ {"poll"}, Confirmed(w)
          PROVE  r.who = "main" /\ ~accepting
      BY <1>7, <3>1, Others
    <3> QED
      BY <1>1, <1>3, <1>7, <3>1 DEF Rivals, ForValve
  <2>4. Echoed'
    BY <1>1, <1>2 DEF Echoed
  <2> QED
    BY <1>4, <2>2, <2>3, <2>4 DEF Attuned
<1> QED
  BY <1>5, <1>6, <1>7

(* Whoever gets the reply to the request in flight asked for it, and the   *)
(* controller has carried it out.                                          *)
LEMMA AttunedAnswer ==
  ASSUME Linked, Attuned, work = <<>>, NEW a, a \in owed \/ a = Nothing, Answer(a),
         toHost' = <<>>, owed' = {}, UNCHANGED <<work, open, accepting>>
  PROVE  Attuned'
PROOF
<1>1. UNCHANGED <<intent, slot>> /\ req' = NoReq /\ state' \in {"idle", "dead"}
  BY DEF Answer, Deliver, Loop
<1>2. InStep'
  BY <1>1 DEF InStep
<1>3. \A w : MessageOf(w)' = MessageOf(w) /\ (Holds(w, open)' <=> Holds(w, open))
  BY <1>1 DEF MessageOf, Holds, Effect
<1>4. ASSUME NEW w \in Who \ {"poll"}, Confirmed(w)' PROVE Holds(w, open)
  <2>1. CASE w = req.who /\ slot[w] = req.id /\ answer'[w] # answer[w]
    <3>1. answer'[w] = a /\ slot[w] # 0
      BY <1>1, <1>4, <2>1 DEF Answer, Deliver, Confirmed
    <3>2. req # NoReq
      BY <2>1, <3>1, Constants
    <3>3. a \in owed /\ ~a.zee
      BY <1>4, <3>1 DEF Confirmed, Confirms, Nothing
    <3>4. a = ReplyTo(req.msg)
      BY <3>3, ToldApart DEF Attuned, InStep, Replies
    <3>5. Effect(req.msg, open) = open
      BY <3>2, <3>3, <3>4 DEF Attuned, Echoed
    <3>6. req.msg = MessageOf(w)
      <4>1. CASE w = "main"
        BY <2>1, <3>2, <4>1 DEF Linked, Final, LastOnes, Fits, MessageOf
      <4>2. CASE w # "main"
        BY <2>1, <3>2, <4>2 DEF Who, Linked, Links, Meaning, Meant, MessageOf
      <4> QED
        BY <4>1, <4>2
    <3> QED
      BY <3>5, <3>6 DEF Holds
  <2>2. CASE ~(w = req.who /\ slot[w] = req.id /\ answer'[w] # answer[w])
    <3>1. answer'[w] = answer[w]
      BY <2>2 DEF Answer, Deliver
    <3>2. Confirmed(w)
      BY <1>1, <1>3, <1>4, <3>1 DEF Confirmed
    <3> QED
      BY <3>2 DEF Attuned, Held
  <2> QED
    BY <2>1, <2>2
<1>5. Held'
  BY <1>3, <1>4 DEF Held
<1> QED
  BY <1>1, <1>2, <1>5 DEF Attuned, Rivals, Echoed

(* A sentence which was lost is sent again, or given up. *)
LEMMA AttunedAgain ==
  ASSUME Linked, Counted, Attuned, state = "ack", toHost \in {<<>>, <<Mark("NAK")>>},
         TryAgain(<<>>), UNCHANGED asking, Calm'
  PROVE  Attuned'
PROOF
<1> USE DEF controller, asking
<1>1. work = <<>> /\ owed = {} /\ TypeOK
  <2>1. <<Mark("NAK")>> # <<Mark("ACK")>> /\ \A r : <<Mark("NAK")>> # <<Mark("ACK"), Frame(r)>>
    BY ShortLines, ToldApart
  <2>2. \A r : <<Mark("ACK"), Frame(r)>> # <<>>
    BY ShortLines
  <2> QED
    BY <2>1, <2>2, ShortLines DEF Attuned, InStep, Linked, Typed
<1>2. CASE Send(req, <<>>) /\ UNCHANGED <<owed, open, carried, state, req, stop, waits>>
  <2>1. \/ work' = <<req>> /\ toHost' = <<Mark("ACK")>>
        \/ work' = <<>> /\ toHost' \in {<<>>, <<Mark("NAK")>>}
    BY <1>1, <1>2, NoLineFault, ShortLines DEF Send
  <2>2. InStep'
    BY <1>1, <1>2, <2>1 DEF InStep
  <2>3. \A w : (Confirmed(w)' <=> Confirmed(w)) /\ (Holds(w, open)' <=> Holds(w, open))
    BY <1>2 DEF waits, Confirmed, MessageOf, Holds, Effect
  <2>4. Held' /\ Rivals'
    BY <1>2, <2>3 DEF Attuned, Held, Rivals
  <2>5. Echoed'
    BY <1>1, <1>2 DEF Echoed
  <2> QED
    BY <2>2, <2>4, <2>5 DEF Attuned
<1>3. CASE toHost' = <<>> /\ Answer(Nothing) /\ UNCHANGED controller
  BY <1>1, <1>3, AttunedAnswer
<1> QED
  BY <1>2, <1>3 DEF TryAgain

(* Whatever the serial thread reads or waits for is in its turn. *)
LEMMA AttunedDispatch ==
  ASSUME Linked, Counted, Attuned, Dispatch, ~TakeRequest, Calm'
  PROVE  Attuned'
PROOF
<1> USE DEF asking, controller
<1>1. TypeOK /\ InStep /\ ~LineFault /\ ~Fault("slow") /\ ~Fault("port")
  BY NoLineFault DEF Linked, Typed, Attuned
<1>2. ASSUME UNCHANGED <<req, owed, work, open, accepting, waits>>, InStep' PROVE Attuned'
  <2>1. \A w : (Confirmed(w)' <=> Confirmed(w)) /\ (Holds(w, open)' <=> Holds(w, open))
    BY <1>2 DEF waits, Confirmed, MessageOf, Holds, Effect
  <2>2. Held' /\ Rivals' /\ Echoed'
    BY <1>2, <2>1 DEF Attuned, Held, Rivals, Echoed
  <2> QED
    BY <1>2, <2>2 DEF Attuned
<1>3. ~PortError /\ ~Reconnect /\ ~DropPending
  <2>1. state # "reconnect"
    BY <1>1 DEF InStep
  <2>2. state = "idle" => toHost = <<>>
    BY <1>1 DEF InStep
  <2> QED
    BY <1>1, <2>1, <2>2 DEF PortError, Reconnect, DropPending, Serving, ReadMessage, ReadMark
<1>4. CASE StopSerial
  <2>1. UNCHANGED <<req, owed, work, toHost, open, accepting, waits>> /\ state = "idle" /\ state' = "dead"
    BY <1>4 DEF StopSerial, Serving
  <2>2. InStep'
    BY <1>1, <2>1 DEF InStep
  <2> QED
    BY <1>2, <2>1, <2>2
<1>5. CASE AckTimeout
  BY <1>5, AttunedAgain DEF AckTimeout, Serving
<1>6. CASE ReadAck
  <2>1. state = "ack" /\ toHost # <<>> /\ UNCHANGED asking
    BY <1>6 DEF ReadAck, Serving, ReadMark, TakeFrame, ReadMessage
  <2>2. \/ toHost = <<Mark("NAK")>>
        \/ work = <<req>> /\ toHost = <<Mark("ACK")>> /\ owed = {}
        \/ \E r \in Replies : work = <<>> /\ owed = {r} /\ toHost = <<Mark("ACK"), Frame(r)>>
    BY <1>1, <2>1 DEF InStep
  <2>3. Head(toHost) \in {Mark("NAK"), Mark("ACK")}
    BY <2>2, ShortLines
  <2>4. ~ReadMark("damaged") /\ ~TakeFrame
    BY <2>3, ToldApart DEF ReadMark, TakeFrame, ReadMessage
  <2>5. CASE Head(toHost) = Mark("NAK")
    <3>1. toHost = <<Mark("NAK")>>
      BY <2>2, <2>5, ShortLines, ToldApart
    <3>2. Tail(toHost) = <<>>
      BY <3>1, ShortLines
    <3>3. TryAgain(<<>>)
      BY <1>6, <2>4, <2>5, <3>2, ToldApart DEF ReadAck, ReadMark
    <3> QED
      BY <2>1, <3>1, <3>3, AttunedAgain
  <2>6. CASE Head(toHost) = Mark("ACK")
    <3>1. /\ ReadMark("ACK") /\ state' = "reply" /\ UNCHANGED <<req, tried, stop, waits>>
      BY <1>6, <2>4, <2>6, ToldApart DEF ReadAck
    <3>2. toHost' = Tail(toHost) /\ UNCHANGED <<work, owed, open, accepting>>
      BY <2>1, <3>1 DEF ReadMark
    <3>3. Replies' = Replies
      BY <3>1 DEF Replies
    <3>4. \/ work = <<req>> /\ toHost' = <<>> /\ owed = {}
          \/ \E r \in Replies : work = <<>> /\ owed = {r} /\ toHost' = <<Frame(r)>>
      <4>1. toHost # <<Mark("NAK")>>
        BY <2>6, ShortLines, ToldApart
      <4>2. CASE toHost = <<Mark("ACK")>>
        BY <2>2, <3>2, <4>1, <4>2, ShortLines
      <4>3. CASE toHost # <<Mark("ACK")>>
        <5>1. PICK r \in Replies : work = <<>> /\ owed = {r} /\ toHost = <<Mark("ACK"), Frame(r)>>
          BY <2>2, <4>1, <4>3
        <5> QED
          BY <3>2, <5>1, ShortLines
      <4> QED
        BY <4>2, <4>3
    <3>5. InStep'
      BY <3>1, <3>2, <3>3, <3>4 DEF InStep
    <3> QED
      BY <1>2, <3>1, <3>2, <3>5
  <2> QED
    BY <2>3, <2>5, <2>6
<1>7. CASE ReadReply
  <2>1. state = "reply" /\ toHost # <<>> /\ UNCHANGED asking
    BY <1>7 DEF ReadReply, Serving, ReadMark, TakeFrame, ReadMessage
  <2>2. PICK r \in Replies : work = <<>> /\ owed = {r} /\ toHost = <<Frame(r)>>
    BY <1>1, <2>1 DEF InStep
  <2>3. Head(toHost) = Frame(r) /\ Tail(toHost) = <<>>
    BY <2>2, ShortLines
  <2>4. TakeFrame
    BY <1>7, <2>3, ToldApart DEF ReadReply, ReadMark
  <2>5. PICK s \in Reply : ReadMessage(s) /\ (IsReplyTo(req.msg, s) => Answer(s))
    BY <2>4 DEF TakeFrame
  <2>6. s = r
    BY <2>3, <2>5, ToldApart DEF ReadMessage
  <2>7. owed' = {} /\ toHost' = <<>> /\ UNCHANGED <<work, open>>
    BY <1>1, <2>2, <2>3, <2>5, <2>6 DEF ReadMessage
  <2>8. Answer(r)
    BY <2>5, <2>6, ToldApart DEF Replies
  <2> QED
    BY <2>1, <2>2, <2>7, <2>8, AttunedAnswer
<1>8. ~ReplyTimeout
  <2>1. ASSUME ReplyTimeout PROVE FALSE
    <3>1. state = "reply" /\ toHost = <<>> /\ work = <<>>
      BY <1>1, <2>1 DEF ReplyTimeout, Serving
    <3> QED
      BY <1>1, <3>1, ShortLines DEF InStep
  <2> QED
    BY <2>1
<1> QED
  BY <1>3, <1>4, <1>5, <1>6, <1>7, <1>8 DEF Dispatch

(* The others leave the line alone, until the process ends. *)
LEMMA AttunedElse ==
  ASSUME Linked, Attuned, Alive, Requester \/ Waiter \/ Server \/ Over \/ UNCHANGED vars
  PROVE  IF Alive' THEN Attuned' ELSE \A w \in Who : slot'[w] = 0
PROOF
<1> USE DEF asking, serial, waits, main, controller
<1>1. CASE Exit \/ SignalAgain
  BY <1>1 DEF Exit, SignalAgain, Gone, Alive
<1>2. CASE ~(Exit \/ SignalAgain)
  <2>1. UNCHANGED <<state, req, toHost, work, owed, open>>
    BY <1>2 DEF Requester, Decide, Ask, Waiter, TakeAnswer, GiveUp, Done,
                Server, StopThreads, AllOffNow, CloseSerial, Over, vars
  <2>2. /\ (accepting' = accepting \/ ~accepting')
        /\ \A w \in Who \ {"poll"} : Confirmed(w)' => Confirmed(w) /\ MessageOf(w)' = MessageOf(w)
    BY NoNewConfirmation DEF SameConfirmed
  <2>3. \A w \in Who \ {"poll"} : Confirmed(w)' => Confirmed(w) /\ (Holds(w, open) => Holds(w, open)')
    BY <2>1, <2>2 DEF Holds, Effect
  <2>4. Held' /\ Rivals' /\ Echoed'
    BY <2>1, <2>2, <2>3 DEF Attuned, Held, Rivals, Echoed
  <2>5. InStep'
    BY <2>1 DEF Attuned, InStep, Replies
  <2>6. Alive'
    BY <1>2 DEF Requester, Decide, Ask, Waiter, TakeAnswer, GiveUp, Done,
                Server, StopThreads, AllOffNow, CloseSerial, Over, vars, Alive
  <2> QED
    BY <2>4, <2>5, <2>6 DEF Attuned
<1> QED
  BY <1>1, <1>2

(* Nobody is left to ask or to answer. *)
LEMMA GoneForGood ==
  ASSUME [Next]_vars, ~Alive, \A w \in Who : slot[w] = 0
  PROVE  ~Alive' /\ \A w \in Who : slot'[w] = 0
PROOF
<1> USE DEF asking, serial, waits, main, controller
<1>1. server = "exited"
  BY DEF Alive
<1>2. ~Dispatch
  BY DEF Dispatch, DropPending, TakeRequest, ReadAck, AckTimeout, ReadReply, ReplyTimeout,
         PortError, Reconnect, StopSerial, Serving
<1>3. ~Requester /\ ~Waiter
  BY <1>1 DEF Requester, Decide, Ask, Waiter, TakeAnswer, GiveUp
<1>4. ~Server
  BY <1>1 DEF Server, StopThreads, AllOffNow, CloseSerial, Exit, SignalAgain
<1>5. Line \/ Over \/ UNCHANGED vars
  BY <1>2, <1>3, <1>4 DEF Next
<1> QED
  BY <1>5 DEF Line, Act, SendAgain, Over, vars, Alive

LEMMA QuietKept ==
  QuietInv /\ [Next]_vars => QuietInv'
PROOF
<1> SUFFICES ASSUME QuietInv, [Next]_vars PROVE QuietInv'
  OBVIOUS
<1>1. Linked /\ Linked' /\ Counted /\ TypeOK /\ faults \in Nat
  BY TypedKept, FinalKept, LinksKept, SerialAssumption
     DEF QuietInv, Linked, Typed, TypeOK, SerialAssumption
<1>2. Counted' /\ (Calm' => Calm)
  <2>1. CASE UNCHANGED failures
    BY <1>1, <2>1 DEF failures, Counted, Calm
  <2>2. ASSUME NEW kind, Fault(kind) PROVE Counted' /\ (Calm' => Calm)
    BY <1>1, <2>2, CalmBefore DEF Fault, Counted
  <2> QED
    BY <2>1, <2>2, Failing
<1>3. ASSUME MaxFrames <= 1, Calm' PROVE IF Alive' THEN Attuned' ELSE \A w \in Who : slot'[w] = 0
  <2>1. IF Alive THEN Attuned ELSE \A w \in Who : slot[w] = 0
    BY <1>2, <1>3 DEF QuietInv
  <2>2. CASE ~Alive
    BY <2>1, <2>2, GoneForGood
  <2>3. CASE Alive /\ (Line \/ Dispatch)
    <3>1. Attuned'
      BY <1>1, <1>3, <2>1, <2>3, AttunedLine, AttunedTake, AttunedDispatch
    <3>2. server' = server
      BY <2>3 DEF Line, Act, SendAgain, Dispatch, DropPending, TakeRequest, ReadAck, AckTimeout,
                  ReadReply, ReplyTimeout, PortError, Reconnect, StopSerial, main
    <3> QED
      BY <2>3, <3>1, <3>2 DEF Alive
  <2>4. CASE Alive /\ ~(Line \/ Dispatch)
    BY <1>1, <2>1, <2>4, AttunedElse DEF Next
  <2> QED
    BY <2>2, <2>3, <2>4
<1> QED
  BY <1>1, <1>2, <1>3 DEF QuietInv

(* ConfirmedDespiteOne: with one failure of any kind, and replies which    *)
(* are sent again on a quiet line only, what a requester has a             *)
(* confirmation of is so.  If that failure was not the loss of a sentence  *)
(* ConfirmedIsSo says it; if it was, the line had been in step before, and *)
(* the sentence was sent again, or its requester told that it failed.      *)
THEOREM ConfirmedDespiteOneLoss == Spec => []ConfirmedDespiteOne
PROOF
<1>1. Init => QuietInv
  <2> SUFFICES ASSUME Init PROVE QuietInv
    OBVIOUS
  <2>1. Linked /\ \A w \in Who : ~Confirmed(w)
    BY LinkedInitially DEF Init, Confirmed
  <2>2. Counted /\ Attuned /\ Alive
    BY <2>1 DEF Init, Counted, Attuned, InStep, Held, Rivals, Echoed, Alive
  <2> QED
    BY <2>1, <2>2 DEF QuietInv
<1>2. QuietInv /\ ConfirmedHolds => ConfirmedDespiteOne
  <2> SUFFICES ASSUME QuietInv, ConfirmedHolds, MaxFrames <= 1, faults <= 1, lost
               PROVE  AsConfirmed
    BY DEF ConfirmedDespiteOne, ConfirmedHolds
  <2>1. faults \in Nat
    BY SerialAssumption DEF QuietInv, Linked, Typed, TypeOK, SerialAssumption
  <2>2. Calm
    BY <2>1 DEF QuietInv, Counted, Calm
  <2>3. CASE Alive
    BY <2>2, <2>3, AttunedConfirms DEF QuietInv
  <2>4. CASE ~Alive
    BY <2>2, <2>4 DEF QuietInv, AsConfirmed, Confirmed
  <2> QED
    BY <2>3, <2>4
<1> QED
  BY <1>1, <1>2, QuietKept, ConfirmedIsSo, PTL DEF Spec
==============================================================================
