------------------------------ MODULE TDISerial ------------------------------
(***************************************************************************)
(* The serial thread of scripts/TDIserial.py, between the threads which    *)
(* ask for commands and the controller which carries them out, and the     *)
(* way scripts/TDIserver.py stops them all.                                *)
(*                                                                         *)
(* Requests wait in a priority queue.  The serial thread takes one at a    *)
(* time, sends its sentence, waits for the ACK and then for the reply, and *)
(* hands that to the requester, who may have given up meanwhile.  Frames   *)
(* may be lost or damaged either way, and the controller sends a reply     *)
(* again until it is ACKed, so a reply may arrive at any later time.       *)
(*                                                                         *)
(* The bytes of a frame are left out: a frame arrives whole, damaged (the  *)
(* length, body or checksum which readMessage NAKs), or not at all.        *)
(***************************************************************************)
EXTENDS Integers, Sequences, FiniteSets

CONSTANTS
  Valve,         \* addresses of valves
  AllValves,     \* ALL_OFF, the address 0xFF
  NoAddr,        \* a poll has no valve address
  Thread,        \* requesters which the server stops: "valve", and "poll" for the polls
  SendTries,     \* SEND_TRIES
  FinalTries,    \* tries of allOffNow
  MaxRequests,   \* bound: requests of the threads in all
  MaxFaults,     \* bound: failures in all
  MaxFrames,     \* bound: frames on their way to the host, for resent ones
  Faults         \* which failures happen

AllFaults == {"sentence",  \* a sentence is lost or damaged
              "zee",       \* the controller rejects a sentence
              "line",      \* an ACK or a reply is lost or damaged
              "slow",      \* a reply takes longer than REPLY_WAIT
              "port",      \* the serial port fails
              "signal"}    \* a second signal while the server stops

ASSUME SerialAssumption ==
  /\ AllValves \notin Valve /\ NoAddr \notin Valve /\ AllValves # NoAddr
  /\ Thread \subseteq {"valve", "poll"}
  /\ SendTries \in Nat \ {0} /\ FinalTries \in Nat \ {0}
  /\ MaxRequests \in Nat /\ MaxFaults \in Nat /\ MaxFrames \in Nat
  /\ Faults \subseteq AllFaults

On(v) == [letter |-> "A", addr |-> v]
Off(a) == [letter |-> "D", addr |-> a]
Poll == [letter |-> "E", addr |-> NoAddr]
Message == {On(v) : v \in Valve} \cup {Off(a) : a \in Valve \cup {AllValves}} \cup {Poll}

(* A reply echoes letter and address, or is a Zee, which has the letter.   *)
Reply == [letter : {"A", "D", "E"}, addr : Valve \cup {AllValves, NoAddr}, zee : BOOLEAN]
ReplyTo(m) == [letter |-> m.letter, addr |-> m.addr, zee |-> FALSE]
Zee(m) == [letter |-> m.letter, addr |-> NoAddr, zee |-> TRUE]

IsReplyTo(m, r) == r.letter = m.letter /\ (r.zee \/ r.addr = m.addr)
(* Mutant of Confirms: a Zee is not told from a reply. *)
ConfirmsByZee(m, r) == IsReplyTo(m, r)

Confirms(m, r) == IsReplyTo(m, r) /\ ~r.zee

Id == 1 .. (MaxRequests + FinalTries)   \* next(self.sequence)
Who == Thread \cup {"main"}
Request == [id : Id, who : Who, msg : Message]

(* PRIORITY_VALVE for the valve thread and request(), PRIORITY_POLL else.  *)
Priority(r) == IF r.who = "poll" THEN 1 ELSE 0
(* Mutant of Ahead: the latest request of a priority first. *)
LatestAhead(r, s) == Priority(r) < Priority(s) \/ (Priority(r) = Priority(s) /\ r.id > s.id)

Ahead(r, s) == Priority(r) < Priority(s) \/ (Priority(r) = Priority(s) /\ r.id < s.id)

NoMsg == [letter |-> "none", addr |-> NoAddr]
NoReq == [id |-> 0, who |-> "none", msg |-> NoMsg]
Waiting == [zee |-> TRUE, addr |-> NoAddr, letter |-> "waiting"]    \* the Reply's queue is empty
Nothing == [zee |-> TRUE, addr |-> NoAddr, letter |-> "nothing"]    \* (None, None)

(* What is on its way to the host: the ACK or NAK of a sentence, a frame,  *)
(* or a frame which arrives damaged.                                       *)
Mark(kind) == [kind |-> kind, reply |-> Nothing]
Frame(r) == [kind |-> "SYNC", reply |-> r]
Arrival == {Mark(k) : k \in {"ACK", "NAK", "damaged"}} \cup {Frame(r) : r \in Reply}

VARIABLES
  queue,      \* Serial.queue, a set of requests: Ahead orders it
  lastId,     \* Serial.sequence
  accepting,  \* Serial.accepting
  state,      \* the serial thread: "idle", "ack", "reply", "reconnect" or "dead"
  req,        \* the request in flight
  tried,      \* times its sentence was sent
  stop,       \* Serial.shutdown() was called
  intent,     \* the message a thread puts and waits for, from its look at should_run
  slot,       \* the request whose reply a requester waits for, 0 for none
  answer,     \* what that Reply holds
  abandoned,  \* requests of the queue whose requester gave up
  server,     \* what the main thread does
  finals,     \* tries of allOffNow made
  toHost,     \* frames on their way from the controller
  work,       \* sentences the controller has ACKed and not yet acted on
  owed,       \* replies it sends again until they are ACKed
  open,       \* valves which are on
  carried,    \* the last valve request the controller acted on
  final,      \* the first request made with final=True, 0 before
  faults,     \* such failures so far
  lost        \* history: some sentence was lost, damaged or rejected

serial == <<state, req, tried, stop>>
asking == <<queue, lastId, accepting, final>>
waits == <<intent, slot, answer, abandoned>>
main == <<server, finals>>
controller == <<work, owed, open, carried>>
failures == <<faults, lost>>
vars == <<asking, serial, waits, main, toHost, controller, failures>>

TypeOK ==
  /\ queue \in SUBSET Request /\ lastId \in Id \cup {0} /\ accepting \in BOOLEAN
  /\ state \in {"idle", "ack", "reply", "reconnect", "dead"}
  /\ req \in Request \cup {NoReq} /\ tried \in 0 .. SendTries /\ stop \in BOOLEAN
  /\ intent \in [Thread -> Message \cup {NoMsg}]
  /\ slot \in [Who -> Id \cup {0}]
  /\ answer \in [Who -> Reply \cup {Waiting, Nothing}]
  /\ abandoned \in SUBSET Id
  /\ server \in {"running", "stopping", "allOff", "closing", "exited"}
  /\ finals \in 0 .. FinalTries
  /\ toHost \in Seq(Arrival) /\ work \in Seq(Request) /\ owed \in SUBSET Reply
  /\ open \in SUBSET Valve /\ carried \in Id \cup {0}
  /\ final \in Id \cup {0} /\ faults \in 0 .. MaxFaults /\ lost \in BOOLEAN

Init ==
  /\ queue = {} /\ lastId = 0 /\ accepting = TRUE
  /\ state = "idle" /\ req = NoReq /\ tried = 0 /\ stop = FALSE
  /\ intent = [w \in Thread |-> NoMsg]
  /\ slot = [w \in Who |-> 0] /\ answer = [w \in Who |-> Nothing]
  /\ abandoned = {}
  /\ server = "running" /\ finals = 0
  /\ toHost = <<>> /\ work = <<>> /\ owed = {}
  /\ open \in SUBSET Valve       \* whatever was left on
  /\ carried = 0 /\ final = 0 /\ faults = 0 /\ lost = FALSE
------------------------------------------------------------------------------
(***************************************************************************)
(* The controller, as README.TDI and TDISimulate.py have it: it ACKs a     *)
(* sentence at once, acts on one after another, and sends each reply       *)
(* again until that is ACKed.                                              *)
(***************************************************************************)
Fault(kind) ==
  /\ kind \in Faults /\ faults < MaxFaults
  /\ faults' = faults + 1
  /\ lost' = (lost \/ kind \in {"sentence", "zee"})
LineFault == Fault("line")

(* sendMessage: the sentence of r arrives, or is damaged and NAKed, or it  *)
(* or its ACK is lost.  before is what is already on its way to the host.  *)
Send(r, before) ==
  \/ work' = Append(work, r) /\ toHost' = Append(before, Mark("ACK")) /\ UNCHANGED failures
  \/ work' = Append(work, r) /\ toHost' = before /\ LineFault
  \/ work' = work /\ toHost' \in {before, Append(before, Mark("NAK"))} /\ Fault("sentence")

(* The valves which are on after acting on m, when on are those before.    *)
Effect(m, on) ==
  IF m.letter = "A" THEN on \cup {m.addr}
  ELSE IF m.letter = "D" THEN on \ (IF m.addr = AllValves THEN Valve ELSE {m.addr})
  ELSE on

Answers(reply) == owed' = owed \cup {reply} /\ toHost' = Append(toHost, Frame(reply))
AnswersInVain(reply) ==
  /\ owed' = owed \cup {reply}
  /\ toHost' \in {toHost, Append(toHost, Mark("damaged"))}
  /\ LineFault

Act ==
  /\ work # <<>>
  /\ work' = Tail(work)
  /\ LET r == Head(work) IN
     \/ /\ open' = Effect(r.msg, open)
        /\ carried' = IF r.who = "poll" THEN carried ELSE r.id
        /\ \/ Answers(ReplyTo(r.msg)) /\ UNCHANGED failures
           \/ AnswersInVain(ReplyTo(r.msg))
     \/ /\ Answers(Zee(r.msg)) /\ Fault("zee")
        /\ UNCHANGED <<open, carried>>
  /\ UNCHANGED <<asking, serial, waits, main>>

Alive == server # "exited"

(* Once the process is gone nobody hears it.                               *)
SendAgain ==
  /\ Alive /\ Len(toHost) < MaxFrames
  /\ \E r \in owed : toHost' = Append(toHost, Frame(r))
  /\ UNCHANGED <<asking, serial, waits, main, controller, failures>>
------------------------------------------------------------------------------
(***************************************************************************)
(* The serial thread.  Its requests and their order come first.            *)
(***************************************************************************)
Serving(s) == Alive /\ state = s
Loop == IF stop THEN "dead" ELSE "idle"     \* while self.should_run

(* readMessage: ACKs the frame r, unless that ACK is lost.                 *)
ReadMessage(r) ==
  /\ toHost # <<>> /\ Head(toHost) = Frame(r)
  /\ toHost' = Tail(toHost)
  /\ \/ owed' = owed \ {r} /\ UNCHANGED failures
     \/ owed' = owed /\ LineFault
  /\ UNCHANGED <<work, open, carried>>

(* Anything else which arrives: an ACK, a NAK, or a frame which is NAKed.  *)
ReadMark(kind) ==
  /\ toHost # <<>> /\ Head(toHost) = Mark(kind)
  /\ toHost' = Tail(toHost)
  /\ UNCHANGED <<controller, failures>>

(* replyTo.put: only the first answer to a request still waited for counts. *)
Deliver(a) ==
  /\ answer' = [w \in Who |-> IF w = req.who /\ slot[w] = req.id /\ answer[w] = Waiting
                              THEN a ELSE answer[w]]
  /\ UNCHANGED <<intent, slot, abandoned>>
Answer(a) == Deliver(a) /\ state' = Loop /\ req' = NoReq /\ tried' = 0 /\ UNCHANGED stop

StayWaiting == UNCHANGED <<serial, waits>>

DropPending ==
  /\ Serving("idle")
  /\ \/ \E r \in Reply : ReadMessage(r)
     \/ \E kind \in {"ACK", "NAK", "damaged"} : ReadMark(kind)
  /\ UNCHANGED <<asking, serial, waits, main>>

First(r) == r \in queue /\ \A s \in queue \ {r} : Ahead(r, s)

TakeRequest ==
  /\ Serving("idle")
  /\ \E r \in queue :
       /\ First(r)
       /\ queue' = queue \ {r}
       /\ \/ /\ r.id \in abandoned
             /\ abandoned' = abandoned \ {r.id} /\ state' = Loop
             /\ UNCHANGED <<req, tried, toHost, controller, failures>>
          \/ /\ r.id \notin abandoned
             /\ state' = "ack" /\ req' = r /\ tried' = 1
             /\ Send(r, toHost)
             /\ UNCHANGED <<owed, open, carried, abandoned>>
  /\ UNCHANGED <<lastId, accepting, final, stop, intent, slot, answer, main>>

(* Mutant of TryAgain: the sentence is sent again without end. *)
TryForever(before) ==
  /\ tried' = tried + 1
  /\ Send(req, before)
  /\ UNCHANGED <<owed, open, carried, state, req, stop, waits>>

(* Mutant of TryAgain: after the last try nobody is told. *)
TryAgainSilently(before) ==
  \/ /\ tried < SendTries
     /\ tried' = tried + 1
     /\ Send(req, before)
     /\ UNCHANGED <<owed, open, carried, state, req, stop, waits>>
  \/ /\ tried = SendTries
     /\ toHost' = before
     /\ state' = Loop /\ req' = NoReq /\ tried' = 0
     /\ UNCHANGED <<stop, waits, controller, failures>>

(* NAKed or not ACKed, so the controller does not have it.                 *)
TryAgain(before) ==
  \/ /\ tried < SendTries
     /\ tried' = tried + 1
     /\ Send(req, before)
     /\ UNCHANGED <<owed, open, carried, state, req, stop, waits>>
  \/ /\ tried = SendTries
     /\ toHost' = before
     /\ Answer(Nothing)
     /\ UNCHANGED <<controller, failures>>

(* A frame is the answer when isReplyTo says so; any other is dropped.     *)
TakeFrame ==
  \E r \in Reply :
    /\ ReadMessage(r)
    /\ \/ IsReplyTo(req.msg, r) /\ Answer(r)
       \/ ~IsReplyTo(req.msg, r) /\ StayWaiting

ReadAck ==
  /\ Serving("ack")
  /\ \/ ReadMark("ACK") /\ state' = "reply" /\ UNCHANGED <<req, tried, stop, waits>>
     \/ toHost # <<>> /\ Head(toHost) = Mark("NAK") /\ TryAgain(Tail(toHost))
     \/ ReadMark("damaged") /\ StayWaiting
     \/ TakeFrame
  /\ UNCHANGED <<asking, main>>

AckTimeout ==
  /\ Serving("ack")
  /\ toHost = <<>>
  /\ TryAgain(toHost)
  /\ UNCHANGED <<asking, main>>

ReadReply ==
  /\ Serving("reply")
  /\ \/ \E kind \in {"ACK", "NAK", "damaged"} : ReadMark(kind) /\ StayWaiting
     \/ TakeFrame
  /\ UNCHANGED <<asking, main>>

ReplyTimeout ==
  /\ Serving("reply")
  /\ toHost = <<>>
  /\ \/ work = <<>> /\ UNCHANGED failures
     \/ work # <<>> /\ Fault("slow")
  /\ Answer(Nothing)
  /\ UNCHANGED <<asking, main, toHost, controller>>

(* A SerialException or OSError: don't leave the requester waiting.        *)
PortError ==
  /\ Fault("port")
  /\ Alive /\ state \in {"idle", "ack", "reply"}
  /\ Deliver(Nothing)
  /\ state' = "reconnect" /\ req' = NoReq /\ tried' = 0
  /\ UNCHANGED <<asking, stop, main, toHost, controller>>

(* _reconnect: open() drops what has arrived; after the last attempt, or   *)
(* when the server stops, the thread ends.                                 *)
Reconnect ==
  /\ Serving("reconnect")
  /\ \/ state' = Loop /\ toHost' = <<>>
     \/ state' = "dead" /\ UNCHANGED toHost
  /\ UNCHANGED <<asking, req, tried, stop, waits, main, controller, failures>>

StopSerial ==
  /\ Serving("idle") /\ stop
  /\ state' = "dead"
  /\ UNCHANGED <<asking, req, tried, stop, waits, main, toHost, controller, failures>>
------------------------------------------------------------------------------
(* Mutant of Put: requests are taken even after a final one. *)
PutAlways(w, m, isFinal) ==
  /\ lastId' = lastId + 1
  /\ queue' = queue \cup {[id |-> lastId', who |-> w, msg |-> m]}
  /\ slot' = [slot EXCEPT ![w] = lastId'] /\ answer' = [answer EXCEPT ![w] = Waiting]
  /\ accepting' = (accepting /\ ~isFinal)
  /\ final' = IF isFinal /\ final = 0 THEN lastId' ELSE final
  /\ UNCHANGED abandoned

(***************************************************************************)
(* The requesters: the valve thread, the polls (one stands for them all),  *)
(* and the main thread for its final all-off.                              *)
(***************************************************************************)
(* Serial.put, by w. *)
Put(w, m, isFinal) ==
  /\ \/ /\ accepting \/ isFinal
        /\ lastId' = lastId + 1
        /\ queue' = queue \cup {[id |-> lastId', who |-> w, msg |-> m]}
        /\ slot' = [slot EXCEPT ![w] = lastId'] /\ answer' = [answer EXCEPT ![w] = Waiting]
     \/ /\ ~(accepting \/ isFinal)
        /\ answer' = [answer EXCEPT ![w] = Nothing]
        /\ UNCHANGED <<lastId, queue, slot>>
  /\ accepting' = (accepting /\ ~isFinal)
  /\ final' = IF isFinal /\ final = 0 THEN lastId' ELSE final
  /\ UNCHANGED abandoned

Asks(w) == IF w = "poll" THEN {Poll} ELSE Message \ {Poll}
Deciding == {w \in Thread : intent[w] # NoMsg /\ slot[w] = 0}

(* transact and the loop of the polls: should_run is read before the put.  *)
Decide(w) ==
  /\ server = "running" /\ intent[w] = NoMsg
  /\ lastId + Cardinality(Deciding) < MaxRequests
  /\ \E m \in Asks(w) : intent' = [intent EXCEPT ![w] = m]
  /\ UNCHANGED <<asking, serial, slot, answer, abandoned, main, toHost, controller, failures>>

Ask(w) ==
  /\ Alive /\ w \in Deciding
  /\ Put(w, intent[w], FALSE)
  /\ intent' = IF accepting THEN intent ELSE [intent EXCEPT ![w] = NoMsg]
  /\ UNCHANGED <<serial, main, toHost, controller, failures>>

Done(w) ==
  /\ slot' = [slot EXCEPT ![w] = 0] /\ answer' = [answer EXCEPT ![w] = Nothing]
  /\ intent' = [t \in Thread |-> IF t = w THEN NoMsg ELSE intent[t]]
  /\ UNCHANGED <<asking, serial, main, toHost, controller, failures>>

TakeAnswer(w) ==
  /\ Alive /\ slot[w] # 0 /\ answer[w] # Waiting
  /\ w = "main" => ~Confirms(Off(AllValves), answer[w])
  /\ Done(w)
  /\ UNCHANGED abandoned

(* REPLY_TIMEOUT and POLL_TIMEOUT: the serial thread is not to send it.    *)
GiveUp(w) ==
  /\ Alive /\ slot[w] # 0 /\ answer[w] = Waiting
  /\ abandoned' = abandoned \cup {r.id : r \in {q \in queue : q.id = slot[w]}}
  /\ Done(w)
------------------------------------------------------------------------------
(***************************************************************************)
(* The main thread of TDIserver.py.  A signal, an exception of a thread or *)
(* a stalled one may stop it at any time.                                  *)
(***************************************************************************)
(* stopThreads of the requesters: shutdown() wakes each one which waits.   *)
StopThreads ==
  /\ server = "running"
  /\ server' = "stopping"
  /\ answer' = [w \in Who |-> IF answer[w] = Waiting THEN Nothing ELSE answer[w]]
  /\ UNCHANGED <<asking, serial, intent, slot, abandoned, finals, toHost, controller, failures>>

(* allOffNow, once the threads have stopped or five seconds are over.      *)
AllOffNow ==
  /\ \/ server = "stopping" /\ state # "dead"
     \/ server = "allOff" /\ slot["main"] = 0 /\ finals < FinalTries
  /\ server' = "allOff" /\ finals' = finals + 1
  /\ Put("main", Off(AllValves), TRUE)
  /\ UNCHANGED <<intent, serial, toHost, controller, failures>>

CloseSerial ==
  /\ \/ server = "stopping" /\ state = "dead"
     \/ server = "allOff" /\ Confirms(Off(AllValves), answer["main"])
     \/ server = "allOff" /\ slot["main"] = 0 /\ finals = FinalTries
  /\ server' = "closing" /\ stop' = TRUE
  /\ UNCHANGED <<asking, state, req, tried, waits, finals, toHost, controller, failures>>

(* The process ends, and its queue, requests and replies with it.          *)
Gone ==
  /\ server' = "exited"
  /\ queue' = {} /\ state' = "dead" /\ req' = NoReq /\ tried' = 0
  /\ intent' = [w \in Thread |-> NoMsg] /\ abandoned' = {}
  /\ slot' = [w \in Who |-> 0] /\ answer' = [w \in Who |-> Nothing]
  /\ toHost' = <<>>
  /\ UNCHANGED <<lastId, accepting, final, stop, finals, controller>>

Exit == server = "closing" /\ Gone /\ UNCHANGED failures

(* stopService raises in the main thread wherever that is.                 *)
SignalAgain == Fault("signal") /\ server \in {"stopping", "allOff", "closing"} /\ Gone

Over == server = "exited" /\ work = <<>> /\ UNCHANGED vars

Line == Act \/ SendAgain
Dispatch == DropPending \/ TakeRequest \/ ReadAck \/ AckTimeout \/ ReadReply \/ ReplyTimeout
            \/ PortError \/ Reconnect \/ StopSerial
Requester == \E w \in Thread : Decide(w) \/ Ask(w)
Waiter == \E w \in Who : TakeAnswer(w) \/ GiveUp(w)
Server == StopThreads \/ AllOffNow \/ CloseSerial \/ Exit \/ SignalAgain
Next == Line \/ Dispatch \/ Requester \/ Waiter \/ Server \/ Over

Spec == Init /\ [][Next]_vars

(***************************************************************************)
(* Fairness: threads run and time-outs end; a controller acts on what it   *)
(* has.  Not fair: anyone giving up, so that nothing relies on it, and     *)
(* failures.  Each step of the serial thread changes some of line.         *)
(***************************************************************************)
line == <<state, tried, queue, toHost>>
FairSpec ==
  /\ Spec
  /\ WF_work(Act)
  /\ WF_line(DropPending) /\ WF_line(TakeRequest) /\ WF_line(StopSerial)
  /\ WF_line(ReadAck) /\ WF_line(AckTimeout) /\ WF_line(ReadReply) /\ WF_line(ReplyTimeout)
  /\ WF_line(Reconnect)
------------------------------------------------------------------------------
MessageOf(w) == IF w = "main" THEN Off(AllValves) ELSE intent[w]
Confirmed(w) == slot[w] # 0 /\ Confirms(MessageOf(w), answer[w])

TurnsOn(m, v) == m.letter = "A" /\ m.addr = v
TurnsOff(m, v) == m.letter = "D" /\ m.addr \in {v, AllValves}

(* The valves which are on once the controller has acted on all it has     *)
(* ACKed: on, or turned on by one of those, and not turned off after that. *)
Settled ==
  {v \in Valve : \E i \in 0 .. Len(work) :
     /\ IF i = 0 THEN v \in open ELSE TurnsOn(work[i].msg, v)
     /\ \A j \in i + 1 .. Len(work) : ~TurnsOff(work[j].msg, v)}
InForce(m) == Effect(m, Settled) = Settled

AsConfirmed ==
  \A w \in Who \ {"poll"} : Confirmed(w) =>
    InForce(MessageOf(w)) \/ (MessageOf(w).letter = "A" /\ ~accepting)

(* A requester which has a confirmation gets what it asked for: the        *)
(* controller has its command, and none of its earlier ones still undoes   *)
(* it.  For an on, until the final all-off.  ValveOps relies on this where *)
(* it records a run as begun or ended.  It takes that the controller gets  *)
(* and accepts its sentences; anything else may fail, at any time.         *)
ConfirmedHolds == ~lost => AsConfirmed

(* The same with one failure, which may be the loss of a sentence: then    *)
(* only a reply to an earlier equal request could confirm it, and there is *)
(* none if the controller sends replies again only on a quiet line.  A     *)
(* reply which was sent again while others were on their way can confirm a *)
(* sentence which was lost; so can, after a second failure, any late one.  *)
ConfirmedDespiteOne == (faults <= 1 /\ MaxFrames <= 1) => AsConfirmed

(* Once a final all-off has been carried out nothing turns a valve on      *)
(* again: not a request made before it, sent again or late, nor one of a   *)
(* thread which had looked at should_run before it was told to stop.       *)
NothingAfterFinal == (final # 0 /\ carried >= final) => open = {}

(* The controller carries out the valve commands in the order they were    *)
(* asked for, although they are sent again, given up, and share the line.  *)
InOrder == [][carried' >= carried]_carried

(* Every request is answered by the serial thread itself, without relying  *)
(* on the requester to give up, unless the thread has ended.               *)
IsAnswered(w) == slot[w] = 0 \/ answer[w] # Waiting \/ state = "dead" \/ ~Alive
Answered == \A w \in Who : []<>IsAnswered(w)
==============================================================================
