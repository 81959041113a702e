---------------------- MODULE CollaborationClientProofs ----------------------
(***************************************************************************)
(* What the browsers of a Meeting rely on holds for every number of        *)
(* browsers, sockets, edits, barriers and fresh epochs: no edit is lost,   *)
(* no clock seals two texts, a snapshot holds exactly the log it replaces, *)
(* and whoever has drained has nothing under way.                          *)
(*                                                                         *)
(* The invariant is one predicate of each client (ClientOK: its record and *)
(* its inbox against the server) and one of the server (ServerOK).  Every  *)
(* method of the provider keeps ClientOK, whatever it is called in; a step *)
(* of a client is a composition of methods, a step of the server changes   *)
(* what ClientOK compares the record with.                                 *)
(***************************************************************************)
EXTENDS CollaborationClient, CoordinatorAndDocumentProofs, SequenceTheorems

-----------------------------------------------------------------------------
(* Values *)

Edits == (Clients \X Nat) \cup {NoEdit}
SealedText == [edit : Edits, epoch : Epochs, clock : Nat, parent : Nat]
FrameTypes == {"authenticated", "acknowledged", "update", "barrier", "sequence", "ready",
               "released", "rejected", "request", "drained", "confirmed", "failed"}
Codes == Intentions \cup Outcomes \cup
         {"", "MEETING_COMPLETED_IMMUTABLE", "E2EE_COMPACTION_IN_PROGRESS",
          "E2EE_COMPACTION_NOT_REQUIRED", "E2EE_ENVELOPE_CONTEXT_INVALID",
          "E2EE_COUNTER_REUSE", "E2EE_UPDATE_REPLAY", "E2EE_AUTHOR_CLOCK_GAP"}
AnyFrame == [type : FrameTypes, id : Nat, sequence : Nat,
             envelope : SealedText \cup {NoEnvelope}, code : Codes]
Copy == [sequence : Nat, parent : Nat, content : SUBSET Edits]
AnyJob == [kind : {"encrypt", "sync", "recover"}, edit : Edits, awaited : BOOLEAN,
           stage : {"queued", "row", "read"}, read : Copy]
AnyPost == [step : {"none", "posted", "locked", "stored", "refused"}, id : Nat, sequence : Nat,
            parent : Nat, content : SUBSET Edits]
Sending == [frame : AnyFrame, link : Connections]

Client ==
    [link : Connections \cup {NoLink}, online : BOOLEAN, stopped : BOOLEAN, made : Nat,
     doc : SUBSET Edits, sequence : Nat, parent : Nat, clock : Nat, rotation : 0..MaxRotations,
     jobs : Seq(AnyJob), busy : BOOLEAN, post : AnyPost,
     pending : Seq(SealedText), sent : SUBSET SealedText, paused : Seq(Edits),
     held : Nat, intention : Codes, drained : BOOLEAN, mirror : SUBSET Edits,
     compacting : BOOLEAN, trigger : Nat, retry : Nat, out : Seq(Sending),
     edits : Nat, refreshes : Nat, interval : Nat \ {0}, completes : BOOLEAN, unreliable : BOOLEAN]

-----------------------------------------------------------------------------
(* The invariant of one client: its record r and its inbox *)

\* The barrier b is open: who drains for it is waited for.
Live(b) == Open /\ barrier.id = b

\* What has been sealed in the epochs of client c, as far as it can still turn
\* up somewhere, carries clocks that c has spent, each of them once.
Spent(x, r) == x.epoch[2] < r.rotation \/ (x.epoch[2] = r.rotation /\ x.clock <= r.clock)
Own(c, r) == Sealed(r) \cup {x \in ToSet(log) : x.epoch[1] = c}
ClockOK(c, r) ==
    /\ \A x \in Own(c, r) : x \in SealedText /\ x.epoch[1] = c
    /\ ~r.stopped => \A x \in Own(c, r) : Spent(x, r)
    /\ \A x, y \in Own(c, r) : x.epoch = y.epoch /\ x.clock = y.clock => x = y

\* What the user typed is in his document, and stored or waiting.
EditOK(c, r) ==
    ~r.stopped => \A n \in 1..r.made : <<c, n>> \in r.doc /\ <<c, n>> \in Logged \cup Waits(r)

\* Who has drained holds a barrier and has nothing under way.
SettledOK(r) == r.drained => r.held # 0 /\ r.pending = <<>> /\ ~Encrypting(r)

\* A drain that is counted, or about to be, is the one the client stands by.
DrainOK(c, r) ==
    /\ r.held <= issued
    /\ r.link # NoLink => ClientOf(r.link) = c /\ sockets[r.link] # "new"
    /\ r.link \in barrier.drained => r.held = barrier.id /\ r.drained
    /\ \A i \in DOMAIN r.out :
          /\ ClientOf(r.out[i].link) = c /\ sockets[r.out[i].link] # "new"
          /\ r.out[i].frame.type = "drained" =>
                /\ r.out[i].frame.id <= issued
                /\ r.out[i].link = r.link /\ Live(r.out[i].frame.id)
                   => r.held = r.out[i].frame.id /\ r.drained

\* What an inbox says is true: what is acknowledged is stored, what is released
\* is over, and what a joining client is not told of is over.
InboxOK(in) ==
    \A k \in DOMAIN in :
       /\ in[k].type = "acknowledged" => in[k].envelope.edit \in Logged
       /\ in[k].type \in {"barrier", "released", "ready"} => in[k].id <= issued
       /\ in[k].type = "released" => ~Live(in[k].id) /\ in[k].code \in Outcomes \ {"none"}
       /\ in[k].type = "authenticated" =>
             \A l \in 1..(k - 1) : in[l].type = "barrier" /\ Live(in[l].id) => in[l].id = in[k].id

HeldOK(r, in) ==
    /\ \A k \in DOMAIN in : in[k].type = "authenticated" /\ Live(r.held) => in[k].id = r.held
    /\ r.busy /\ Head(in).type = "released" => ~Live(r.held)
    /\ r.busy /\ Head(in).type = "ready" => r.held # 0

\* A copy of the stored document, of the snapshot that is still active, holds
\* the log up to its sequence, and nothing that is not stored.
EditsUpTo(n) == {log[i].edit : i \in 1..n}
CopyOK(copy) ==
    /\ copy.content \subseteq Logged
    /\ copy.parent <= snapshot.id
    /\ copy.sequence <= Len(log)
    /\ copy.parent = snapshot.id => EditsUpTo(copy.sequence) \subseteq copy.content

RowOK(copy) ==
    /\ copy.content \subseteq Logged
    /\ copy.parent <= snapshot.id
    /\ copy.sequence <= Len(log)
    /\ copy.parent = snapshot.id => copy.content = archive

ReadsOK(r) ==
    \A i \in DOMAIN r.jobs :
       /\ r.jobs[i].kind = "encrypt" => r.jobs[i].stage = "queued" /\ ~r.jobs[i].awaited
       /\ r.jobs[i].stage = "row" => RowOK(r.jobs[i].read)
       /\ r.jobs[i].stage = "read" => CopyOK(r.jobs[i].read)

\* A claimed replacement is committing as long as its barrier is there.
PostOK(post) ==
    post.step # "none" =>
       /\ CopyOK(post)
       /\ post.id <= issued
       /\ post.step = "locked" => post.id \in BarrierIds
                                  /\ (barrier.id = post.id => barrier.phase = "committing")

\* At most one job is awaited, by the handler of the frame at the head of the
\* inbox; a handler that waits for the answer to its snapshot awaits no job.
AwaitOK(r, in) ==
    /\ \A i, j \in DOMAIN r.jobs : r.jobs[i].awaited /\ r.jobs[j].awaited => i = j
    /\ \A i \in DOMAIN r.jobs : r.jobs[i].awaited =>
          /\ r.busy
          /\ r.post.step = "none"
          /\ r.jobs[i].kind = "recover" => Head(in).type = "rejected"
    /\ r.busy => in # <<>>
    /\ r.post.step # "none" /\ ~r.stopped => r.busy
    /\ r.stopped => r.jobs = <<>>

ClientOK(c, r, in) ==
    /\ r \in Client
    /\ in \in Seq(AnyFrame)
    /\ ClockOK(c, r)
    /\ EditOK(c, r)
    /\ SettledOK(r)
    /\ DrainOK(c, r)
    /\ InboxOK(in)
    /\ HeldOK(r, in)
    /\ ReadsOK(r)
    /\ PostOK(r.post)
    /\ AwaitOK(r, in)

-----------------------------------------------------------------------------
(* The invariant of the server *)

\* Sockets that have entered the room, now or once.
Entered == {p \in Connections : sockets[p] \in {"open", "closed"}}

\* What is still to be answered is stored.
AnswersOK ==
    \A a \in answers : /\ a \in [link : Connections, envelope : SealedText, sequence : Nat]
                       /\ a.envelope.edit \in Logged

StoredOK ==
    /\ log \in Seq(SealedText)
    /\ Len(log) = currentServerSequence
    /\ \A e \in Epochs : LatestClock(e) <= currentServerSequence
    /\ \A x, y \in ToSet(log) : x.epoch = y.epoch /\ x.clock = y.clock => x = y
    /\ AnswersOK
    /\ SnapshotHoldsLog

RoomOK ==
    /\ sockets \in [Connections -> {"new", "connecting", "open", "closed"}]
    /\ barrier.participants \cup connections \subseteq Entered
    /\ snapshot.id <= issued
    /\ Open => snapshot.id < barrier.id

ServerOK == IInv /\ LogInv /\ StoredOK /\ RoomOK

Inv ==
    /\ ServerOK
    /\ clients \in [Clients -> Client]
    /\ inbox \in [Clients -> Seq(AnyFrame)]
    /\ \A c \in Clients : ClientOK(c, clients[c], inbox[c])
-----------------------------------------------------------------------------
(* Sequences *)

\* An appended sequence has the old elements and the new one.
LEMMA AppendHas ==
    ASSUME NEW S, NEW s \in Seq(S), NEW x \in S
    PROVE  /\ Append(s, x) \in Seq(S)
           /\ DOMAIN Append(s, x) = 1..(Len(s) + 1)
           /\ DOMAIN s = 1..Len(s) /\ Len(s) \in Nat
           /\ \A i \in 1..Len(s) : Append(s, x)[i] = s[i]
           /\ Append(s, x)[Len(s) + 1] = x
  OBVIOUS

\* The tail has the elements after the first.
LEMMA TailHas ==
    ASSUME NEW S, NEW s \in Seq(S), s # <<>>
    PROVE  /\ Tail(s) \in Seq(S)
           /\ Len(s) \in Nat \ {0} /\ DOMAIN s = 1..Len(s)
           /\ DOMAIN Tail(s) = 1..(Len(s) - 1)
           /\ \A i \in 1..(Len(s) - 1) : Tail(s)[i] = s[i + 1]
           /\ Head(s) = s[1] /\ Head(s) \in S
  OBVIOUS

\* A concatenation has the elements of both.
LEMMA ConcatHas ==
    ASSUME NEW S, NEW s \in Seq(S), NEW t \in Seq(S)
    PROVE  /\ s \o t \in Seq(S)
           /\ Len(s) \in Nat /\ Len(t) \in Nat
           /\ DOMAIN s = 1..Len(s) /\ DOMAIN t = 1..Len(t)
           /\ DOMAIN (s \o t) = 1..(Len(s) + Len(t))
           /\ \A i \in 1..Len(s) : (s \o t)[i] = s[i]
           /\ \A i \in 1..Len(t) : (s \o t)[Len(s) + i] = t[i]
           /\ \A i \in 1..(Len(s) + Len(t)) : i \notin 1..Len(s) =>
                 i - Len(s) \in 1..Len(t) /\ (s \o t)[i] = t[i - Len(s)]
  OBVIOUS

\* A prefix has the elements up to its end.
LEMMA PrefixHas ==
    ASSUME NEW S, NEW s \in Seq(S), NEW n \in 0..Len(s)
    PROVE  /\ SubSeq(s, 1, n) \in Seq(S)
           /\ DOMAIN SubSeq(s, 1, n) = 1..n /\ DOMAIN s = 1..Len(s) /\ Len(s) \in Nat
           /\ \A i \in 1..n : SubSeq(s, 1, n)[i] = s[i]
  OBVIOUS

\* A function on 1..n is a sequence.
LEMMA FunctionIsSeq ==
    ASSUME NEW S, NEW n \in Nat, NEW f \in [1..n -> S]
    PROVE  f \in Seq(S) /\ Len(f) = n
  OBVIOUS

\* Having no socket is not having one.
LEMMA NoLinkIsNoConnection == NoLink \notin Connections
  BY ClientConstants DEF ClientConstants, NoLink

-----------------------------------------------------------------------------
(* What the methods of the provider do to a client *)

\* The fields the invariant is about, besides those a method often changes: what
\* is sent, and what is sealed.
SameCore(q, r) ==
    /\ q.link = r.link /\ q.stopped = r.stopped /\ q.made = r.made /\ q.rotation = r.rotation
    /\ q.jobs = r.jobs /\ q.busy = r.busy /\ q.post = r.post /\ q.paused = r.paused
    /\ q.held = r.held
SameSeals(q, r) == q.clock = r.clock /\ q.pending = r.pending

\* The fields the methods of this section leave alone.
SameView(q, r) ==
    /\ q.doc = r.doc /\ q.sequence = r.sequence /\ q.parent = r.parent /\ q.mirror = r.mirror
    /\ q.online = r.online /\ q.intention = r.intention

\* The invariant does not read the other fields, except that a document may grow.
LEMMA SameCoreKeeps ==
    ASSUME NEW c, NEW r, NEW q, NEW in, ClientOK(c, r, in), q \in Client,
           SameCore(q, r), SameSeals(q, r), q.drained = r.drained, q.out = r.out, r.doc \subseteq q.doc
    PROVE  ClientOK(c, q, in)
<1>1. /\ q.link = r.link /\ q.stopped = r.stopped /\ q.made = r.made /\ q.rotation = r.rotation
      /\ q.clock = r.clock /\ q.jobs = r.jobs /\ q.busy = r.busy /\ q.post = r.post
      /\ q.pending = r.pending /\ q.paused = r.paused /\ q.held = r.held
      /\ q.drained = r.drained /\ q.out = r.out
  BY DEF SameCore, SameSeals
<1>2. ClockOK(c, q)
  BY <1>1 DEF ClientOK, ClockOK, Own, Sealed, Spent
<1>3. EditOK(c, q)
  <2>1. Waits(q) = Waits(r)
    BY <1>1 DEF Waits, JobsOf
  <2> QED  BY <1>1, <2>1 DEF ClientOK, EditOK
<1>4. SettledOK(q)
  BY <1>1 DEF ClientOK, SettledOK, Encrypting, JobsOf
<1>5. DrainOK(c, q)
  BY <1>1 DEF ClientOK, DrainOK
<1>6. HeldOK(q, in) /\ ReadsOK(q) /\ PostOK(q.post) /\ AwaitOK(q, in)
  BY <1>1 DEF ClientOK, HeldOK, ReadsOK, AwaitOK
<1> QED  BY <1>2, <1>3, <1>4, <1>5, <1>6 DEF ClientOK

\* A frame is put on the client's socket.
Sent(r, frame) == [r EXCEPT !.out = Append(@, [frame |-> frame, link |-> r.link])]

\* A client that has sent a frame.
LEMMA SentIs ==
    ASSUME NEW c, NEW r, NEW in, ClientOK(c, r, in), r.link # NoLink, NEW frame \in AnyFrame
    PROVE  /\ Sent(r, frame) \in Client
           /\ SameCore(Sent(r, frame), r) /\ SameSeals(Sent(r, frame), r)
           /\ SameView(Sent(r, frame), r)
           /\ Sent(r, frame).drained = r.drained /\ Sent(r, frame).sent = r.sent
           /\ Sent(r, frame).out = Append(r.out, [frame |-> frame, link |-> r.link])
           /\ [frame |-> frame, link |-> r.link] \in Sending
<1> DEFINE x == [frame |-> frame, link |-> r.link]
           q == [r EXCEPT !.out = Append(@, x)]
<1>1. r \in Client /\ x \in Sending
  BY DEF ClientOK, Client, Sending
<1>2. Append(r.out, x) \in Seq(Sending)
  BY <1>1, AppendHas DEF Client
<1> HIDE DEF x
<1>3. q \in Client
  BY <1>1, <1>2 DEF Client
<1>4. SameCore(q, r) /\ SameSeals(q, r) /\ SameView(q, r)
  BY <1>1 DEF Client, SameCore, SameSeals, SameView
<1>5. q.drained = r.drained /\ q.sent = r.sent /\ q.out = Append(r.out, x)
  BY <1>1 DEF Client
<1> QED  BY <1>1, <1>3, <1>4, <1>5 DEF Sent, x

\* Sending a frame, an update of what waits or the drain of who has drained, keeps
\* the invariant.
LEMMA SentKeeps ==
    ASSUME NEW c, NEW r, NEW in, ClientOK(c, r, in), r.link # NoLink, NEW frame \in AnyFrame,
           frame.type = "update" => frame.envelope \in ToSet(r.pending),
           frame.type = "drained" => frame.id = r.held /\ r.drained
    PROVE  ClientOK(c, Sent(r, frame), in)
<1> DEFINE q == Sent(r, frame)
           x == [frame |-> frame, link |-> r.link]
<1>1. /\ q \in Client /\ q.out = Append(r.out, x) /\ x \in Sending /\ q.doc = r.doc
      /\ q.link = r.link /\ q.stopped = r.stopped /\ q.made = r.made /\ q.rotation = r.rotation
      /\ q.clock = r.clock /\ q.jobs = r.jobs /\ q.busy = r.busy /\ q.post = r.post
      /\ q.pending = r.pending /\ q.paused = r.paused /\ q.held = r.held
      /\ q.drained = r.drained
  BY SentIs DEF SameCore, SameSeals, SameView
<1>2. /\ DOMAIN q.out = 1..(Len(r.out) + 1)
      /\ DOMAIN r.out = 1..Len(r.out) /\ Len(r.out) \in Nat
      /\ \A i \in 1..Len(r.out) : q.out[i] = r.out[i]
      /\ q.out[Len(r.out) + 1] = x
  BY <1>1, AppendHas DEF ClientOK, Client
<1> HIDE DEF q
<1>3. \A i \in DOMAIN q.out : (i \in DOMAIN r.out /\ q.out[i] = r.out[i]) \/ q.out[i] = x
  BY <1>2
<1>4. Sealed(q) \subseteq Sealed(r)
  BY <1>1, <1>3 DEF Sealed
<1>5. ClockOK(c, q)
  BY <1>1, <1>4 DEF ClientOK, ClockOK, Own, Spent
<1>6. EditOK(c, q)
  <2>1. Waits(q) = Waits(r)
    BY <1>1 DEF Waits, JobsOf
  <2> QED  BY <1>1, <2>1 DEF ClientOK, EditOK
<1>7. SettledOK(q)
  BY <1>1 DEF ClientOK, SettledOK, Encrypting, JobsOf
<1>8. DrainOK(c, q)
  BY <1>1, <1>3 DEF ClientOK, DrainOK
<1>9. HeldOK(q, in) /\ ReadsOK(q) /\ PostOK(q.post) /\ AwaitOK(q, in)
  BY <1>1 DEF ClientOK, HeldOK, ReadsOK, AwaitOK
<1> QED  BY <1>1, <1>5, <1>6, <1>7, <1>8, <1>9 DEF ClientOK, q

\* The same through a socket that may be gone.
LEMMA SendKeeps ==
    ASSUME NEW c, NEW r, NEW in, ClientOK(c, r, in), NEW frame \in AnyFrame,
           frame.type = "update" => frame.envelope \in ToSet(r.pending),
           frame.type = "drained" => frame.id = r.held /\ r.drained
    PROVE  /\ ClientOK(c, Send(r, frame), in)
           /\ SameCore(Send(r, frame), r) /\ SameSeals(Send(r, frame), r)
           /\ SameView(Send(r, frame), r) /\ Send(r, frame).drained = r.drained
<1>1. CASE r.link = NoLink
  BY <1>1 DEF Send, SameCore, SameSeals, SameView
<1>2. CASE r.link # NoLink
  <2>1. Send(r, frame) = Sent(r, frame)
    BY <1>2 DEF Send, Sent
  <2> QED  BY <1>2, <2>1, SentKeeps, SentIs
<1> QED  BY <1>1, <1>2

\* A frame that is neither an update nor a drain.
LEMMA PlainFrame ==
    ASSUME NEW type \in FrameTypes, NEW id \in Nat, NEW sequence \in Nat, NEW code \in Codes
    PROVE  Frame(type, id, sequence, NoEnvelope, code) \in AnyFrame
  BY DEF Frame, AnyFrame, FrameTypes, Codes

\* flush sends the first of the updates that wait.
LEMMA FlushKeeps ==
    ASSUME NEW c, NEW r, NEW in, ClientOK(c, r, in)
    PROVE  /\ ClientOK(c, Flush(r), in)
           /\ SameCore(Flush(r), r) /\ SameSeals(Flush(r), r) /\ SameView(Flush(r), r)
           /\ Flush(r).drained = r.drained
<1>1. CASE ~r.online \/ r.link = NoLink \/ r.sent # {} \/ r.pending = <<>>
  BY <1>1 DEF Flush, SameCore, SameSeals, SameView
<1>2. CASE ~(~r.online \/ r.link = NoLink \/ r.sent # {} \/ r.pending = <<>>)
  <2> DEFINE x == Head(r.pending)
             q == [r EXCEPT !.sent = {x}]
             frame == Frame("update", 0, 0, x, "")
  <2>1. r \in Client /\ r.pending \in Seq(SealedText) /\ r.pending # <<>>
    BY <1>2 DEF ClientOK, Client
  <2>2. x \in SealedText /\ x \in ToSet(r.pending)
    BY <2>1, TailHas DEF ToSet
  <2>3. Flush(r) = Send(q, frame)
    BY <1>2 DEF Flush
  <2> HIDE DEF x
  <2>4. q \in Client /\ SameCore(q, r) /\ SameSeals(q, r) /\ SameView(q, r)
        /\ q.drained = r.drained /\ q.out = r.out
    BY <2>1, <2>2 DEF Client, SameCore, SameSeals, SameView
  <2>5. frame \in AnyFrame /\ frame.type = "update" /\ frame.envelope = x
    BY <2>2 DEF Frame, AnyFrame, FrameTypes, Codes
  <2> HIDE DEF q, frame
  <2>6. ClientOK(c, q, in)
    BY <2>4, SameCoreKeeps DEF SameView
  <2>7. frame.envelope \in ToSet(q.pending)
    BY <2>2, <2>4, <2>5 DEF SameSeals
  <2>8. /\ ClientOK(c, Send(q, frame), in)
        /\ SameCore(Send(q, frame), q) /\ SameSeals(Send(q, frame), q)
        /\ SameView(Send(q, frame), q) /\ Send(q, frame).drained = q.drained
    BY <2>5, <2>6, <2>7, SendKeeps
  <2> QED  BY <2>3, <2>4, <2>8 DEF SameCore, SameSeals, SameView
<1> QED  BY <1>1, <1>2

\* acknowledgeBarrierWhenDrained: whoever reports the drain has nothing under way.
LEMMA AcknowledgeKeeps ==
    ASSUME NEW c, NEW r, NEW in, ClientOK(c, r, in)
    PROVE  /\ ClientOK(c, AcknowledgeBarrierWhenDrained(r), in)
           /\ SameCore(AcknowledgeBarrierWhenDrained(r), r)
           /\ SameSeals(AcknowledgeBarrierWhenDrained(r), r)
           /\ SameView(AcknowledgeBarrierWhenDrained(r), r)
<1> DEFINE stays == \/ r.held = 0 \/ r.drained \/ Synchronizing(r) \/ Encrypting(r)
                    \/ r.pending # <<>> \/ r.sent # {}
                    \/ (r.intention = "completion" /\ r.paused # <<>>)
                    \/ ~r.online \/ r.link = NoLink
<1>1. CASE stays
  BY <1>1 DEF AcknowledgeBarrierWhenDrained, SameCore, SameSeals, SameView
<1>2. CASE ~stays
  <2> DEFINE q == [r EXCEPT !.drained = TRUE]
             frame == Frame("drained", r.held, 0, NoEnvelope, "")
  <2>1. r \in Client
    BY DEF ClientOK
  <2>2. AcknowledgeBarrierWhenDrained(r) = Send(q, frame)
    BY <1>2 DEF AcknowledgeBarrierWhenDrained
  <2>3. q \in Client /\ SameCore(q, r) /\ SameSeals(q, r) /\ SameView(q, r)
        /\ q.drained /\ q.out = r.out
    BY <2>1 DEF Client, SameCore, SameSeals, SameView
  <2>4. frame \in AnyFrame /\ frame.type = "drained" /\ frame.id = r.held
    BY <2>1 DEF Frame, AnyFrame, FrameTypes, Codes, Client
  <2>5. r.held # 0 /\ r.pending = <<>> /\ ~Encrypting(r)
    BY <1>2
  <2> HIDE DEF q, frame, stays
  <2>6. ClockOK(c, q)
    BY <2>3 DEF ClientOK, ClockOK, Own, Sealed, Spent, SameCore, SameSeals
  <2>7. EditOK(c, q)
    <3>1. Waits(q) = Waits(r)
      BY <2>3 DEF Waits, JobsOf, SameCore, SameSeals
    <3> QED  BY <2>3, <3>1 DEF ClientOK, EditOK, SameCore, SameView
  <2>8. SettledOK(q)
    BY <2>3, <2>5 DEF SettledOK, Encrypting, JobsOf, SameCore, SameSeals
  <2>9. DrainOK(c, q)
    BY <2>3 DEF ClientOK, DrainOK, SameCore
  <2>10. HeldOK(q, in) /\ ReadsOK(q) /\ PostOK(q.post) /\ AwaitOK(q, in)
    BY <2>3 DEF ClientOK, HeldOK, ReadsOK, AwaitOK, SameCore
  <2>11. ClientOK(c, q, in)
    BY <2>3, <2>6, <2>7, <2>8, <2>9, <2>10 DEF ClientOK
  <2>12. frame.id = q.held
    BY <2>3, <2>4 DEF SameCore
  <2>13. /\ ClientOK(c, Send(q, frame), in)
         /\ SameCore(Send(q, frame), q) /\ SameSeals(Send(q, frame), q)
         /\ SameView(Send(q, frame), q)
    BY <2>3, <2>4, <2>11, <2>12, SendKeeps
  <2> QED  BY <2>2, <2>3, <2>13 DEF SameCore, SameSeals, SameView
<1> QED  BY <1>1, <1>2

-----------------------------------------------------------------------------
(* What is sealed *)

\* An envelope is one of the client, with the clock it is given.
LEMMA EnvelopeIs ==
    ASSUME NEW c \in Clients, NEW r \in Client, NEW n \in Nat, NEW edit \in Edits
    PROVE  /\ Envelope(r, c, n, edit) \in SealedText
           /\ Envelope(r, c, n, edit).edit = edit
           /\ Envelope(r, c, n, edit).epoch = <<c, r.rotation>>
           /\ Envelope(r, c, n, edit).clock = r.clock + n
<1> DEFINE k == r.clock + n
           e == <<c, r.rotation>>
<1>1. k \in Nat /\ e \in Epochs /\ r.parent \in Nat
  <2>1. r.clock \in Nat /\ r.rotation \in 0..MaxRotations /\ r.parent \in Nat
    BY DEF Client
  <2>2. Epochs = Clients \X (0..MaxRotations)
    BY ClientConstants DEF ClientConstants
  <2>3. k \in Nat
    BY <2>1
  <2>4. e \in Epochs
    BY <2>1, <2>2
  <2> QED  BY <2>1, <2>3, <2>4
<1> HIDE DEF k, e
<1>2. Envelope(r, c, n, edit) = [edit |-> edit, epoch |-> e, clock |-> k, parent |-> r.parent]
  BY DEF Envelope, k, e
<1>3. Envelope(r, c, n, edit) \in SealedText
  BY <1>1, <1>2 DEF SealedText
<1> QED  BY <1>2, <1>3 DEF k, e

\* Envelopes with clocks of their own, above what the epoch has spent, keep
\* every clock to one text.
LEMMA FreshKeeps ==
    ASSUME NEW c \in Clients, NEW r, NEW q, r \in Client, q \in Client,
           ClockOK(c, r), ~r.stopped, q.rotation = r.rotation, q.clock >= r.clock,
           NEW New \in SUBSET SealedText, Sealed(q) \subseteq Sealed(r) \cup New,
           \A x \in New : x.epoch = <<c, r.rotation>> /\ x.clock > r.clock /\ x.clock <= q.clock,
           \A x, y \in New : x.clock = y.clock => x = y
    PROVE  ClockOK(c, q)
<1>1. \A x \in Own(c, q) : x \in Own(c, r) \/ x \in New
  BY DEF Own
<1>2. r.clock \in Nat /\ q.clock \in Nat /\ r.rotation \in Nat
  BY DEF Client
<1>3. \A x \in Own(c, q) : x \in SealedText /\ x.epoch[1] = c
  BY <1>1 DEF ClockOK
<1>4. \A x \in New : x.clock \in Nat
  BY DEF SealedText
<1>5. ASSUME NEW x \in Own(c, q) PROVE Spent(x, q)
  <2>1. CASE x \in New
    BY <2>1, <1>2, <1>4 DEF Spent
  <2>2. CASE x \in Own(c, r)
    <3>1. Spent(x, r)
      BY <2>2 DEF ClockOK
    <3>2. x.clock \in Nat
      BY <1>3 DEF SealedText
    <3> QED  BY <1>2, <3>1, <3>2 DEF Spent
  <2> QED  BY <1>1, <2>1, <2>2
<1>6. ASSUME NEW x \in Own(c, r), NEW y \in New, x.epoch = y.epoch, x.clock = y.clock
      PROVE  FALSE
  <2>1. Spent(x, r) /\ x.epoch[2] = r.rotation /\ x.clock \in Nat
    BY <1>4, <1>6 DEF ClockOK
  <2> QED  BY <2>1, <1>2, <1>6 DEF Spent
<1>7. ASSUME NEW x \in Own(c, q), NEW y \in Own(c, q), x.epoch = y.epoch, x.clock = y.clock
      PROVE  x = y
  <2>1. CASE x \in Own(c, r) /\ y \in Own(c, r)
    BY <2>1, <1>7 DEF ClockOK
  <2>2. CASE x \in New /\ y \in New
    BY <2>2, <1>7
  <2> QED  BY <1>1, <1>6, <1>7, <2>1, <2>2
<1> QED  BY <1>3, <1>5, <1>7 DEF ClockOK

\* Everything that waits, sealed again: other envelopes of the same texts.
LEMMA SealAgainKeeps ==
    ASSUME NEW c \in Clients, NEW r, NEW in, ClientOK(c, r, in), ~r.stopped
    PROVE  /\ ClientOK(c, SealAgain(r, c), in)
           /\ SameCore(SealAgain(r, c), r) /\ SameView(SealAgain(r, c), r)
           /\ SealAgain(r, c).drained = r.drained
<1> DEFINE n == Len(r.pending)
           f == [i \in DOMAIN r.pending |-> Envelope(r, c, i, r.pending[i].edit)]
           q == [r EXCEPT !.clock = r.clock + n, !.sent = {}, !.pending = f]
<1>1. r \in Client /\ r.pending \in Seq(SealedText) /\ r.clock \in Nat
  BY DEF ClientOK, Client
<1>2. n \in Nat /\ DOMAIN r.pending = 1..n
  BY <1>1
<1>3. \A i \in 1..n : r.pending[i] \in SealedText /\ r.pending[i].edit \in Edits
  <2>1. \A i \in 1..n : r.pending[i] \in SealedText
    BY <1>1
  <2> QED  BY <2>1 DEF SealedText
<1>4. \A i \in 1..n : /\ Envelope(r, c, i, r.pending[i].edit) \in SealedText
                      /\ Envelope(r, c, i, r.pending[i].edit).edit = r.pending[i].edit
                      /\ Envelope(r, c, i, r.pending[i].edit).epoch = <<c, r.rotation>>
                      /\ Envelope(r, c, i, r.pending[i].edit).clock = r.clock + i
  BY <1>1, <1>3, EnvelopeIs
<1>5. f \in [1..n -> SealedText]
  BY <1>2, <1>4
<1>6. /\ f \in Seq(SealedText) /\ DOMAIN f = 1..n
      /\ \A i \in 1..n : f[i].edit = r.pending[i].edit /\ f[i].epoch = <<c, r.rotation>>
                         /\ f[i].clock = r.clock + i /\ f[i] \in SealedText
  BY <1>2, <1>4, <1>5, FunctionIsSeq
<1>7. n = 0 => f = <<>>
  BY <1>2, <1>5, <1>6, FunctionIsSeq
<1>8. SealAgain(r, c) = q
  BY DEF SealAgain
<1> HIDE DEF f, n
<1>9. q \in Client
  <2> DEFINE k == r.clock + n
  <2>1. k \in Nat /\ {} \in SUBSET SealedText
    BY <1>1, <1>2
  <2> HIDE DEF k
  <2>2. [r EXCEPT !.clock = k, !.sent = {}, !.pending = f] \in Client
    BY <1>1, <1>6, <2>1 DEF Client
  <2> QED  BY <2>2 DEF k
<1>10. /\ SameCore(q, r) /\ SameView(q, r) /\ q.drained = r.drained /\ q.out = r.out
       /\ q.clock = r.clock + n /\ q.pending = f
  BY <1>1 DEF Client, SameCore, SameView
<1> HIDE DEF q
<1>11. ClockOK(c, q)
  <2> DEFINE New == {f[i] : i \in 1..n}
  <2>1. Sealed(q) \subseteq Sealed(r) \cup New
    BY <1>6, <1>10 DEF Sealed, ToSet
  <2>2. New \in SUBSET SealedText
    BY <1>6
  <2>3. \A x \in New : x.epoch = <<c, r.rotation>> /\ x.clock > r.clock /\ x.clock <= q.clock
    BY <1>1, <1>2, <1>6, <1>10
  <2>4. \A x, y \in New : x.clock = y.clock => x = y
    BY <1>1, <1>2, <1>6
  <2>5. q.clock >= r.clock /\ q.rotation = r.rotation /\ ClockOK(c, r)
    BY <1>1, <1>2, <1>10 DEF SameCore, ClientOK
  <2> HIDE DEF New
  <2> QED  BY <1>1, <1>9, <2>1, <2>2, <2>3, <2>4, <2>5, FreshKeeps
<1>12. Waits(q) = Waits(r)
  <2>1. {q.pending[i].edit : i \in DOMAIN q.pending} = {r.pending[i].edit : i \in DOMAIN r.pending}
    BY <1>2, <1>6, <1>10
  <2> QED  BY <2>1, <1>10 DEF Waits, JobsOf, SameCore
<1>13. EditOK(c, q)
  BY <1>10, <1>12 DEF ClientOK, EditOK, SameCore, SameView
<1>14. SettledOK(q)
  <2>1. r.pending = <<>> => n = 0
    BY DEF n
  <2> QED  BY <1>7, <1>10, <2>1 DEF ClientOK, SettledOK, Encrypting, JobsOf, SameCore
<1>15. DrainOK(c, q)
  BY <1>10 DEF ClientOK, DrainOK, SameCore
<1>16. HeldOK(q, in) /\ ReadsOK(q) /\ PostOK(q.post) /\ AwaitOK(q, in)
  BY <1>10 DEF ClientOK, HeldOK, ReadsOK, AwaitOK, SameCore
<1>17. ClientOK(c, q, in)
  BY <1>9, <1>11, <1>13, <1>14, <1>15, <1>16 DEF ClientOK
<1> QED  BY <1>8, <1>10, <1>17

\* rebasePending
LEMMA RebaseKeeps ==
    ASSUME NEW c \in Clients, NEW r, NEW in, ClientOK(c, r, in), ~r.stopped
    PROVE  /\ ClientOK(c, RebasePending(r, c), in)
           /\ SameCore(RebasePending(r, c), r) /\ SameView(RebasePending(r, c), r)
           /\ RebasePending(r, c).drained = r.drained
<1> DEFINE q == SealAgain(r, c)
<1>1. ClientOK(c, q, in) /\ SameCore(q, r) /\ SameView(q, r) /\ q.drained = r.drained
  BY SealAgainKeeps
<1>2. RebasePending(r, c) = Flush(q)
  BY DEF RebasePending
<1> HIDE DEF q
<1>3. /\ ClientOK(c, Flush(q), in) /\ SameCore(Flush(q), q) /\ SameView(Flush(q), q)
      /\ Flush(q).drained = q.drained
  BY <1>1, FlushKeeps
<1> QED  BY <1>1, <1>2, <1>3 DEF SameCore, SameView

-----------------------------------------------------------------------------
(* The barrier of a client *)

\* No barrier is numbered 0, and nobody has drained for a barrier that is gone.
LEMMA NothingIsLiveAtZero ==
    ASSUME Core
    PROVE  ~Live(0) /\ \A p \in barrier.drained : Live(barrier.id) /\ p \in Connections
  BY CoordinatorConstants
  DEF CoordinatorConstants, Core, GoodBarrier, Live, Open, BarrierIds, NoBarrier, Barrier

\* A barrier is begun: nobody counts on the client yet.
Begun(r, id, intention) ==
    [r EXCEPT !.held = id, !.intention = intention, !.drained = FALSE, !.mirror = r.doc]

\* A round begins for the client.
LEMMA BegunKeeps ==
    ASSUME Core, NEW c, NEW r, NEW in, ClientOK(c, r, in), ~r.busy, r.held = 0,
           NEW id \in Nat, id <= issued, NEW intention \in Codes,
           \A k \in DOMAIN in : in[k].type = "authenticated" /\ Live(id) => in[k].id = id
    PROVE  ClientOK(c, Begun(r, id, intention), in)
<1> DEFINE q == Begun(r, id, intention)
<1>1. r \in Client
  BY DEF ClientOK
<1>2. q \in Client
  BY <1>1, ZenonT(60) DEF Begun, Client
<1>3. /\ q.link = r.link /\ q.stopped = r.stopped /\ q.made = r.made /\ q.rotation = r.rotation
      /\ q.jobs = r.jobs /\ q.busy = r.busy /\ q.post = r.post /\ q.paused = r.paused
      /\ q.clock = r.clock /\ q.pending = r.pending /\ q.doc = r.doc /\ q.out = r.out
      /\ q.held = id /\ ~q.drained
  BY <1>1 DEF Begun, Client
<1> HIDE DEF q
<1>4. ClockOK(c, q)
  BY <1>3 DEF ClientOK, ClockOK, Own, Sealed, Spent
<1>5. EditOK(c, q)
  <2>1. Waits(q) = Waits(r)
    BY <1>3 DEF Waits, JobsOf
  <2> QED  BY <1>3, <2>1 DEF ClientOK, EditOK
<1>6. SettledOK(q)
  BY <1>3 DEF SettledOK
<1>7. ~r.drained /\ ~Live(r.held)
  BY NothingIsLiveAtZero DEF ClientOK, SettledOK
<1>8. DrainOK(c, q)
  BY <1>3, <1>7 DEF ClientOK, DrainOK
<1>9. HeldOK(q, in) /\ ReadsOK(q) /\ PostOK(q.post) /\ AwaitOK(q, in)
  BY <1>3 DEF ClientOK, HeldOK, ReadsOK, AwaitOK
<1> QED  BY <1>2, <1>4, <1>5, <1>6, <1>8, <1>9 DEF ClientOK, q

\* startCompactionBarrier
LEMMA StartKeeps ==
    ASSUME Core, NEW c, NEW r, NEW in, ClientOK(c, r, in), ~r.busy,
           NEW id \in Nat, id <= issued, NEW intention \in Codes,
           \A k \in DOMAIN in : in[k].type = "authenticated" /\ Live(id) => in[k].id = id
    PROVE  ClientOK(c, StartBarrier(r, id, intention), in)
<1> DEFINE q == Begun(r, id, intention)
<1>1. CASE r.held # 0
  BY <1>1 DEF StartBarrier
<1>2. CASE r.held = 0
  <2>1. ClientOK(c, q, in)
    BY <1>2, BegunKeeps
  <2>2. ClientOK(c, AcknowledgeBarrierWhenDrained(q), in)
    BY <2>1, AcknowledgeKeeps
  <2>3. StartBarrier(r, id, intention) = q \/ StartBarrier(r, id, intention) = AcknowledgeBarrierWhenDrained(q)
    BY <1>2 DEF StartBarrier, Begun
  <2> QED  BY <2>1, <2>2, <2>3
<1> QED  BY <1>1, <1>2

\* The jobs that encrypt what was typed under the barrier.
LEMMA PausedJobs ==
    ASSUME NEW r \in Client
    PROVE  LET f == [i \in DOMAIN r.paused |-> Job("encrypt", r.paused[i], FALSE)]
           IN /\ f \in Seq(AnyJob) /\ Len(f) = Len(r.paused)
              /\ \A i \in DOMAIN f : /\ i \in DOMAIN r.paused
                                     /\ f[i].kind = "encrypt" /\ f[i].edit = r.paused[i]
                                     /\ ~f[i].awaited /\ f[i].stage = "queued"
              /\ DOMAIN f = DOMAIN r.paused
<1> DEFINE f == [i \in DOMAIN r.paused |-> Job("encrypt", r.paused[i], FALSE)]
<1>1. r.paused \in Seq(Edits) /\ DOMAIN r.paused = 1..Len(r.paused) /\ Len(r.paused) \in Nat
  BY DEF Client
<1>2. \A i \in DOMAIN r.paused : r.paused[i] \in Edits
  BY <1>1
<1>3. \A e \in Edits : Job("encrypt", e, FALSE) \in AnyJob
  BY DEF Job, AnyJob, NoRead, Copy
<1>4. f \in [1..Len(r.paused) -> AnyJob]
  BY <1>1, <1>2, <1>3
<1>5. f \in Seq(AnyJob) /\ Len(f) = Len(r.paused)
  BY <1>1, <1>4, FunctionIsSeq, ZenonT(60)
<1>6. \A i \in DOMAIN f : /\ i \in DOMAIN r.paused
                          /\ f[i].kind = "encrypt" /\ f[i].edit = r.paused[i]
                          /\ ~f[i].awaited /\ f[i].stage = "queued"
  BY DEF Job
<1> QED  BY <1>5, <1>6

\* No handler waits for a job of the client.
NoneAwaited(r) == \A i \in DOMAIN r.jobs : ~r.jobs[i].awaited

\* releaseCompactionBarrier: what was typed under the barrier is encrypted, and
\* nobody counts on the drain any more.
Unbarred(r, jobs) ==
    [r EXCEPT !.paused = <<>>, !.held = 0, !.intention = "compaction", !.drained = FALSE,
              !.mirror = {}, !.compacting = FALSE, !.trigger = 0, !.jobs = jobs]

\* A client that no longer holds a barrier has its paused text as jobs.
LEMMA UnbarredKeeps ==
    ASSUME Core, NEW c, NEW r, NEW in, ClientOK(c, r, in), ~Live(r.held), ~r.stopped,
           r.busy => Head(in).type # "ready", NEW jobs \in Seq(AnyJob),
           \/ jobs = r.jobs /\ r.paused = <<>>
           \/ jobs = r.jobs \o [i \in DOMAIN r.paused |-> Job("encrypt", r.paused[i], FALSE)]
    PROVE  /\ ClientOK(c, Unbarred(r, jobs), in)
           /\ Unbarred(r, jobs).post = r.post /\ Unbarred(r, jobs).busy = r.busy
           /\ (NoneAwaited(r) => NoneAwaited(Unbarred(r, jobs)))
<1> DEFINE q == Unbarred(r, jobs)
           f == [i \in DOMAIN r.paused |-> Job("encrypt", r.paused[i], FALSE)]
<1>1. r \in Client /\ r.jobs \in Seq(AnyJob)
  BY DEF ClientOK, Client
<1>2. q \in Client
  <2>1. <<>> \in Seq(Edits) /\ {} \in SUBSET Edits /\ "compaction" \in Codes
    BY EmptySeq DEF Codes, Intentions
  <2> QED  BY <1>1, <2>1 DEF Unbarred, Client
<1>3. /\ q.link = r.link /\ q.stopped = r.stopped /\ q.made = r.made /\ q.rotation = r.rotation
      /\ q.busy = r.busy /\ q.post = r.post /\ q.jobs = jobs
      /\ q.clock = r.clock /\ q.pending = r.pending /\ q.doc = r.doc /\ q.out = r.out
      /\ q.held = 0 /\ ~q.drained /\ q.paused = <<>>
  BY <1>1 DEF Unbarred, Client
<1>4. /\ f \in Seq(AnyJob)
      /\ \A i \in DOMAIN f : /\ i \in DOMAIN r.paused
                             /\ f[i].kind = "encrypt" /\ f[i].edit = r.paused[i]
                             /\ ~f[i].awaited /\ f[i].stage = "queued"
      /\ DOMAIN f = DOMAIN r.paused
  BY <1>1, PausedJobs
<1> HIDE DEF q
<1>5. /\ \A i \in DOMAIN jobs : \/ i \in DOMAIN r.jobs /\ jobs[i] = r.jobs[i]
                                \/ /\ jobs[i].kind = "encrypt" /\ ~jobs[i].awaited
                                   /\ jobs[i].stage = "queued"
      /\ \A i \in DOMAIN r.jobs : i \in DOMAIN jobs /\ jobs[i] = r.jobs[i]
      /\ \A k \in DOMAIN r.paused : \E i \in DOMAIN jobs :
            jobs[i].kind = "encrypt" /\ jobs[i].edit = r.paused[k]
  <2>1. CASE jobs = r.jobs /\ r.paused = <<>>
    BY <2>1
  <2>2. CASE jobs = r.jobs \o f
    <3> HIDE DEF f
    <3>1. /\ Len(r.jobs) \in Nat /\ Len(f) \in Nat
          /\ DOMAIN r.jobs = 1..Len(r.jobs) /\ DOMAIN f = 1..Len(f)
          /\ DOMAIN jobs = 1..(Len(r.jobs) + Len(f))
          /\ \A i \in 1..Len(r.jobs) : jobs[i] = r.jobs[i]
          /\ \A i \in 1..Len(f) : jobs[Len(r.jobs) + i] = f[i]
          /\ \A i \in 1..(Len(r.jobs) + Len(f)) : i \notin 1..Len(r.jobs) =>
                i - Len(r.jobs) \in 1..Len(f) /\ jobs[i] = f[i - Len(r.jobs)]
      BY <1>1, <1>4, <2>2, ConcatHas
    <3>2. ASSUME NEW k \in DOMAIN r.paused
          PROVE  \E i \in DOMAIN jobs : jobs[i].kind = "encrypt" /\ jobs[i].edit = r.paused[k]
      <4>1. Len(r.jobs) + k \in DOMAIN jobs /\ jobs[Len(r.jobs) + k] = f[k] /\ k \in DOMAIN f
        BY <1>4, <3>1
      <4> QED  BY <1>4, <4>1
    <3>3. ASSUME NEW i \in DOMAIN jobs
          PROVE  \/ i \in DOMAIN r.jobs /\ jobs[i] = r.jobs[i]
                 \/ /\ jobs[i].kind = "encrypt" /\ ~jobs[i].awaited
                    /\ jobs[i].stage = "queued"
      <4>1. CASE i \in 1..Len(r.jobs)
        BY <3>1, <4>1
      <4>2. CASE i \notin 1..Len(r.jobs)
        <5> DEFINE k == i - Len(r.jobs)
        <5>1. k \in DOMAIN f /\ jobs[i] = f[k]
          BY <3>1, <4>2
        <5> HIDE DEF k
        <5> QED  BY <1>4, <5>1
      <4> QED  BY <4>1, <4>2
    <3>4. \A i \in DOMAIN r.jobs : i \in DOMAIN jobs /\ jobs[i] = r.jobs[i]
      BY <3>1
    <3> QED  BY <3>2, <3>3, <3>4
  <2> QED  BY <2>1, <2>2
<1> HIDE DEF f
<1>6. ClockOK(c, q)
  BY <1>3 DEF ClientOK, ClockOK, Own, Sealed, Spent
<1>7. Waits(r) \subseteq Waits(q)
  BY <1>3, <1>5 DEF Waits, JobsOf
<1>8. EditOK(c, q)
  BY <1>3, <1>7 DEF ClientOK, EditOK
<1>9. SettledOK(q)
  BY <1>3 DEF SettledOK
<1>10. DrainOK(c, q)
  <2>1. r.link \notin barrier.drained
    BY NothingIsLiveAtZero DEF ClientOK, DrainOK
  <2>2. issued \in Nat
    BY DEF Core, CoreTypeOK
  <2> QED  BY <1>3, <2>1, <2>2 DEF ClientOK, DrainOK
<1>11. HeldOK(q, in)
  BY <1>3, NothingIsLiveAtZero DEF ClientOK, HeldOK
<1>12. ReadsOK(q) /\ PostOK(q.post)
  BY <1>3, <1>5 DEF ClientOK, ReadsOK
<1>13. AwaitOK(q, in)
  BY <1>3, <1>5 DEF ClientOK, AwaitOK
<1>14. NoneAwaited(r) => NoneAwaited(q)
  BY <1>3, <1>5 DEF NoneAwaited
<1> QED  BY <1>2, <1>3, <1>6, <1>8, <1>9, <1>10, <1>11, <1>12, <1>13, <1>14 DEF ClientOK, q

\* releaseCompactionBarrier keeps the invariant once the round is over.
LEMMA ReleaseKeeps ==
    ASSUME Core, NEW c, NEW r, NEW in, ClientOK(c, r, in), ~Live(r.held), ~r.stopped,
           r.busy => Head(in).type # "ready"
    PROVE  /\ ClientOK(c, ReleaseBarrier(r), in)
           /\ ReleaseBarrier(r).post = r.post /\ ReleaseBarrier(r).busy = r.busy
           /\ (NoneAwaited(r) => NoneAwaited(ReleaseBarrier(r)))
<1>1. r \in Client /\ r.jobs \in Seq(AnyJob) /\ r.paused \in Seq(Edits)
  BY DEF ClientOK, Client
<1>2. CASE r.paused = <<>>
  <2> DEFINE q == Unbarred(r, r.jobs)
  <2>1. ClientOK(c, q, in) /\ q.post = r.post /\ q.busy = r.busy
        /\ (NoneAwaited(r) => NoneAwaited(q))
    BY <1>1, <1>2, UnbarredKeeps
  <2>2. ReleaseBarrier(r) = Flush(q)
    <3>1. [r EXCEPT !.paused = <<>>, !.held = 0, !.intention = "compaction",
                    !.drained = FALSE, !.mirror = {}, !.compacting = FALSE, !.trigger = 0] = q
      BY <1>1 DEF Unbarred, Client
    <3> QED  BY <1>2, <3>1 DEF ReleaseBarrier
  <2> HIDE DEF q
  <2> QED  BY <2>1, <2>2, FlushKeeps DEF SameCore, NoneAwaited
<1>3. CASE r.paused # <<>>
  <2> DEFINE f == [i \in DOMAIN r.paused |-> Job("encrypt", r.paused[i], FALSE)]
             jobs == r.jobs \o f
  <2>1. jobs \in Seq(AnyJob)
    BY <1>1, PausedJobs, ConcatHas
  <2>2. ReleaseBarrier(r) = Unbarred(r, jobs)
    BY <1>1, <1>3 DEF ReleaseBarrier, Unbarred, Client
  <2>3. ClientOK(c, Unbarred(r, jobs), in)
    BY <2>1, UnbarredKeeps
  <2>4. Unbarred(r, jobs).post = r.post /\ Unbarred(r, jobs).busy = r.busy
        /\ (NoneAwaited(r) => NoneAwaited(Unbarred(r, jobs)))
    BY <2>1, UnbarredKeeps
  <2> QED  BY <2>2, <2>3, <2>4
<1> QED  BY <1>2, <1>3

-----------------------------------------------------------------------------
(* The link, the inbox and the jobs *)

\* Asking for a compaction keeps the invariant.
LEMMA RequestKeeps ==
    ASSUME NEW c, NEW r, NEW in, ClientOK(c, r, in), NEW sequence \in Nat
    PROVE  ClientOK(c, RequestCompaction(r, sequence), in) /\ RequestCompaction(r, sequence).busy = r.busy
<1> DEFINE q == [r EXCEPT !.compacting = TRUE, !.trigger = sequence]
           frame == Frame("request", 0, sequence, NoEnvelope, "")
<1>1. r \in Client
  BY DEF ClientOK
<1>2. q \in Client /\ SameCore(q, r) /\ SameSeals(q, r) /\ q.doc = r.doc
      /\ q.drained = r.drained /\ q.out = r.out
  BY <1>1 DEF Client, SameCore, SameSeals
<1>3. frame \in AnyFrame /\ frame.type = "request"
  BY DEF Frame, AnyFrame, FrameTypes, Codes
<1>4. RequestCompaction(r, sequence) = Send(q, frame)
  BY DEF RequestCompaction
<1> HIDE DEF q, frame
<1>5. ClientOK(c, q, in)
  BY <1>2, SameCoreKeeps
<1>6. ClientOK(c, Send(q, frame), in) /\ SameCore(Send(q, frame), q)
  BY <1>3, <1>5, SendKeeps
<1> QED  BY <1>2, <1>4, <1>6 DEF SameCore

\* A socket that is gone takes the drains with it that were sent on it.
LEMMA ClosedKeeps ==
    ASSUME Core, NEW c, NEW r, NEW in, ClientOK(c, r, in)
    PROVE  ClientOK(c, Closed(r), in) /\ SameSeals(Closed(r), r)
           /\ Closed(r).jobs = r.jobs /\ Closed(r).post = r.post /\ Closed(r).busy = r.busy
           /\ Closed(r).stopped = r.stopped
<1> DEFINE q == Closed(r)
<1>1. r \in Client
  BY DEF ClientOK
<1>2. q \in Client
  <2>1. {} \in SUBSET SealedText
    OBVIOUS
  <2> QED  BY <1>1, <2>1 DEF Closed, Client
<1>3. /\ q.link = NoLink /\ q.stopped = r.stopped /\ q.made = r.made /\ q.rotation = r.rotation
      /\ q.jobs = r.jobs /\ q.busy = r.busy /\ q.post = r.post /\ q.paused = r.paused
      /\ q.held = r.held /\ q.drained = r.drained /\ q.clock = r.clock
      /\ q.pending = r.pending /\ q.doc = r.doc /\ q.out = r.out
  BY <1>1 DEF Closed, Client
<1> HIDE DEF q
<1>4. ClockOK(c, q)
  BY <1>3 DEF ClientOK, ClockOK, Own, Sealed, Spent
<1>5. EditOK(c, q)
  <2>1. Waits(q) = Waits(r)
    BY <1>3 DEF Waits, JobsOf
  <2> QED  BY <1>3, <2>1 DEF ClientOK, EditOK
<1>6. SettledOK(q)
  BY <1>3 DEF ClientOK, SettledOK, Encrypting, JobsOf
<1>7. DrainOK(c, q)
  <2>1. NoLink \notin barrier.drained
    BY NoLinkIsNoConnection, NothingIsLiveAtZero
  <2>2. \A i \in DOMAIN r.out : r.out[i].link # NoLink
    <3>1. r.out \in Seq(Sending)
      BY <1>1 DEF Client
    <3>2. \A i \in DOMAIN r.out : r.out[i] \in Sending
      BY <3>1
    <3> QED  BY <3>2, NoLinkIsNoConnection DEF Sending
  <2> QED  BY <1>3, <2>1, <2>2 DEF ClientOK, DrainOK
<1>8. HeldOK(q, in) /\ ReadsOK(q) /\ PostOK(q.post) /\ AwaitOK(q, in)
  BY <1>3 DEF ClientOK, HeldOK, ReadsOK, AwaitOK
<1> QED  BY <1>2, <1>3, <1>4, <1>5, <1>6, <1>7, <1>8 DEF ClientOK, q, SameSeals

\* The frame at the head has been handled.
LEMMA PopKeeps ==
    ASSUME NEW c, NEW r, NEW in, ClientOK(c, r, in), ~r.busy, in # <<>>
    PROVE  ClientOK(c, r, Tail(in))
<1>1. in \in Seq(AnyFrame)
  BY DEF ClientOK
<1>2. /\ Tail(in) \in Seq(AnyFrame) /\ Len(in) \in Nat \ {0} /\ DOMAIN in = 1..Len(in)
      /\ DOMAIN Tail(in) = 1..(Len(in) - 1)
      /\ \A i \in 1..(Len(in) - 1) : Tail(in)[i] = in[i + 1]
  BY <1>1, TailHas
<1> DEFINE rest == Tail(in)
<1> HIDE DEF rest
<1>3. InboxOK(rest)
  <2>1. ASSUME NEW k \in DOMAIN rest
        PROVE  /\ rest[k].type = "acknowledged" => rest[k].envelope.edit \in Logged
               /\ rest[k].type \in {"barrier", "released", "ready"} => rest[k].id <= issued
               /\ rest[k].type = "released" => ~Live(rest[k].id) /\ rest[k].code \in Outcomes \ {"none"}
    <3>1. k + 1 \in DOMAIN in /\ rest[k] = in[k + 1]
      BY <1>2 DEF rest
    <3> QED  BY <3>1 DEF ClientOK, InboxOK
  <2>2. ASSUME NEW k \in DOMAIN rest, NEW l \in 1..(k - 1), rest[k].type = "authenticated",
               rest[l].type = "barrier", Live(rest[l].id)
        PROVE  rest[l].id = rest[k].id
    <3>1. k + 1 \in DOMAIN in /\ rest[k] = in[k + 1] /\ rest[l] = in[l + 1] /\ l + 1 \in 1..((k + 1) - 1)
      BY <1>2 DEF rest
    <3> QED  BY <2>2, <3>1 DEF ClientOK, InboxOK
  <2> QED  BY <2>1, <2>2 DEF InboxOK
<1>4. HeldOK(r, rest)
  <2>1. \A k \in DOMAIN rest : k + 1 \in DOMAIN in /\ rest[k] = in[k + 1]
    BY <1>2 DEF rest
  <2> QED  BY <2>1 DEF ClientOK, HeldOK
<1>5. AwaitOK(r, rest)
  BY DEF ClientOK, AwaitOK
<1> QED  BY <1>2, <1>3, <1>4, <1>5 DEF ClientOK, rest

\* The last frames never arrive.
LEMMA PrefixKeeps ==
    ASSUME NEW c, NEW r, NEW in, ClientOK(c, r, in), NEW n \in 0..Len(in), r.busy => n >= 1
    PROVE  ClientOK(c, r, SubSeq(in, 1, n))
<1> DEFINE part == SubSeq(in, 1, n)
<1>1. in \in Seq(AnyFrame)
  BY DEF ClientOK
<1>2. /\ part \in Seq(AnyFrame) /\ Len(in) \in Nat /\ DOMAIN in = 1..Len(in)
      /\ DOMAIN part = 1..n /\ \A i \in 1..n : part[i] = in[i]
  BY <1>1, PrefixHas
<1> HIDE DEF part
<1>3. r.busy => Head(part) = Head(in) /\ part # <<>>
  <2> SUFFICES ASSUME r.busy PROVE Head(part) = Head(in) /\ part # <<>>
    OBVIOUS
  <2>1. n >= 1 /\ in # <<>> /\ part # <<>>
    BY <1>2
  <2> QED  BY <1>1, <1>2, <2>1, TailHas
<1>4. InboxOK(part)
  BY <1>2 DEF ClientOK, InboxOK
<1>5. HeldOK(r, part)
  BY <1>2, <1>3 DEF ClientOK, HeldOK
<1>6. AwaitOK(r, part)
  BY <1>3 DEF ClientOK, AwaitOK
<1> QED  BY <1>2, <1>4, <1>5, <1>6 DEF ClientOK, part


\* The handler of the head frame ends.
LEMMA FinishedKeeps ==
    ASSUME NEW c, NEW r, NEW in, ClientOK(c, r, in), NoneAwaited(r), in # <<>>,
           r.post.step = "none"
    PROVE  ClientOK(c, [r EXCEPT !.busy = FALSE], Tail(in))
<1> DEFINE q == [r EXCEPT !.busy = FALSE]
<1>1. r \in Client
  BY DEF ClientOK
<1>2. q \in Client
  BY <1>1 DEF Client
<1>3. /\ q.link = r.link /\ q.stopped = r.stopped /\ q.made = r.made /\ q.rotation = r.rotation
      /\ q.jobs = r.jobs /\ ~q.busy /\ q.post = r.post /\ q.paused = r.paused
      /\ q.held = r.held /\ q.drained = r.drained /\ q.clock = r.clock
      /\ q.pending = r.pending /\ q.doc = r.doc /\ q.out = r.out
  BY <1>1 DEF Client
<1> HIDE DEF q
<1>4. ClockOK(c, q)
  BY <1>3 DEF ClientOK, ClockOK, Own, Sealed, Spent
<1>5. EditOK(c, q)
  <2>1. Waits(q) = Waits(r)
    BY <1>3 DEF Waits, JobsOf
  <2> QED  BY <1>3, <2>1 DEF ClientOK, EditOK
<1>6. SettledOK(q)
  BY <1>3 DEF ClientOK, SettledOK, Encrypting, JobsOf
<1>7. DrainOK(c, q)
  BY <1>3 DEF ClientOK, DrainOK
<1>8. HeldOK(q, in) /\ ReadsOK(q) /\ PostOK(q.post)
  BY <1>3 DEF ClientOK, HeldOK, ReadsOK
<1>9. AwaitOK(q, in)
  BY <1>3 DEF ClientOK, AwaitOK, NoneAwaited
<1>10. ClientOK(c, q, in)
  BY <1>2, <1>4, <1>5, <1>6, <1>7, <1>8, <1>9 DEF ClientOK
<1>11. ClientOK(c, q, Tail(in))
  BY <1>3, <1>10, PopKeeps
<1> QED  BY <1>11 DEF q

\* A synchronization or a recovery leaves the queue.  The copy of the document
\* may be another one, the epoch a fresh one.
LEMMA DequeuedKeeps ==
    ASSUME NEW c, NEW r, NEW in, ClientOK(c, r, in), ~r.stopped, r.jobs # <<>>,
           Head(r.jobs).kind # "encrypt", NEW q \in Client, q.jobs = Tail(r.jobs),
           q.link = r.link, q.stopped = r.stopped, q.made = r.made, q.busy = r.busy,
           q.post = r.post, q.paused = r.paused, q.held = r.held, q.drained = r.drained,
           q.pending = r.pending, q.out = r.out, r.doc \subseteq q.doc,
           q.rotation > r.rotation \/ (q.rotation = r.rotation /\ q.clock = r.clock)
    PROVE  ClientOK(c, q, in) /\ (Head(r.jobs).awaited => NoneAwaited(q))
<1>1. r \in Client /\ r.jobs \in Seq(AnyJob)
  BY DEF ClientOK, Client
<1>2. /\ DOMAIN r.jobs = 1..Len(r.jobs) /\ Len(r.jobs) \in Nat \ {0}
      /\ DOMAIN q.jobs = 1..(Len(r.jobs) - 1)
      /\ \A i \in 1..(Len(r.jobs) - 1) : q.jobs[i] = r.jobs[i + 1]
      /\ Head(r.jobs) = r.jobs[1]
  BY <1>1, TailHas
<1>3. \A i \in DOMAIN q.jobs : i + 1 \in DOMAIN r.jobs /\ q.jobs[i] = r.jobs[i + 1]
  BY <1>2
<1>4. \A i \in DOMAIN r.jobs : r.jobs[i].kind = "encrypt" => i - 1 \in DOMAIN q.jobs
                                                           /\ q.jobs[i - 1] = r.jobs[i]
  <2> SUFFICES ASSUME NEW i \in DOMAIN r.jobs, r.jobs[i].kind = "encrypt"
               PROVE  i - 1 \in DOMAIN q.jobs /\ q.jobs[i - 1] = r.jobs[i]
    OBVIOUS
  <2>1. i # 1
    BY <1>2
  <2>2. i - 1 \in 1..(Len(r.jobs) - 1) /\ (i - 1) + 1 = i
    BY <1>2, <2>1
  <2> QED  BY <1>2, <2>2
<1>5. ClockOK(c, q)
  <2>1. q.rotation \in Nat /\ r.rotation \in Nat /\ q.clock \in Nat /\ r.clock \in Nat
    BY <1>1 DEF Client
  <2>2. Own(c, q) = Own(c, r)
    BY DEF Own, Sealed
  <2>3. \A x \in Own(c, r) : Spent(x, r) => Spent(x, q)
    <3> SUFFICES ASSUME NEW x \in Own(c, r), Spent(x, r) PROVE Spent(x, q)
      OBVIOUS
    <3>1. x.epoch \in Epochs
      BY DEF ClientOK, ClockOK, SealedText
    <3>2. x.epoch[2] \in Nat
      BY <3>1, ClientConstants DEF ClientConstants
    <3> QED  BY <2>1, <3>2 DEF Spent
  <2> QED  BY <2>2, <2>3 DEF ClientOK, ClockOK
<1>6. EditOK(c, q)
  <2>1. Waits(r) \subseteq Waits(q)
    <3>1. ASSUME NEW i \in JobsOf(r, "encrypt") PROVE r.jobs[i].edit \in Waits(q)
      <4>1. i - 1 \in JobsOf(q, "encrypt") /\ q.jobs[i - 1].edit = r.jobs[i].edit
        BY <1>4 DEF JobsOf
      <4> QED  BY <4>1 DEF Waits
    <3> QED  BY <3>1 DEF Waits
  <2> QED  BY <2>1 DEF ClientOK, EditOK
<1>7. SettledOK(q)
  <2>1. Encrypting(q) => Encrypting(r)
    BY <1>3 DEF Encrypting, JobsOf
  <2> QED  BY <2>1 DEF ClientOK, SettledOK
<1>8. DrainOK(c, q) /\ HeldOK(q, in) /\ PostOK(q.post)
  BY DEF ClientOK, DrainOK, HeldOK
<1>9. ReadsOK(q)
  BY <1>3 DEF ClientOK, ReadsOK
<1>10. AwaitOK(q, in)
  <2>1. \A i, j \in DOMAIN q.jobs : q.jobs[i].awaited /\ q.jobs[j].awaited => i = j
    <3> SUFFICES ASSUME NEW i \in DOMAIN q.jobs, NEW j \in DOMAIN q.jobs,
                        q.jobs[i].awaited, q.jobs[j].awaited
                 PROVE  i = j
      OBVIOUS
    <3>1. i + 1 = j + 1
      BY <1>3 DEF ClientOK, AwaitOK
    <3> QED  BY <1>2, <3>1
  <2> QED  BY <1>3, <2>1 DEF ClientOK, AwaitOK
<1>11. ASSUME Head(r.jobs).awaited PROVE NoneAwaited(q)
  <2> SUFFICES ASSUME NEW i \in DOMAIN q.jobs, q.jobs[i].awaited PROVE FALSE
    BY DEF NoneAwaited
  <2>1. i + 1 \in DOMAIN r.jobs /\ r.jobs[i + 1].awaited /\ r.jobs[1].awaited /\ 1 \in DOMAIN r.jobs
    BY <1>2, <1>3, <1>11
  <2>2. i + 1 = 1
    BY <2>1 DEF ClientOK, AwaitOK
  <2> QED  BY <1>2, <2>2
<1> QED  BY <1>5, <1>6, <1>7, <1>8, <1>9, <1>10, <1>11 DEF ClientOK

\* What synchronize and the recovery have read may be a copy that was stored once.
ReadCopy(r) == [sequence |-> r.sequence, parent |-> r.parent, content |-> r.mirror]

\* synchronize: who holds a barrier now has a copy of the stored document.
LEMMA SynchronizeKeeps ==
    ASSUME NEW c \in Clients, NEW r, NEW in, ClientOK(c, r, in), ~r.stopped, r.jobs # <<>>,
           Head(r.jobs).kind = "sync", Head(r.jobs).stage = "read"
    PROVE  LET q == Synchronize(r, c, Head(r.jobs).read)
           IN /\ ClientOK(c, q, in) /\ (Head(r.jobs).awaited => NoneAwaited(q))
              /\ q.post = r.post /\ q.stopped = r.stopped /\ q.busy = r.busy
              /\ q.held # 0 => CopyOK(ReadCopy(q))
<1> DEFINE read == Head(r.jobs).read
           mirror == IF r.held # 0 THEN read.content ELSE {}
           m == [Merge(r, read) EXCEPT !.jobs = Tail(@), !.mirror = mirror]
           b == RebasePending(m, c)
           q == Synchronize(r, c, read)
<1>1. r \in Client /\ r.jobs \in Seq(AnyJob)
  BY DEF ClientOK, Client
<1>2. Head(r.jobs) \in AnyJob /\ Tail(r.jobs) \in Seq(AnyJob) /\ 1 \in DOMAIN r.jobs
      /\ Head(r.jobs) = r.jobs[1]
  BY <1>1, TailHas
<1>3. read \in Copy /\ CopyOK(read)
  BY <1>2 DEF AnyJob, ClientOK, ReadsOK
<1>4. read.sequence \in Nat /\ read.parent \in Nat /\ read.content \in SUBSET Edits
      /\ mirror \in SUBSET Edits
  BY <1>3 DEF Copy
<1>5. q = AcknowledgeBarrierWhenDrained(m) \/ q = AcknowledgeBarrierWhenDrained(b)
  BY DEF Synchronize
<1> HIDE DEF read, mirror
<1>6. m \in Client
  <2>1. r.doc \cup read.content \in SUBSET Edits
    BY <1>1, <1>4 DEF Client
  <2> QED  BY <1>1, <1>2, <1>4, <2>1 DEF Merge, Client
<1>7. /\ m.jobs = Tail(r.jobs) /\ m.link = r.link /\ m.stopped = r.stopped /\ m.made = r.made
      /\ m.busy = r.busy /\ m.post = r.post /\ m.paused = r.paused /\ m.held = r.held
      /\ m.drained = r.drained /\ m.pending = r.pending /\ m.out = r.out
      /\ r.doc \subseteq m.doc /\ m.rotation = r.rotation /\ m.clock = r.clock
      /\ m.sequence = read.sequence /\ m.parent = read.parent /\ m.mirror = mirror
  BY <1>1 DEF Merge, Client
<1> HIDE DEF m, b
<1>8. ClientOK(c, m, in) /\ (Head(r.jobs).awaited => NoneAwaited(m))
  BY <1>6, <1>7, DequeuedKeeps
<1>9. ClientOK(c, b, in) /\ SameCore(b, m) /\ SameView(b, m)
  BY <1>7, <1>8, RebaseKeeps DEF b
<1>10. /\ ClientOK(c, AcknowledgeBarrierWhenDrained(m), in)
       /\ SameCore(AcknowledgeBarrierWhenDrained(m), m)
       /\ SameView(AcknowledgeBarrierWhenDrained(m), m)
       /\ ClientOK(c, AcknowledgeBarrierWhenDrained(b), in)
       /\ SameCore(AcknowledgeBarrierWhenDrained(b), b)
       /\ SameView(AcknowledgeBarrierWhenDrained(b), b)
  BY <1>8, <1>9, AcknowledgeKeeps
<1>11. ClientOK(c, q, in) /\ SameCore(q, m) /\ SameView(q, m)
  BY <1>5, <1>9, <1>10 DEF SameCore, SameView
<1> HIDE DEF q
<1>12. Head(r.jobs).awaited => NoneAwaited(q)
  BY <1>8, <1>11 DEF NoneAwaited, SameCore
<1>13. q.held # 0 => CopyOK(ReadCopy(q))
  BY <1>3, <1>7, <1>11 DEF SameCore, SameView, CopyOK, ReadCopy, mirror
<1>14. q.post = r.post /\ q.stopped = r.stopped /\ q.busy = r.busy
  BY <1>7, <1>11 DEF SameCore
<1> QED  BY <1>11, <1>12, <1>13, <1>14 DEF q, read

\* recoverPendingWithFreshEpoch: what waits is sealed again in a fresh epoch.
LEMMA RecoverKeeps ==
    ASSUME NEW c \in Clients, NEW r, NEW in, ClientOK(c, r, in), ~r.stopped, r.jobs # <<>>,
           Head(r.jobs).kind = "recover", Head(r.jobs).stage = "read", r.rotation < MaxRotations
    PROVE  LET q == Recover(r, c, Head(r.jobs).read)
           IN /\ ClientOK(c, q, in) /\ (Head(r.jobs).awaited => NoneAwaited(q))
              /\ q.post = r.post /\ q.stopped = r.stopped /\ q.busy = r.busy
<1> DEFINE read == Head(r.jobs).read
           k == r.rotation + 1
           m == [Merge(r, read) EXCEPT !.jobs = Tail(@), !.rotation = k, !.clock = 0]
           q == Recover(r, c, read)
<1>1. r \in Client /\ r.jobs \in Seq(AnyJob) /\ r.rotation \in 0..MaxRotations
  BY DEF ClientOK, Client
<1>2. Head(r.jobs) \in AnyJob /\ Tail(r.jobs) \in Seq(AnyJob)
  BY <1>1, TailHas
<1>3. read \in Copy
  BY <1>2 DEF AnyJob
<1>4. read.sequence \in Nat /\ read.parent \in Nat /\ read.content \in SUBSET Edits
  BY <1>3 DEF Copy
<1>5. q = RebasePending([Merge(r, read) EXCEPT !.jobs = Tail(@), !.rotation = @ + 1, !.clock = 0], c)
  BY DEF Recover
<1>6. Merge(r, read).rotation = r.rotation
  BY <1>1 DEF Merge, Client
<1>7. q = RebasePending(m, c)
  BY <1>5, <1>6
<1>8. k \in 0..MaxRotations /\ k > r.rotation
  BY <1>1, ClientConstants DEF ClientConstants
<1> HIDE DEF read, k, q
<1>9. m \in Client
  <2>1. r.doc \cup read.content \in SUBSET Edits
    BY <1>1, <1>4 DEF Client
  <2> QED  BY <1>1, <1>2, <1>4, <1>8, <2>1 DEF Merge, Client
<1>10. /\ m.jobs = Tail(r.jobs) /\ m.link = r.link /\ m.stopped = r.stopped /\ m.made = r.made
       /\ m.busy = r.busy /\ m.post = r.post /\ m.paused = r.paused /\ m.held = r.held
       /\ m.drained = r.drained /\ m.pending = r.pending /\ m.out = r.out
       /\ r.doc \subseteq m.doc /\ m.rotation = k
  BY <1>1 DEF Merge, Client
<1> HIDE DEF m
<1>11. ClientOK(c, m, in) /\ (Head(r.jobs).awaited => NoneAwaited(m))
  BY <1>8, <1>9, <1>10, DequeuedKeeps
<1>12. ClientOK(c, q, in) /\ SameCore(q, m)
  BY <1>7, <1>10, <1>11, RebaseKeeps
<1>13. Head(r.jobs).awaited => NoneAwaited(q)
  BY <1>11, <1>12 DEF NoneAwaited, SameCore
<1>14. q.post = r.post /\ q.stopped = r.stopped /\ q.busy = r.busy
  BY <1>10, <1>12 DEF SameCore
<1> QED  BY <1>12, <1>13, <1>14 DEF q, read

-----------------------------------------------------------------------------
(* What a handler does after the job it awaited *)

\* createCompaction posts the copy it has just read.
LEMMA PostKeeps ==
    ASSUME NEW c, NEW r, NEW in, ClientOK(c, r, in), r.busy, NoneAwaited(r), CopyOK(ReadCopy(r)),
           NEW frame \in AnyFrame, frame.id <= issued
    PROVE  ClientOK(c, PostSnapshot(r, frame), in) /\ NoneAwaited(PostSnapshot(r, frame))
<1> DEFINE post == [step |-> "posted", id |-> frame.id, sequence |-> r.sequence,
                    parent |-> r.parent, content |-> r.mirror]
           q == PostSnapshot(r, frame)
<1>1. r \in Client
  BY DEF ClientOK
<1>2. post \in AnyPost /\ post.step = "posted" /\ post.id = frame.id
  BY <1>1 DEF AnyPost, AnyFrame, Client
<1>3. q = [r EXCEPT !.post = post]
  BY DEF PostSnapshot
<1>4. CopyOK(post)
  BY DEF CopyOK, ReadCopy
<1> HIDE DEF post
<1>5. q \in Client
  BY <1>1, <1>2, <1>3, ZenonT(60) DEF Client
<1>6. /\ q.link = r.link /\ q.stopped = r.stopped /\ q.made = r.made /\ q.rotation = r.rotation
      /\ q.jobs = r.jobs /\ q.busy = r.busy /\ q.post = post /\ q.paused = r.paused
      /\ q.held = r.held /\ q.drained = r.drained /\ q.clock = r.clock
      /\ q.pending = r.pending /\ q.doc = r.doc /\ q.out = r.out
  BY <1>1, <1>3, ZenonT(60) DEF Client
<1> HIDE DEF q
<1>7. ClockOK(c, q)
  BY <1>6 DEF ClientOK, ClockOK, Own, Sealed, Spent
<1>8. EditOK(c, q)
  <2>1. Waits(q) = Waits(r)
    BY <1>6 DEF Waits, JobsOf
  <2> QED  BY <1>6, <2>1 DEF ClientOK, EditOK
<1>9. SettledOK(q)
  BY <1>6 DEF ClientOK, SettledOK, Encrypting, JobsOf
<1>10. DrainOK(c, q)
  BY <1>6 DEF ClientOK, DrainOK
<1>11. HeldOK(q, in) /\ ReadsOK(q)
  BY <1>6 DEF ClientOK, HeldOK, ReadsOK
<1>12. PostOK(q.post)
  BY <1>2, <1>4, <1>6 DEF PostOK
<1>13. AwaitOK(q, in) /\ NoneAwaited(q)
  BY <1>6 DEF ClientOK, AwaitOK, NoneAwaited
<1> QED  BY <1>5, <1>7, <1>8, <1>9, <1>10, <1>11, <1>12, <1>13 DEF ClientOK, q

\* The synchronization after a reconnect ends a barrier the server no longer has.
LEMMA AuthenticatedKeeps ==
    ASSUME Core, NEW c, NEW r, NEW in, ClientOK(c, r, in), ~r.stopped, in # <<>>,
           Head(in).type = "authenticated"
    PROVE  /\ ClientOK(c, Authenticated(r, Head(in)), in)
           /\ Authenticated(r, Head(in)).post = r.post /\ Authenticated(r, Head(in)).busy = r.busy
           /\ NoneAwaited(r) => NoneAwaited(Authenticated(r, Head(in)))
<1> DEFINE q == [r EXCEPT !.online = TRUE]
           s == IF q.held # 0 /\ Head(in).id # q.held THEN ReleaseBarrier(q) ELSE q
<1>1. r \in Client /\ in \in Seq(AnyFrame)
  BY DEF ClientOK
<1>2. q \in Client /\ SameCore(q, r) /\ SameSeals(q, r) /\ q.doc = r.doc
      /\ q.drained = r.drained /\ q.out = r.out
  BY <1>1 DEF Client, SameCore, SameSeals
<1>3. Authenticated(r, Head(in)) = Flush(s)
  BY DEF Authenticated
<1>4. 1 \in DOMAIN in /\ Head(in) = in[1]
  BY <1>1, TailHas
<1> HIDE DEF q
<1>5. ClientOK(c, q, in)
  BY <1>2, SameCoreKeeps
<1>6. ASSUME Head(in).id # q.held PROVE ~Live(q.held)
  BY <1>4, <1>5, <1>6 DEF ClientOK, HeldOK
<1>7. Head(in).id # q.held => ClientOK(c, ReleaseBarrier(q), in)
                              /\ ReleaseBarrier(q).post = q.post
                              /\ ReleaseBarrier(q).busy = q.busy
                              /\ (NoneAwaited(q) => NoneAwaited(ReleaseBarrier(q)))
  BY <1>2, <1>5, <1>6, ReleaseKeeps DEF SameCore
<1>8. ClientOK(c, s, in) /\ s.post = r.post /\ s.busy = r.busy
      /\ (NoneAwaited(r) => NoneAwaited(s))
  BY <1>2, <1>5, <1>7 DEF SameCore, NoneAwaited
<1> HIDE DEF s
<1> QED  BY <1>3, <1>8, FlushKeeps DEF SameCore, NoneAwaited

\* A confirmation is sent, or not.
LEMMA ConfirmKeeps ==
    ASSUME NEW c, NEW r, NEW in, ClientOK(c, r, in), NEW frame \in AnyFrame
    PROVE  ClientOK(c, Confirm(r, frame), in) /\ SameCore(Confirm(r, frame), r)
<1> DEFINE answer == Frame("confirmed", frame.id, frame.sequence, NoEnvelope, "")
<1>1. answer \in AnyFrame
  BY PlainFrame DEF AnyFrame, FrameTypes, Codes
<1>2. answer.type = "confirmed"
  BY DEF Frame
<1>3. Confirm(r, frame) = r \/ Confirm(r, frame) = Send(r, answer)
  BY DEF Confirm
<1>4. SameCore(r, r)
  BY DEF SameCore
<1> HIDE DEF answer
<1>5. ClientOK(c, Send(r, answer), in) /\ SameCore(Send(r, answer), r)
  BY <1>1, <1>2, SendKeeps
<1> QED  BY <1>3, <1>4, <1>5

\* A failure is reported.
LEMMA ReportKeeps ==
    ASSUME NEW c, NEW r, NEW in, ClientOK(c, r, in), NEW id \in Nat
    PROVE  LET q == Send(r, Frame("failed", id, 0, NoEnvelope, ""))
           IN ClientOK(c, q, in) /\ SameCore(q, r) /\ SameSeals(q, r) /\ SameView(q, r)
<1> DEFINE frame == Frame("failed", id, 0, NoEnvelope, "")
<1>1. frame \in AnyFrame
  BY PlainFrame DEF FrameTypes, Codes
<1>2. frame.type = "failed"
  BY DEF Frame
<1> HIDE DEF frame
<1>3. ClientOK(c, Send(r, frame), in) /\ SameCore(Send(r, frame), r)
      /\ SameSeals(Send(r, frame), r) /\ SameView(Send(r, frame), r)
  BY <1>1, <1>2, SendKeeps
<1> QED  BY <1>3 DEF frame

\* The handler of the head frame goes on after the job it awaited.
LEMMA ContinueKeeps ==
    ASSUME Core, NEW c, NEW r, NEW in, ClientOK(c, r, in), ~r.stopped, r.busy, NoneAwaited(r),
           r.held # 0 /\ Head(in).type = "ready" => CopyOK(ReadCopy(r))
    PROVE  /\ ClientOK(c, Continue(r, Head(in)), in) /\ NoneAwaited(Continue(r, Head(in)))
           /\ Continue(r, Head(in)).busy
<1> DEFINE frame == Head(in)
           q == Continue(r, frame)
<1>1. in \in Seq(AnyFrame) /\ in # <<>>
  BY DEF ClientOK, AwaitOK
<1>2. frame \in AnyFrame /\ frame = in[1] /\ 1 \in DOMAIN in
  BY <1>1, TailHas
<1> HIDE DEF frame
<1>3. ASSUME frame.type = "authenticated" PROVE ClientOK(c, q, in) /\ NoneAwaited(q) /\ q.busy
  <2>1. q = Authenticated(r, frame)
    BY <1>3 DEF Continue
  <2> QED  BY <1>1, <1>3, <2>1, AuthenticatedKeeps DEF frame
<1>4. ASSUME frame.type = "sequence" PROVE ClientOK(c, q, in) /\ NoneAwaited(q) /\ q.busy
  <2>1. q = Confirm(r, frame)
    BY <1>4 DEF Continue
  <2> QED  BY <1>2, <2>1, ConfirmKeeps DEF SameCore, NoneAwaited
<1>5. ASSUME frame.type = "released" PROVE ClientOK(c, q, in) /\ NoneAwaited(q) /\ q.busy
  <2>1. q = ReleaseBarrier(r)
    BY <1>5 DEF Continue
  <2>2. ~Live(r.held)
    BY <1>5 DEF ClientOK, HeldOK, frame
  <2> QED  BY <1>5, <2>1, <2>2, ReleaseKeeps DEF frame
<1>6. ASSUME frame.type = "ready" PROVE ClientOK(c, q, in) /\ NoneAwaited(q) /\ q.busy
  <2>1. r.held # 0
    BY <1>6 DEF ClientOK, HeldOK, frame
  <2>2. frame.id <= issued /\ frame.id \in Nat
    BY <1>2, <1>6 DEF ClientOK, InboxOK, AnyFrame
  <2>3. CASE r.sequence = frame.sequence
    <3>1. q = PostSnapshot(r, frame)
      BY <1>6, <2>3 DEF Continue
    <3>2. CopyOK(ReadCopy(r))
      BY <1>6, <2>1 DEF frame
    <3>3. PostSnapshot(r, frame).busy
      <4>1. r \in Client
        BY DEF ClientOK
      <4> QED  BY <4>1 DEF PostSnapshot, Client
    <3> QED  BY <1>2, <2>2, <3>1, <3>2, <3>3, PostKeeps
  <2>4. CASE r.sequence # frame.sequence
    <3> DEFINE report == Send(r, Frame("failed", frame.id, 0, NoEnvelope, ""))
    <3>1. q = report
      BY <1>6, <2>4 DEF Continue
    <3>2. ClientOK(c, report, in) /\ SameCore(report, r)
      BY <2>2, ReportKeeps
    <3> HIDE DEF report, q
    <3> QED  BY <3>1, <3>2 DEF SameCore, NoneAwaited
  <2> QED  BY <2>3, <2>4
<1>7. ASSUME frame.type \notin {"authenticated", "sequence", "released", "ready"}
      PROVE  ClientOK(c, q, in) /\ NoneAwaited(q) /\ q.busy
  BY <1>7 DEF Continue
<1>8. ClientOK(c, q, in) /\ NoneAwaited(q) /\ q.busy
  BY <1>3, <1>4, <1>5, <1>6, <1>7
<1> QED  BY <1>8 DEF q, frame

-----------------------------------------------------------------------------
(* Steps of a client *)

\* What ClientOK compares a client with is the server's state.
LEMMA SameServerKeeps ==
    ASSUME NEW c, NEW r, NEW in, ClientOK(c, r, in), UNCHANGED serverVars
    PROVE  ClientOK(c, r, in)'
<1>1. /\ barrier' = barrier /\ issued' = issued /\ released' = released /\ snapshot' = snapshot
      /\ sockets' = sockets /\ log' = log /\ archive' = archive
  BY DEF serverVars, coordinatorVars, documentVars
<1>2. Logged' = Logged /\ (\A n : EditsUpTo(n)' = EditsUpTo(n)) /\ (\A b : Live(b)' = Live(b))
  BY <1>1 DEF Logged, EditsUpTo, Live, Open, EditsOf
<1>3. ClockOK(c, r)'
  BY <1>1 DEF ClientOK, ClockOK, Own, Sealed, Spent
<1>4. EditOK(c, r)' /\ SettledOK(r)'
  BY <1>2 DEF ClientOK, EditOK, SettledOK, Waits, JobsOf, Encrypting
<1>5. DrainOK(c, r)'
  BY <1>1, <1>2 DEF ClientOK, DrainOK
<1>6. InboxOK(in)' /\ HeldOK(r, in)'
  BY <1>1, <1>2 DEF ClientOK, InboxOK, HeldOK
<1>7. \A copy : (CopyOK(copy)' <=> CopyOK(copy)) /\ (RowOK(copy)' <=> RowOK(copy))
  BY <1>1, <1>2 DEF CopyOK, RowOK
<1>8. ReadsOK(r)' /\ PostOK(r.post)'
  BY <1>1, <1>7 DEF ClientOK, ReadsOK, PostOK
<1>9. AwaitOK(r, in)' /\ (r \in Client)' /\ (in \in Seq(AnyFrame))'
  BY DEF ClientOK, AwaitOK, Client, AnyFrame
<1> QED  BY <1>3, <1>4, <1>5, <1>6, <1>8, <1>9 DEF ClientOK

\* A step of client c that the server does not notice.
LEMMA OwnStep ==
    ASSUME Inv, NEW c \in Clients, NEW q, NEW in, ClientOK(c, q, in), UNCHANGED serverVars,
           clients' = [clients EXCEPT ![c] = q], inbox' = [inbox EXCEPT ![c] = in]
    PROVE  Inv'
<1>1. ServerOK'
  <2>1. IInv'
    BY DEF Inv, ServerOK, serverVars, coordinatorVars, IInv, Core, CoreTypeOK, GoodBarrier,
           Ledger, UnsettledPrepareHasBarrier, RestTypeOK, BarrierExcludesExternalWriters,
           Frozen, Open
  <2>2. LogInv'
    BY DEF Inv, ServerOK, serverVars, documentVars, LogInv, DocumentTypeOK, LatestClock,
           ClocksOf, LogIsSound, LogIsGapless, ClocksAreSequential
  <2>3. StoredOK'
    BY DEF Inv, ServerOK, serverVars, documentVars, StoredOK, AnswersOK, LatestClock, ClocksOf,
           Logged, EditsOf, SnapshotHoldsLog
  <2>4. RoomOK'
    BY DEF Inv, ServerOK, serverVars, coordinatorVars, documentVars, RoomOK, Entered, Open
  <2> QED  BY <2>1, <2>2, <2>3, <2>4 DEF ServerOK
<1>2. /\ q \in Client /\ in \in Seq(AnyFrame)
      /\ clients' \in [Clients -> Client] /\ inbox' \in [Clients -> Seq(AnyFrame)]
      /\ \A d \in Clients : /\ clients'[d] = IF d = c THEN q ELSE clients[d]
                            /\ inbox'[d] = IF d = c THEN in ELSE inbox[d]
  BY DEF Inv, ClientOK
<1>3. \A d \in Clients : ClientOK(d, clients'[d], inbox'[d])
  BY <1>2 DEF Inv
<1>4. ASSUME NEW d \in Clients PROVE ClientOK(d, clients[d], inbox[d])'
  <2> DEFINE r == clients'[d]
             box == inbox'[d]
  <2>1. ClientOK(d, r, box)
    BY <1>3
  <2> QED  BY <2>1, SameServerKeeps
<1> QED  BY <1>1, <1>2, <1>4 DEF Inv

\* The inbox is left alone.
LEMMA QuietStep ==
    ASSUME Inv, NEW c \in Clients, NEW q, ClientOK(c, q, inbox[c]), UNCHANGED serverVars,
           Become(c, q), UNCHANGED inbox
    PROVE  Inv'
<1>1. inbox' = [inbox EXCEPT ![c] = inbox[c]]
  BY DEF Inv
<1>2. clients' = [clients EXCEPT ![c] = q]
  BY DEF Become
<1> QED  BY <1>1, <1>2, OwnStep

\* The head of the inbox is handled.
LEMMA PoppingStep ==
    ASSUME Inv, NEW c \in Clients, NEW q, ClientOK(c, q, inbox[c]), ~q.busy, inbox[c] # <<>>,
           UNCHANGED serverVars, Become(c, q), Pop(c)
    PROVE  Inv'
<1>1. inbox' = [inbox EXCEPT ![c] = Tail(inbox[c])]
  BY DEF Pop
<1>2. clients' = [clients EXCEPT ![c] = q]
  BY DEF Become
<1>3. ClientOK(c, q, Tail(inbox[c]))
  BY PopKeeps
<1> QED  BY <1>1, <1>2, <1>3, OwnStep

\* The handler of the head frame ends, or waits for the answer to its snapshot.
LEMMA HandlerStep ==
    ASSUME Inv, NEW c \in Clients, NEW q, ClientOK(c, q, inbox[c]), NoneAwaited(q), q.busy,
           UNCHANGED serverVars, EndHandler(c, q)
    PROVE  Inv'
<1>1. CASE q.post.step # "none"
  BY <1>1, QuietStep DEF EndHandler
<1>2. CASE q.post.step = "none"
  <2> DEFINE s == [q EXCEPT !.busy = FALSE]
  <2>1. inbox[c] # <<>>
    BY DEF ClientOK, AwaitOK
  <2>2. ClientOK(c, s, Tail(inbox[c]))
    BY <1>2, <2>1, FinishedKeeps
  <2>3. clients' = [clients EXCEPT ![c] = s] /\ inbox' = [inbox EXCEPT ![c] = Tail(inbox[c])]
    BY <1>2 DEF EndHandler, Become, Pop
  <2> HIDE DEF s
  <2> QED  BY <2>2, <2>3, OwnStep
<1> QED  BY <1>1, <1>2

\* A job joins the queue; the handler of the head frame may await it.
LEMMA EnqueuedKeeps ==
    ASSUME NEW c, NEW r, NEW in, ClientOK(c, r, in), ~r.stopped, NEW job \in AnyJob,
           job.stage = "queued", job.kind = "encrypt" => ~job.awaited /\ ~r.drained,
           NEW q \in Client, q.jobs = Append(r.jobs, job), SameSeals(q, r), SameView(q, r),
           q.link = r.link, q.stopped = r.stopped, q.made = r.made, q.rotation = r.rotation,
           q.post = r.post, q.paused = r.paused, q.held = r.held, q.drained = r.drained,
           q.out = r.out,
           \/ ~job.awaited /\ q.busy = r.busy
           \/ /\ job.awaited /\ ~r.busy /\ q.busy /\ in # <<>>
              /\ Head(in).type = "released" => ~Live(r.held)
              /\ Head(in).type = "ready" => r.held # 0
              /\ job.kind = "recover" => Head(in).type = "rejected"
    PROVE  ClientOK(c, q, in) /\ (job.kind = "encrypt" => job.edit \in Waits(q))
<1>1. r \in Client /\ r.jobs \in Seq(AnyJob)
  BY DEF ClientOK, Client
<1>2. /\ DOMAIN q.jobs = 1..(Len(r.jobs) + 1)
      /\ DOMAIN r.jobs = 1..Len(r.jobs) /\ Len(r.jobs) \in Nat
      /\ \A i \in 1..Len(r.jobs) : q.jobs[i] = r.jobs[i]
      /\ q.jobs[Len(r.jobs) + 1] = job
  BY <1>1, AppendHas
<1>3. \A i \in DOMAIN q.jobs : (i \in DOMAIN r.jobs /\ q.jobs[i] = r.jobs[i])
                               \/ (i = Len(r.jobs) + 1 /\ q.jobs[i] = job)
  BY <1>2
<1>4. \A i \in DOMAIN r.jobs : i \in DOMAIN q.jobs /\ q.jobs[i] = r.jobs[i]
  BY <1>2
<1>5. Len(r.jobs) + 1 \in DOMAIN q.jobs
  BY <1>2
<1>6. ClockOK(c, q)
  BY DEF ClientOK, ClockOK, Own, Sealed, Spent, SameSeals
<1>7. EditOK(c, q)
  <2>1. Waits(r) \subseteq Waits(q)
    BY <1>4 DEF Waits, JobsOf, SameSeals
  <2> QED  BY <2>1 DEF ClientOK, EditOK, SameView
<1>8. SettledOK(q)
  <2>1. q.drained => ~Encrypting(q)
    BY <1>3 DEF ClientOK, SettledOK, Encrypting, JobsOf
  <2> QED  BY <2>1 DEF ClientOK, SettledOK, SameSeals
<1>9. DrainOK(c, q)
  BY DEF ClientOK, DrainOK
<1>10. HeldOK(q, in)
  BY DEF ClientOK, HeldOK
<1>11. ReadsOK(q) /\ PostOK(q.post)
  BY <1>3 DEF ClientOK, ReadsOK
<1>12. AwaitOK(q, in)
  <2>1. CASE ~job.awaited
    BY <1>3, <2>1 DEF ClientOK, AwaitOK
  <2>2. CASE job.awaited
    <3>1. /\ \A i \in DOMAIN r.jobs : ~r.jobs[i].awaited
          /\ r.post.step = "none"
      BY <2>2 DEF ClientOK, AwaitOK
    <3> QED  BY <1>3, <2>2, <3>1 DEF AwaitOK
  <2> QED  BY <2>1, <2>2
<1>13. job.kind = "encrypt" => job.edit \in Waits(q)
  BY <1>2, <1>5 DEF Waits, JobsOf
<1> QED  BY <1>6, <1>7, <1>8, <1>9, <1>10, <1>11, <1>12, <1>13 DEF ClientOK

\* The handler of the head frame awaits a job.
LEMMA AwaitStep ==
    ASSUME Inv, NEW c \in Clients, NEW kind \in {"sync", "recover"}, Frames(c),
           Head(inbox[c]).type = "released" => ~Live(clients[c].held),
           Head(inbox[c]).type = "ready" => clients[c].held # 0,
           kind = "recover" => Head(inbox[c]).type = "rejected",
           Await(c, kind), UNCHANGED serverVars
    PROVE  Inv'
<1> DEFINE r == clients[c]
           in == inbox[c]
           job == Job(kind, NoEdit, TRUE)
           q == [Enqueue(r, job) EXCEPT !.busy = TRUE]
<1>1. ClientOK(c, r, in) /\ r \in Client /\ ~r.busy /\ ~r.stopped /\ in # <<>>
  BY DEF Inv, ClientOK, Frames
<1>2. job \in AnyJob /\ job.stage = "queued" /\ job.kind = kind /\ job.awaited
  <2>1. NoEdit \in Edits /\ NoRead \in Copy
    BY DEF Edits, NoRead, Copy
  <2> HIDE DEF Edits, Copy
  <2> QED  BY <2>1 DEF Job, AnyJob
<1>3. Become(c, q) /\ UNCHANGED inbox
  BY DEF Await
<1>4. /\ Head(in).type = "released" => ~Live(r.held)
      /\ Head(in).type = "ready" => r.held # 0
      /\ kind = "recover" => Head(in).type = "rejected"
  OBVIOUS
<1> HIDE DEF r, in, job
<1>5. r.jobs \in Seq(AnyJob) /\ Append(r.jobs, job) \in Seq(AnyJob)
  BY <1>1, <1>2, AppendHas DEF Client
<1>6. q \in Client
  BY <1>1, <1>5 DEF Enqueue, Client
<1>7. q.jobs = Append(r.jobs, job) /\ SameSeals(q, r) /\ SameView(q, r) /\ q.busy
  BY <1>1 DEF Enqueue, Client, SameSeals, SameView
<1>8. /\ q.link = r.link /\ q.stopped = r.stopped /\ q.made = r.made /\ q.rotation = r.rotation
      /\ q.post = r.post /\ q.paused = r.paused /\ q.held = r.held /\ q.drained = r.drained
      /\ q.out = r.out
  BY <1>1 DEF Enqueue, Client
<1> HIDE DEF q
<1>9. ClientOK(c, q, in)
  BY <1>1, <1>2, <1>4, <1>6, <1>7, <1>8, EnqueuedKeeps
<1> QED  BY <1>3, <1>9, QuietStep DEF in

\* reloadCanonical
LEMMA DiscardKeeps ==
    ASSUME NEW c, NEW r, NEW in, ClientOK(c, r, in), Core
    PROVE  ClientOK(c, Discard(r), <<>>)
<1> DEFINE q == Discard(r)
<1>1. r \in Client
  BY DEF ClientOK
<1>2. q \in Client
  <2>1. /\ <<>> \in Seq(AnyJob) /\ <<>> \in Seq(SealedText) /\ <<>> \in Seq(Edits)
        /\ <<>> \in Seq(Sending) /\ {} \in SUBSET SealedText /\ {} \in SUBSET Edits
        /\ 0 \in Nat /\ InitialSnapshot \in Nat /\ 0 \in 0..MaxRotations
        /\ "compaction" \in Codes
    BY EmptySeq, ClientConstants DEF ClientConstants, InitialSnapshot, Codes, Intentions
  <2> DEFINE z == 0
             nothing == <<>>
  <2> DEFINE away == [r EXCEPT !.stopped = TRUE, !.link = NoLink, !.online = FALSE,
                        !.sequence = z, !.parent = InitialSnapshot, !.clock = z,
                        !.rotation = z]
             idle == [away EXCEPT !.jobs = nothing, !.busy = FALSE, !.pending = nothing,
                        !.sent = {}, !.paused = nothing, !.held = z, !.intention = "compaction"]
  <2>2. q = [idle EXCEPT !.drained = FALSE, !.mirror = {}, !.compacting = FALSE, !.trigger = z,
               !.retry = z, !.out = nothing]
    BY <1>1, ZenonT(60) DEF Discard, Client
  <2>3. /\ nothing \in Seq(AnyJob) /\ nothing \in Seq(SealedText) /\ nothing \in Seq(Edits)
        /\ nothing \in Seq(Sending) /\ z \in Nat /\ z \in 0..MaxRotations
    BY <2>1
  <2> HIDE DEF z, nothing, q
  <2>4. away \in Client
    BY <1>1, <2>1, <2>3, ZenonT(60) DEF Client
  <2> HIDE DEF away
  <2>5. idle \in Client
    BY <2>1, <2>3, <2>4, ZenonT(60) DEF Client
  <2> HIDE DEF idle
  <2> QED  BY <2>1, <2>2, <2>3, <2>5, ZenonT(60) DEF Client
<1>3. /\ q.link = NoLink /\ q.stopped /\ ~q.busy /\ q.post = r.post /\ q.held = 0 /\ ~q.drained
      /\ q.jobs = <<>> /\ q.pending = <<>> /\ q.out = <<>>
  BY <1>1 DEF Discard, Client
<1> HIDE DEF q
<1>4. Sealed(q) = {}
  BY <1>3 DEF Sealed, ToSet
<1>5. ClockOK(c, q)
  BY <1>3, <1>4 DEF ClientOK, ClockOK, Own
<1>6. EditOK(c, q) /\ SettledOK(q)
  BY <1>3 DEF EditOK, SettledOK
<1>7. DrainOK(c, q)
  <2>1. NoLink \notin barrier.drained
    BY NothingIsLiveAtZero, NoLinkIsNoConnection
  <2> QED  BY <1>3, <2>1 DEF DrainOK, Core, CoreTypeOK
<1>8. InboxOK(<<>>) /\ HeldOK(q, <<>>) /\ ReadsOK(q)
  BY <1>3 DEF InboxOK, HeldOK, ReadsOK
<1>9. PostOK(q.post)
  BY <1>3 DEF ClientOK
<1>10. AwaitOK(q, <<>>)
  BY <1>3 DEF AwaitOK
<1>11. <<>> \in Seq(AnyFrame)
  BY EmptySeq
<1> QED  BY <1>2, <1>5, <1>6, <1>7, <1>8, <1>9, <1>10, <1>11 DEF ClientOK, q

\* close: the workspace is discarded with its inbox.
LEMMA StopStep ==
    ASSUME Inv, NEW c \in Clients, Stop(c), UNCHANGED serverVars
    PROVE  Inv'
<1>1. ClientOK(c, Discard(clients[c]), <<>>)
  BY DiscardKeeps DEF Inv, ServerOK, IInv
<1>2. /\ clients' = [clients EXCEPT ![c] = Discard(clients[c])]
      /\ inbox' = [inbox EXCEPT ![c] = <<>>]
  BY DEF Stop, Become
<1> QED  BY <1>1, <1>2, OwnStep

-----------------------------------------------------------------------------
(* What the user does *)

\* The next edit of client c is in its document, and waits.
Typed(r, e) == [r EXCEPT !.made = @ + 1, !.doc = @ \cup {e}]

\* An edit that waits is counted as made, and shown in the document.
LEMMA TypedKeeps ==
    ASSUME NEW c \in Clients, NEW r, NEW in, ClientOK(c, r, in), <<c, r.made + 1>> \in Waits(r)
    PROVE  ClientOK(c, Typed(r, <<c, r.made + 1>>), in)
<1> DEFINE e == <<c, r.made + 1>>
           q == Typed(r, e)
<1>1. r \in Client /\ r.made \in Nat /\ r.made + 1 \in Nat
  <2>1. r \in Client
    BY DEF ClientOK
  <2>2. r.made \in Nat
    BY <2>1 DEF Client
  <2> QED  BY <2>1, <2>2
<1>2. r.doc \cup {e} \in SUBSET Edits
  <2>1. r.doc \in SUBSET Edits
    BY <1>1 DEF Client
  <2>2. e \in Edits
    BY <1>1 DEF Edits
  <2> QED  BY <2>1, <2>2
<1>3. q \in Client
  BY <1>1, <1>2 DEF Typed, Client
<1>4. /\ q.link = r.link /\ q.stopped = r.stopped /\ q.made = r.made + 1
      /\ q.rotation = r.rotation /\ q.doc = r.doc \cup {e}
      /\ q.jobs = r.jobs /\ q.busy = r.busy /\ q.post = r.post /\ q.paused = r.paused
      /\ q.held = r.held /\ q.drained = r.drained /\ q.clock = r.clock
      /\ q.pending = r.pending /\ q.out = r.out
  BY <1>1 DEF Typed, Client
<1> HIDE DEF q
<1>5. ClockOK(c, q)
  BY <1>4 DEF ClientOK, ClockOK, Own, Sealed, Spent
<1>6. EditOK(c, q)
  <2>1. Waits(q) = Waits(r)
    BY <1>4 DEF Waits, JobsOf
  <2>2. \A n \in 1..q.made : n \in 1..r.made \/ n = r.made + 1
    BY <1>1, <1>4
  <2> QED  BY <1>4, <2>1, <2>2 DEF ClientOK, EditOK
<1>7. SettledOK(q) /\ DrainOK(c, q)
  BY <1>4 DEF ClientOK, SettledOK, Encrypting, JobsOf, DrainOK
<1>8. HeldOK(q, in) /\ ReadsOK(q) /\ PostOK(q.post) /\ AwaitOK(q, in)
  BY <1>4 DEF ClientOK, HeldOK, ReadsOK, AwaitOK
<1> QED  BY <1>3, <1>5, <1>6, <1>7, <1>8 DEF ClientOK, q

\* What is typed under a barrier waits as plain text.
LEMMA PausedKeeps ==
    ASSUME NEW c, NEW r, NEW in, ClientOK(c, r, in), NEW e \in Edits
    PROVE  LET q == [r EXCEPT !.paused = Append(@, e)]
           IN ClientOK(c, q, in) /\ e \in Waits(q)
<1> DEFINE paused == Append(r.paused, e)
           q == [r EXCEPT !.paused = Append(@, e)]
<1>1. r \in Client /\ r.paused \in Seq(Edits)
  BY DEF ClientOK, Client
<1>2. /\ paused \in Seq(Edits)
      /\ \A i \in DOMAIN r.paused : i \in DOMAIN paused /\ paused[i] = r.paused[i]
      /\ \E i \in DOMAIN paused : paused[i] = e
  <2>1. /\ paused \in Seq(Edits)
        /\ DOMAIN paused = 1..(Len(r.paused) + 1)
        /\ DOMAIN r.paused = 1..Len(r.paused) /\ Len(r.paused) \in Nat
        /\ \A i \in 1..Len(r.paused) : paused[i] = r.paused[i]
        /\ paused[Len(r.paused) + 1] = e
    BY <1>1, AppendHas
  <2>2. Len(r.paused) + 1 \in DOMAIN paused
    BY <2>1
  <2> QED  BY <2>1, <2>2
<1>3. q = [r EXCEPT !.paused = paused]
  OBVIOUS
<1> HIDE DEF paused
<1>4. q \in Client
  BY <1>1, <1>2, <1>3 DEF Client
<1>5. /\ q.link = r.link /\ q.stopped = r.stopped /\ q.made = r.made /\ q.rotation = r.rotation
      /\ q.jobs = r.jobs /\ q.busy = r.busy /\ q.post = r.post /\ q.paused = paused
      /\ q.held = r.held /\ q.drained = r.drained /\ q.clock = r.clock
      /\ q.pending = r.pending /\ q.doc = r.doc /\ q.out = r.out
  BY <1>1, <1>3 DEF Client
<1> HIDE DEF q
<1>6. ClockOK(c, q)
  BY <1>5 DEF ClientOK, ClockOK, Own, Sealed, Spent
<1>7. Waits(r) \subseteq Waits(q) /\ e \in Waits(q)
  BY <1>2, <1>5 DEF Waits, JobsOf
<1>8. EditOK(c, q)
  BY <1>5, <1>7 DEF ClientOK, EditOK
<1>9. SettledOK(q) /\ DrainOK(c, q)
  BY <1>5 DEF ClientOK, SettledOK, Encrypting, JobsOf, DrainOK
<1>10. HeldOK(q, in) /\ ReadsOK(q) /\ PostOK(q.post) /\ AwaitOK(q, in)
  BY <1>5 DEF ClientOK, HeldOK, ReadsOK, AwaitOK
<1> QED  BY <1>4, <1>6, <1>7, <1>8, <1>9, <1>10 DEF ClientOK, q

\* A job nobody awaits joins the queue.
LEMMA EnqueueKeeps ==
    ASSUME NEW c, NEW r, NEW in, ClientOK(c, r, in), ~r.stopped,
           NEW kind \in {"encrypt", "sync"}, kind = "encrypt" => ~r.drained, NEW edit \in Edits
    PROVE  LET q == Enqueue(r, Job(kind, edit, FALSE))
           IN ClientOK(c, q, in) /\ (kind = "encrypt" => edit \in Waits(q))
<1> DEFINE job == Job(kind, edit, FALSE)
           q == Enqueue(r, job)
<1>1. r \in Client /\ r.jobs \in Seq(AnyJob)
  BY DEF ClientOK, Client
<1>2. job \in AnyJob /\ job.stage = "queued" /\ job.kind = kind /\ ~job.awaited /\ job.edit = edit
  <2>1. NoRead \in Copy
    BY DEF NoRead, Copy
  <2> HIDE DEF Edits, Copy
  <2> QED  BY <2>1 DEF Job, AnyJob
<1> HIDE DEF job
<1>3. Append(r.jobs, job) \in Seq(AnyJob)
  BY <1>1, <1>2, AppendHas
<1>4. q \in Client
  BY <1>1, <1>3 DEF Enqueue, Client
<1>5. q.jobs = Append(r.jobs, job) /\ SameSeals(q, r) /\ SameView(q, r) /\ q.busy = r.busy
  BY <1>1 DEF Enqueue, Client, SameSeals, SameView
<1>6. /\ q.link = r.link /\ q.stopped = r.stopped /\ q.made = r.made /\ q.rotation = r.rotation
      /\ q.post = r.post /\ q.paused = r.paused /\ q.held = r.held /\ q.drained = r.drained
      /\ q.out = r.out
  BY <1>1 DEF Enqueue, Client
<1> HIDE DEF q
<1>7. ClientOK(c, q, in) /\ (job.kind = "encrypt" => job.edit \in Waits(q))
  BY <1>2, <1>4, <1>5, <1>6, EnqueuedKeeps
<1> QED  BY <1>2, <1>7 DEF q, job

\* The user types.
LEMMA EditKeepsInv ==
    ASSUME Inv, NEW c \in Clients, Edit(c)
    PROVE  Inv'
<1> DEFINE r == clients[c]
           in == inbox[c]
           e == <<c, r.made + 1>>
           q == Typed(r, e)
           later == [r EXCEPT !.paused = Append(@, e)]
           queued == Enqueue(r, Job("encrypt", e, FALSE))
<1>1. ClientOK(c, r, in) /\ r \in Client /\ ~r.stopped
  BY DEF Inv, ClientOK, Edit
<1>2. UNCHANGED serverVars /\ UNCHANGED inbox
  BY DEF Edit
<1>3. r.made \in Nat /\ e \in Edits
  <2>1. r.made \in Nat
    BY <1>1 DEF Client
  <2> QED  BY <2>1 DEF Edits
<1>4. CASE r.held = 0
  <2>1. ~r.drained
    BY <1>1, <1>4 DEF ClientOK, SettledOK
  <2>2. ClientOK(c, queued, in) /\ e \in Waits(queued)
    BY <1>1, <1>3, <2>1, EnqueueKeeps
  <2>3. queued.made = r.made
    BY <1>1 DEF Enqueue, Client
  <2>4. ClientOK(c, Typed(queued, e), in)
    BY <2>2, <2>3, TypedKeeps
  <2>5. Typed(queued, e) = Enqueue(q, Job("encrypt", e, FALSE))
    BY <1>1 DEF Typed, Enqueue, Client
  <2>6. Become(c, Typed(queued, e))
    BY <1>4, <2>5 DEF Edit, Typed
  <2> HIDE DEF queued
  <2> QED  BY <1>2, <2>4, <2>6, QuietStep
<1>5. CASE r.held # 0
  <2>1. ClientOK(c, later, in) /\ e \in Waits(later)
    BY <1>1, <1>3, PausedKeeps
  <2>2. later.made = r.made
    BY <1>1 DEF Client
  <2>3. ClientOK(c, Typed(later, e), in)
    BY <2>1, <2>2, TypedKeeps
  <2> DEFINE s == [q EXCEPT !.paused = Append(@, e)]
             report == Send(s, Frame("failed", r.held, 0, NoEnvelope, ""))
  <2>4. Typed(later, e) = s
    BY <1>1 DEF Typed, Client
  <2>5. Become(c, IF r.intention = "completion" THEN report ELSE s)
    BY <1>5 DEF Edit, Typed
  <2> HIDE DEF s
  <2>6. ClientOK(c, s, in)
    BY <2>3, <2>4
  <2>7. r.held \in Nat
    BY <1>1 DEF Client
  <2>8. ClientOK(c, report, in)
    BY <2>6, <2>7, ReportKeeps
  <2> HIDE DEF report
  <2>9. CASE r.intention = "completion"
    BY <1>2, <2>5, <2>8, <2>9, QuietStep
  <2>10. CASE r.intention # "completion"
    BY <1>2, <2>5, <2>6, <2>10, QuietStep
  <2> QED  BY <2>9, <2>10
<1> QED  BY <1>4, <1>5

\* The workspace is loaded again.
LEMMA RefreshKeepsInv ==
    ASSUME Inv, NEW c \in Clients, Refresh(c)
    PROVE  Inv'
<1> DEFINE r == clients[c]
           q == [r EXCEPT !.refreshes = @ - 1]
           s == Enqueue(q, Job("sync", NoEdit, FALSE))
<1>1. ClientOK(c, r, inbox[c]) /\ r \in Client /\ ~r.stopped
  BY DEF Inv, ClientOK, Refresh
<1>2. r.refreshes - 1 \in Nat
  <2>1. r.refreshes \in Nat
    BY <1>1 DEF Client
  <2>2. r.refreshes > 0
    BY DEF Refresh
  <2> QED  BY <2>1, <2>2
<1>3. q \in Client /\ SameCore(q, r) /\ SameSeals(q, r) /\ q.drained = r.drained /\ q.out = r.out
      /\ q.doc = r.doc /\ ~q.stopped
  BY <1>1, <1>2 DEF Client, SameCore, SameSeals
<1>4. Become(c, s) /\ UNCHANGED serverVars /\ UNCHANGED inbox
  BY DEF Refresh
<1> HIDE DEF q
<1>5. ClientOK(c, q, inbox[c])
  BY <1>1, <1>3, SameCoreKeeps
<1>6. NoEdit \in Edits
  BY DEF Edits
<1>7. ClientOK(c, s, inbox[c])
  BY <1>3, <1>5, <1>6, EnqueueKeeps
<1> QED  BY <1>4, <1>7, QuietStep

\* The socket breaks; some of what had arrived is still there.
LEMMA BreakKeepsInv ==
    ASSUME Inv, NEW c \in Clients, BreakLink(c)
    PROVE  Inv'
<1> DEFINE r == clients[c]
           in == inbox[c]
           q == Closed(r)
<1>1. ClientOK(c, q, in) /\ q.busy = r.busy /\ in \in Seq(AnyFrame)
  BY ClosedKeeps DEF Inv, ServerOK, IInv, ClientOK
<1>2. clients' = [clients EXCEPT ![c] = q] /\ UNCHANGED serverVars
  BY DEF BreakLink, Become
<1>3. PICK n \in (IF r.busy THEN 1 ELSE 0)..Len(in) : inbox' = [inbox EXCEPT ![c] = SubSeq(in, 1, n)]
  BY DEF BreakLink
<1>4. n \in 0..Len(in) /\ (r.busy => n >= 1)
  BY <1>1
<1> HIDE DEF q
<1>5. ClientOK(c, q, SubSeq(in, 1, n))
  BY <1>1, <1>4, PrefixKeeps
<1> QED  BY <1>2, <1>3, <1>5, OwnStep

-----------------------------------------------------------------------------
(* The encryption chain *)

\* The text at the head of the queue is sealed, or put off.
LEMMA EncryptedKeeps ==
    ASSUME NEW c, NEW r, NEW in, ClientOK(c, r, in), ~r.stopped, r.jobs # <<>>,
           Head(r.jobs).kind = "encrypt", NEW q \in Client, q.jobs = Tail(r.jobs), ClockOK(c, q),
           ToSet(r.pending) \subseteq ToSet(q.pending), ToSet(r.paused) \subseteq ToSet(q.paused),
           Head(r.jobs).edit \in Waits(q),
           q.link = r.link, q.stopped = r.stopped, q.made = r.made, q.busy = r.busy,
           q.post = r.post, q.held = r.held, q.drained = r.drained, q.out = r.out, q.doc = r.doc
    PROVE  ClientOK(c, q, in)
<1>1. r \in Client /\ r.jobs \in Seq(AnyJob)
  BY DEF ClientOK, Client
<1>2. /\ DOMAIN r.jobs = 1..Len(r.jobs) /\ Len(r.jobs) \in Nat \ {0}
      /\ DOMAIN q.jobs = 1..(Len(r.jobs) - 1)
      /\ \A i \in 1..(Len(r.jobs) - 1) : q.jobs[i] = r.jobs[i + 1]
      /\ Head(r.jobs) = r.jobs[1]
  BY <1>1, TailHas
<1>3. \A i \in DOMAIN q.jobs : i + 1 \in DOMAIN r.jobs /\ q.jobs[i] = r.jobs[i + 1]
  BY <1>2
<1>4. \A i \in DOMAIN r.jobs : i # 1 => i - 1 \in DOMAIN q.jobs /\ q.jobs[i - 1] = r.jobs[i]
  <2> SUFFICES ASSUME NEW i \in DOMAIN r.jobs, i # 1
               PROVE  i - 1 \in DOMAIN q.jobs /\ q.jobs[i - 1] = r.jobs[i]
    OBVIOUS
  <2>1. i - 1 \in 1..(Len(r.jobs) - 1) /\ (i - 1) + 1 = i
    BY <1>2
  <2> QED  BY <1>2, <2>1
<1>5. EditOK(c, q)
  <2>1. ASSUME NEW i \in JobsOf(r, "encrypt") PROVE r.jobs[i].edit \in Waits(q)
    <3>1. CASE i = 1
      BY <1>2, <3>1
    <3>2. CASE i # 1
      <4>1. i - 1 \in JobsOf(q, "encrypt") /\ q.jobs[i - 1].edit = r.jobs[i].edit
        BY <1>4, <3>2 DEF JobsOf
      <4> QED  BY <4>1 DEF Waits
    <3> QED  BY <3>1, <3>2
  <2>2. ASSUME NEW i \in DOMAIN r.pending PROVE r.pending[i].edit \in Waits(q)
    <3>1. PICK k \in DOMAIN q.pending : q.pending[k] = r.pending[i]
      BY DEF ToSet
    <3> QED  BY <3>1 DEF Waits
  <2>3. {r.paused[i] : i \in DOMAIN r.paused} \subseteq Waits(q)
    BY DEF Waits, ToSet
  <2>4. Waits(r) \subseteq Waits(q)
    BY <2>1, <2>2, <2>3 DEF Waits
  <2> QED  BY <2>4 DEF ClientOK, EditOK
<1>6. ~q.drained
  BY <1>2 DEF ClientOK, SettledOK, Encrypting, JobsOf
<1>7. SettledOK(q) /\ DrainOK(c, q) /\ HeldOK(q, in) /\ PostOK(q.post)
  BY <1>6 DEF ClientOK, SettledOK, DrainOK, HeldOK
<1>8. ReadsOK(q)
  BY <1>3 DEF ClientOK, ReadsOK
<1>9. AwaitOK(q, in)
  <2>1. \A i, j \in DOMAIN q.jobs : q.jobs[i].awaited /\ q.jobs[j].awaited => i = j
    <3> SUFFICES ASSUME NEW i \in DOMAIN q.jobs, NEW j \in DOMAIN q.jobs,
                        q.jobs[i].awaited, q.jobs[j].awaited
                 PROVE  i = j
      OBVIOUS
    <3>1. i + 1 = j + 1
      BY <1>3 DEF ClientOK, AwaitOK
    <3> QED  BY <1>2, <3>1
  <2> QED  BY <1>3, <2>1 DEF ClientOK, AwaitOK
<1> QED  BY <1>5, <1>7, <1>8, <1>9 DEF ClientOK

\* Under a compaction the text is put off.
LEMMA PutOffKeeps ==
    ASSUME NEW c, NEW r, NEW in, ClientOK(c, r, in), ~r.stopped, r.jobs # <<>>,
           Head(r.jobs).kind = "encrypt"
    PROVE  ClientOK(c, [r EXCEPT !.jobs = Tail(@), !.paused = Append(@, Head(r.jobs).edit)], in)
<1> DEFINE e == Head(r.jobs).edit
           jobs == Tail(r.jobs)
           paused == Append(r.paused, e)
           q == [r EXCEPT !.jobs = jobs, !.paused = paused]
<1>1. r \in Client /\ r.jobs \in Seq(AnyJob) /\ r.paused \in Seq(Edits)
  BY DEF ClientOK, Client
<1>2. Head(r.jobs) \in AnyJob /\ jobs \in Seq(AnyJob)
  BY <1>1, TailHas
<1>3. e \in Edits
  BY <1>2 DEF AnyJob
<1> HIDE DEF e
<1>4. /\ paused \in Seq(Edits)
      /\ ToSet(r.paused) \subseteq ToSet(paused)
      /\ \E i \in DOMAIN paused : paused[i] = e
  <2>1. /\ paused \in Seq(Edits)
        /\ DOMAIN paused = 1..(Len(r.paused) + 1)
        /\ DOMAIN r.paused = 1..Len(r.paused) /\ Len(r.paused) \in Nat
        /\ \A i \in 1..Len(r.paused) : paused[i] = r.paused[i]
        /\ paused[Len(r.paused) + 1] = e
    BY <1>1, <1>3, AppendHas
  <2> HIDE DEF paused
  <2>2. Len(r.paused) + 1 \in DOMAIN paused
    BY <2>1
  <2>3. \A i \in DOMAIN r.paused : i \in DOMAIN paused /\ r.paused[i] = paused[i]
    BY <2>1
  <2> QED  BY <2>1, <2>2, <2>3 DEF ToSet
<1>5. [r EXCEPT !.jobs = Tail(@), !.paused = Append(@, e)] = q
  OBVIOUS
<1> HIDE DEF jobs, paused
<1>6. q \in Client
  BY <1>1, <1>2, <1>4 DEF Client
<1>7. /\ q.jobs = jobs /\ q.paused = paused /\ q.pending = r.pending /\ q.clock = r.clock
      /\ q.link = r.link /\ q.stopped = r.stopped /\ q.made = r.made /\ q.busy = r.busy
      /\ q.post = r.post /\ q.held = r.held /\ q.drained = r.drained /\ q.out = r.out
      /\ q.doc = r.doc /\ q.rotation = r.rotation
  BY <1>1 DEF Client
<1> HIDE DEF q
<1>8. ClockOK(c, q)
  BY <1>7 DEF ClientOK, ClockOK, Own, Sealed, Spent
<1>9. e \in Waits(q)
  BY <1>4, <1>7 DEF Waits
<1>10. ToSet(r.pending) \subseteq ToSet(q.pending) /\ ToSet(r.paused) \subseteq ToSet(q.paused)
  BY <1>4, <1>7
<1>11. ClientOK(c, q, in)
  BY <1>6, <1>7, <1>8, <1>9, <1>10, EncryptedKeeps DEF e, jobs
<1> QED  BY <1>5, <1>11 DEF q, e

\* createPendingDocumentUpdate draws the next clock.
LEMMA SealedKeeps ==
    ASSUME NEW c \in Clients, NEW r, NEW in, ClientOK(c, r, in), ~r.stopped, r.jobs # <<>>,
           Head(r.jobs).kind = "encrypt"
    PROVE  ClientOK(c, Seal([r EXCEPT !.jobs = Tail(@)], c, Head(r.jobs).edit), in)
<1> DEFINE e == Head(r.jobs).edit
           jobs == Tail(r.jobs)
           m == [r EXCEPT !.jobs = jobs]
           x == Envelope(m, c, 1, e)
           pending == Append(r.pending, x)
           k == r.clock + 1
           q == [r EXCEPT !.jobs = jobs, !.clock = k, !.pending = pending]
<1>1. r \in Client /\ r.jobs \in Seq(AnyJob) /\ r.pending \in Seq(SealedText) /\ r.clock \in Nat
  BY DEF ClientOK, Client
<1>2. Head(r.jobs) \in AnyJob /\ jobs \in Seq(AnyJob)
  BY <1>1, TailHas
<1>3. e \in Edits /\ k \in Nat
  BY <1>1, <1>2 DEF AnyJob
<1> HIDE DEF e, jobs
<1>4. m \in Client /\ m.clock = r.clock /\ m.rotation = r.rotation /\ m.pending = r.pending
  BY <1>1, <1>2 DEF Client
<1>5. Seal(m, c, e) = q
  <2>1. Seal(m, c, e) = [m EXCEPT !.clock = @ + 1, !.pending = Append(@, x)]
    BY DEF Seal
  <2>2. [m EXCEPT !.clock = @ + 1, !.pending = Append(@, x)]
        = [m EXCEPT !.clock = k, !.pending = pending]
    BY <1>4
  <2> HIDE DEF x, pending, k
  <2>3. [m EXCEPT !.clock = k, !.pending = pending] = q
    BY <1>1 DEF Client
  <2> QED  BY <2>1, <2>2, <2>3
<1> HIDE DEF m
<1>6. x \in SealedText /\ x.edit = e /\ x.epoch = <<c, r.rotation>> /\ x.clock = k
  BY <1>3, <1>4, EnvelopeIs
<1> HIDE DEF x
<1>7. /\ pending \in Seq(SealedText)
      /\ ToSet(r.pending) \subseteq ToSet(pending)
      /\ ToSet(pending) \subseteq ToSet(r.pending) \cup {x}
      /\ \E i \in DOMAIN pending : pending[i] = x
  <2>1. /\ pending \in Seq(SealedText)
        /\ DOMAIN pending = 1..(Len(r.pending) + 1)
        /\ DOMAIN r.pending = 1..Len(r.pending) /\ Len(r.pending) \in Nat
        /\ \A i \in 1..Len(r.pending) : pending[i] = r.pending[i]
        /\ pending[Len(r.pending) + 1] = x
    BY <1>1, <1>6, AppendHas
  <2> HIDE DEF pending
  <2>2. Len(r.pending) + 1 \in DOMAIN pending
    BY <2>1
  <2>3. \A i \in DOMAIN r.pending : i \in DOMAIN pending /\ r.pending[i] = pending[i]
    BY <2>1
  <2>4. \A i \in DOMAIN pending : (i \in DOMAIN r.pending /\ pending[i] = r.pending[i])
                                  \/ pending[i] = x
    BY <2>1
  <2> QED  BY <2>1, <2>2, <2>3, <2>4 DEF ToSet
<1> HIDE DEF pending
<1>8. q \in Client
  <2> HIDE DEF k
  <2> QED  BY <1>1, <1>2, <1>3, <1>7 DEF Client
<1>9. /\ q.jobs = jobs /\ q.paused = r.paused /\ q.pending = pending /\ q.clock = k
      /\ q.link = r.link /\ q.stopped = r.stopped /\ q.made = r.made /\ q.busy = r.busy
      /\ q.post = r.post /\ q.held = r.held /\ q.drained = r.drained /\ q.out = r.out
      /\ q.doc = r.doc /\ q.rotation = r.rotation
  BY <1>1 DEF Client
<1> HIDE DEF q
<1>10. ClockOK(c, q)
  <2> DEFINE New == {x}
  <2>1. Sealed(q) \subseteq Sealed(r) \cup New
    BY <1>7, <1>9 DEF Sealed
  <2>2. New \in SUBSET SealedText /\ q.clock >= r.clock
    BY <1>1, <1>6, <1>9
  <2>3. \A y \in New : y.epoch = <<c, r.rotation>> /\ y.clock > r.clock /\ y.clock <= q.clock
    BY <1>1, <1>6, <1>9
  <2>4. \A y, z \in New : y.clock = z.clock => y = z
    OBVIOUS
  <2>5. ClockOK(c, r)
    BY DEF ClientOK
  <2> HIDE DEF New
  <2> QED  BY <1>1, <1>8, <1>9, <2>1, <2>2, <2>3, <2>4, <2>5, FreshKeeps
<1>11. e \in Waits(q)
  BY <1>6, <1>7, <1>9 DEF Waits
<1>12. ToSet(r.pending) \subseteq ToSet(q.pending) /\ ToSet(r.paused) \subseteq ToSet(q.paused)
  BY <1>7, <1>9
<1>13. ClientOK(c, q, in)
  BY <1>8, <1>9, <1>10, <1>11, <1>12, EncryptedKeeps DEF e, jobs
<1> QED  BY <1>5, <1>13 DEF e, jobs, m

\* A text is sealed, or put off under a barrier.
LEMMA EncryptKeepsInv ==
    ASSUME Inv, NEW c \in Clients, Encrypt(c)
    PROVE  Inv'
<1> DEFINE r == clients[c]
           in == inbox[c]
           e == Head(r.jobs).edit
           q == [r EXCEPT !.jobs = Tail(@)]
           later == [q EXCEPT !.paused = Append(@, e)]
           now == Flush(Seal(q, c, e))
<1>1. ClientOK(c, r, in) /\ r \in Client /\ r.jobs # <<>> /\ Head(r.jobs).kind = "encrypt"
  BY DEF Inv, ClientOK, Encrypt, HeadJob
<1>2. ~r.stopped
  BY <1>1 DEF ClientOK, AwaitOK
<1>3. ClientOK(c, later, in)
  <2>1. later = [r EXCEPT !.jobs = Tail(@), !.paused = Append(@, Head(r.jobs).edit)]
    BY <1>1 DEF Client
  <2> HIDE DEF later
  <2> QED  BY <1>1, <1>2, <2>1, PutOffKeeps
<1>4. ClientOK(c, now, in)
  BY <1>1, <1>2, SealedKeeps, FlushKeeps
<1> DEFINE s == IF r.held # 0 /\ r.intention = "compaction" THEN later ELSE now
<1>5. Become(c, AcknowledgeBarrierWhenDrained(s)) /\ UNCHANGED serverVars /\ UNCHANGED inbox
  BY DEF Encrypt
<1> HIDE DEF later, now
<1>6. ClientOK(c, s, in)
  BY <1>3, <1>4
<1> HIDE DEF s
<1>7. ClientOK(c, AcknowledgeBarrierWhenDrained(s), in)
  BY <1>6, AcknowledgeKeeps
<1> QED  BY <1>5, <1>7, QuietStep

\* The head job goes on to its next stage.
LEMMA SetJobKeeps ==
    ASSUME NEW c, NEW r, NEW in, ClientOK(c, r, in), r.jobs # <<>>, Head(r.jobs).kind # "encrypt",
           NEW stage \in {"row", "read"}, NEW read \in Copy,
           stage = "row" => RowOK(read), stage = "read" => CopyOK(read)
    PROVE  ClientOK(c, SetJob(r, stage, read), in)
<1> DEFINE job == [Head(r.jobs) EXCEPT !.stage = stage, !.read = read]
           jobs == <<job>> \o Tail(r.jobs)
           q == [r EXCEPT !.jobs = jobs]
<1>1. r \in Client /\ r.jobs \in Seq(AnyJob)
  BY DEF ClientOK, Client
<1>2. /\ Tail(r.jobs) \in Seq(AnyJob) /\ Head(r.jobs) \in AnyJob /\ Head(r.jobs) = r.jobs[1]
      /\ Len(r.jobs) \in Nat \ {0} /\ DOMAIN r.jobs = 1..Len(r.jobs)
      /\ DOMAIN Tail(r.jobs) = 1..(Len(r.jobs) - 1)
      /\ \A i \in 1..(Len(r.jobs) - 1) : Tail(r.jobs)[i] = r.jobs[i + 1]
  BY <1>1, TailHas
<1>3. /\ job \in AnyJob /\ job.kind = Head(r.jobs).kind /\ job.edit = Head(r.jobs).edit
      /\ job.awaited = Head(r.jobs).awaited /\ job.stage = stage /\ job.read = read
  <2> HIDE DEF Edits, Copy
  <2> QED  BY <1>2 DEF AnyJob
<1> HIDE DEF job
<1>4. <<job>> \in Seq(AnyJob) /\ Len(<<job>>) = 1 /\ <<job>>[1] = job
  BY <1>3
<1>5. /\ jobs \in Seq(AnyJob) /\ DOMAIN jobs = 1..(1 + Len(Tail(r.jobs)))
      /\ jobs[1] = job
      /\ \A i \in 1..Len(Tail(r.jobs)) : jobs[1 + i] = Tail(r.jobs)[i]
      /\ DOMAIN Tail(r.jobs) = 1..Len(Tail(r.jobs)) /\ Len(Tail(r.jobs)) \in Nat
  BY <1>2, <1>4, ConcatHas
<1> HIDE DEF jobs
<1>6. DOMAIN jobs = DOMAIN r.jobs
  <2>1. Len(Tail(r.jobs)) = Len(r.jobs) - 1
    BY <1>1
  <2> QED  BY <1>2, <1>5, <2>1
<1>7. \A i \in DOMAIN jobs : (i = 1 /\ jobs[i] = job) \/ (i # 1 /\ jobs[i] = r.jobs[i])
  <2> SUFFICES ASSUME NEW i \in DOMAIN jobs, i # 1 PROVE jobs[i] = r.jobs[i]
    BY <1>5
  <2>1. i - 1 \in 1..Len(Tail(r.jobs)) /\ 1 + (i - 1) = i /\ (i - 1) + 1 = i
    BY <1>5
  <2> QED  BY <1>2, <1>5, <2>1
<1>8. /\ \A i \in DOMAIN r.jobs : /\ jobs[i].kind = r.jobs[i].kind
                                  /\ jobs[i].edit = r.jobs[i].edit
                                  /\ jobs[i].awaited = r.jobs[i].awaited
      /\ \A i \in DOMAIN r.jobs : jobs[i] = r.jobs[i] \/ jobs[i] = job
  BY <1>2, <1>3, <1>6, <1>7
<1>9. q \in Client
  BY <1>1, <1>5 DEF Client
<1>10. /\ q.jobs = jobs /\ q.paused = r.paused /\ q.pending = r.pending /\ q.clock = r.clock
       /\ q.link = r.link /\ q.stopped = r.stopped /\ q.made = r.made /\ q.busy = r.busy
       /\ q.post = r.post /\ q.held = r.held /\ q.drained = r.drained /\ q.out = r.out
       /\ q.doc = r.doc /\ q.rotation = r.rotation
  BY <1>1 DEF Client
<1>11. SetJob(r, stage, read) = q
  BY DEF SetJob, jobs, job
<1> HIDE DEF q
<1>12. ClockOK(c, q)
  BY <1>10 DEF ClientOK, ClockOK, Own, Sealed, Spent
<1>13. JobsOf(q, "encrypt") = JobsOf(r, "encrypt")
  BY <1>6, <1>8, <1>10 DEF JobsOf
<1>14. EditOK(c, q)
  <2>1. Waits(r) \subseteq Waits(q)
    BY <1>8, <1>10, <1>13 DEF Waits, JobsOf
  <2> QED  BY <1>10, <2>1 DEF ClientOK, EditOK
<1>15. SettledOK(q)
  BY <1>10, <1>13 DEF ClientOK, SettledOK, Encrypting
<1>16. DrainOK(c, q) /\ HeldOK(q, in) /\ PostOK(q.post)
  BY <1>10 DEF ClientOK, DrainOK, HeldOK
<1>17. ReadsOK(q)
  <2>1. job.kind # "encrypt"
    BY <1>3
  <2> QED  BY <1>3, <1>6, <1>8, <1>10, <2>1 DEF ClientOK, ReadsOK
<1>18. AwaitOK(q, in)
  <2>1. r.stopped = FALSE
    BY <1>1 DEF ClientOK, AwaitOK, Client
  <2> QED  BY <1>6, <1>8, <1>10, <2>1 DEF ClientOK, AwaitOK
<1>19. ClientOK(c, q, in)
  BY <1>9, <1>12, <1>14, <1>15, <1>16, <1>17, <1>18 DEF ClientOK
<1> QED  BY <1>11, <1>19

\* What is stored, and in which ranges.
LEMMA StoredIs ==
    ASSUME Inv
    PROVE  /\ log \in Seq(SealedText) /\ Len(log) \in Nat /\ DOMAIN log = 1..Len(log)
           /\ Len(log) = currentServerSequence
           /\ snapshot.covered \in Nat /\ snapshot.covered <= Len(log)
           /\ snapshot.id \in Nat /\ snapshot.id <= issued /\ issued \in Nat
           /\ Logged = {log[i].edit : i \in 1..Len(log)}
           /\ Logged \subseteq Edits
           /\ archive = EditsUpTo(snapshot.covered) /\ archive \subseteq Logged
<1>1. log \in Seq(SealedText) /\ Len(log) = currentServerSequence /\ SnapshotHoldsLog
  BY DEF Inv, ServerOK, StoredOK
<1>2. Len(log) \in Nat /\ DOMAIN log = 1..Len(log) /\ \A i \in 1..Len(log) : log[i] \in SealedText
  BY <1>1
<1>3. snapshot.covered \in Nat /\ snapshot.covered <= Len(log) /\ snapshot.id \in Nat
  <2>1. snapshot \in Snapshot /\ snapshot.covered <= currentServerSequence
    BY DEF Inv, ServerOK, LogInv, DocumentTypeOK
  <2>2. SnapshotIds \subseteq Nat /\ 0..MaxSequence \subseteq Nat
    BY DocumentConstants DEF SnapshotIds, InitialSnapshot
  <2> QED  BY <1>1, <2>1, <2>2 DEF Snapshot
<1>4. snapshot.id <= issued /\ issued \in Nat
  BY DEF Inv, ServerOK, RoomOK, IInv, Core, CoreTypeOK
<1>5. Logged = {log[i].edit : i \in 1..Len(log)}
  <2>1. DOMAIN EditsOf(log) = 1..Len(log) /\ \A i \in 1..Len(log) : EditsOf(log)[i] = log[i].edit
    BY <1>2 DEF EditsOf
  <2> HIDE DEF EditsOf
  <2> QED  BY <2>1 DEF Logged, ToSet
<1>6. Logged \subseteq Edits
  <2>1. \A i \in 1..Len(log) : log[i].edit \in Edits
    BY <1>2 DEF SealedText
  <2> QED  BY <1>5, <2>1
<1>7. archive = EditsUpTo(snapshot.covered)
  BY <1>1 DEF SnapshotHoldsLog, EditsUpTo
<1>8. archive \subseteq Logged
  <2>1. \A i \in 1..snapshot.covered : i \in 1..Len(log)
    BY <1>2, <1>3
  <2> QED  BY <1>5, <1>7, <2>1 DEF EditsUpTo
<1> QED  BY <1>1, <1>2, <1>3, <1>4, <1>5, <1>6, <1>7, <1>8

\* bootstrap reads the row.
LEMMA ReadRowKeepsInv ==
    ASSUME Inv, NEW c \in Clients, ReadRow(c)
    PROVE  Inv'
<1> DEFINE r == clients[c]
           read == [sequence |-> currentServerSequence, parent |-> snapshot.id, content |-> archive]
<1>1. ClientOK(c, r, inbox[c]) /\ r.jobs # <<>> /\ Head(r.jobs).kind # "encrypt"
  BY DEF Inv, ReadRow, HeadJob
<1>2. read \in Copy
  BY StoredIs DEF Copy
<1>3. RowOK(read)
  <2>1. read.content = archive /\ read.parent = snapshot.id /\ read.sequence = Len(log)
    BY StoredIs
  <2> HIDE DEF read
  <2> QED  BY <2>1, StoredIs DEF RowOK
<1>4. Become(c, SetJob(r, "row", read)) /\ UNCHANGED serverVars /\ UNCHANGED inbox
  BY DEF ReadRow
<1> HIDE DEF read
<1>5. ClientOK(c, SetJob(r, "row", read), inbox[c])
  BY <1>1, <1>2, <1>3, SetJobKeeps
<1> QED  BY <1>4, <1>5, QuietStep

\* The updates of the active snapshot complete it.
LEMMA ReadRowsKeepsInv ==
    ASSUME Inv, NEW c \in Clients, ReadRows(c)
    PROVE  Inv'
<1> DEFINE r == clients[c]
           read == Head(r.jobs).read
           rows == IF read.parent = snapshot.id THEN {log[u.sequence].edit : u \in updates} ELSE {}
           copy == [read EXCEPT !.content = @ \cup rows]
<1>1. /\ ClientOK(c, r, inbox[c]) /\ r.jobs \in Seq(AnyJob) /\ r.jobs # <<>>
      /\ Head(r.jobs).kind # "encrypt" /\ Head(r.jobs).stage = "row"
  BY DEF Inv, ReadRows, HeadJob, ClientOK, Client
<1>2. Head(r.jobs) \in AnyJob /\ Head(r.jobs) = r.jobs[1] /\ 1 \in DOMAIN r.jobs
  BY <1>1, TailHas
<1>3. read \in Copy /\ RowOK(read)
  BY <1>1, <1>2 DEF AnyJob, ClientOK, ReadsOK
<1>4. read.content \in SUBSET Edits /\ read.sequence \in Nat /\ read.parent \in Nat
  BY <1>3 DEF Copy
<1>5. /\ {u.sequence : u \in updates} = (snapshot.covered + 1)..currentServerSequence
  BY DEF Inv, ServerOK, LogInv, LogIsSound, LogIsGapless
<1>6. {log[u.sequence].edit : u \in updates} = {log[i].edit : i \in (snapshot.covered + 1)..Len(log)}
  <2>1. ASSUME NEW u \in updates PROVE u.sequence \in (snapshot.covered + 1)..Len(log)
    BY <1>5, StoredIs
  <2>2. ASSUME NEW i \in (snapshot.covered + 1)..Len(log) PROVE \E u \in updates : u.sequence = i
    <3>1. i \in {u.sequence : u \in updates}
      BY <1>5, StoredIs
    <3> QED  BY <3>1
  <2> QED  BY <2>1, <2>2
<1>7. rows \subseteq Logged
  <2>1. \A i \in (snapshot.covered + 1)..Len(log) : i \in 1..Len(log)
    BY StoredIs
  <2> QED  BY <1>6, <2>1, StoredIs
<1>8. Become(c, SetJob(r, "read", copy)) /\ UNCHANGED serverVars /\ UNCHANGED inbox
  BY DEF ReadRows
<1> HIDE DEF read
<1>9. copy.content = read.content \cup rows /\ copy.parent = read.parent /\ copy.sequence = read.sequence
  BY <1>3 DEF Copy
<1>10. copy \in Copy
  <2>1. read.content \cup rows \in SUBSET Edits
    BY <1>4, <1>7, StoredIs
  <2> HIDE DEF rows
  <2> QED  BY <1>3, <2>1 DEF Copy
<1>11. ASSUME read.parent = snapshot.id PROVE EditsUpTo(read.sequence) \subseteq copy.content
  <2>1. read.content = archive /\ read.sequence <= Len(log)
    BY <1>3, <1>11 DEF RowOK
  <2>2. rows = {log[i].edit : i \in (snapshot.covered + 1)..Len(log)}
    BY <1>6, <1>11
  <2> HIDE DEF rows, copy
  <2>3. ASSUME NEW i \in 1..read.sequence PROVE log[i].edit \in copy.content
    <3>1. CASE i <= snapshot.covered
      <4>1. i \in 1..snapshot.covered
        BY <1>4, <3>1, StoredIs
      <4>2. log[i].edit \in archive
        BY <4>1, StoredIs DEF EditsUpTo
      <4> QED  BY <1>9, <2>1, <4>2
    <3>2. CASE ~(i <= snapshot.covered)
      <4>1. i \in (snapshot.covered + 1)..Len(log)
        BY <1>4, <2>1, <3>2, StoredIs
      <4> QED  BY <1>9, <2>2, <4>1
    <3> QED  BY <3>1, <3>2
  <2> QED  BY <2>3 DEF EditsUpTo
<1>12. CopyOK(copy)
  <2>1. copy.content \subseteq Logged
    BY <1>3, <1>7, <1>9 DEF RowOK
  <2>2. copy.parent <= snapshot.id /\ copy.sequence <= Len(log)
    BY <1>3, <1>9 DEF RowOK
  <2> HIDE DEF copy
  <2> QED  BY <1>9, <1>11, <2>1, <2>2 DEF CopyOK
<1> HIDE DEF copy
<1>13. ClientOK(c, SetJob(r, "read", copy), inbox[c])
  BY <1>1, <1>10, <1>12, SetJobKeeps
<1> QED  BY <1>8, <1>13, QuietStep

\* The workspace has been read: the chain and the handler that waited go on.
LEMMA ApplyReadKeepsInv ==
    ASSUME Inv, NEW c \in Clients, ApplyRead(c)
    PROVE  Inv'
<1> DEFINE r == clients[c]
           in == inbox[c]
           job == Head(r.jobs)
           recovers == job.kind = "recover"
           q == IF recovers THEN Recover(r, c, job.read) ELSE Synchronize(r, c, job.read)
<1>1. ClientOK(c, r, in) /\ r.jobs # <<>> /\ job.kind \in {"sync", "recover"} /\ job.stage = "read"
  BY DEF Inv, ApplyRead, HeadJob
<1>2. ~r.stopped /\ r.jobs \in Seq(AnyJob)
  BY <1>1 DEF ClientOK, AwaitOK, Client
<1>3. job = r.jobs[1] /\ 1 \in DOMAIN r.jobs
  BY <1>1, <1>2, TailHas
<1>4. recovers => r.rotation < MaxRotations
  BY DEF ApplyRead
<1>5. /\ ClientOK(c, q, in) /\ (job.awaited => NoneAwaited(q))
      /\ q.post = r.post /\ q.stopped = r.stopped /\ q.busy = r.busy
  <2>1. CASE recovers
    BY <1>1, <1>2, <1>4, <2>1, RecoverKeeps
  <2>2. CASE ~recovers
    BY <1>1, <1>2, <2>2, SynchronizeKeeps
  <2> QED  BY <2>1, <2>2
<1>6. ~recovers /\ q.held # 0 => CopyOK(ReadCopy(q))
  BY <1>1, <1>2, SynchronizeKeeps
<1>7. UNCHANGED serverVars /\ IF job.awaited THEN EndHandler(c, Continue(q, Head(in)))
                              ELSE Become(c, q) /\ UNCHANGED inbox
  BY DEF ApplyRead
<1>8. job.awaited => r.busy /\ r.post.step = "none" /\ (recovers => Head(in).type = "rejected")
  BY <1>1, <1>3 DEF ClientOK, AwaitOK
<1> HIDE DEF q
<1>9. CASE ~job.awaited
  BY <1>5, <1>7, <1>9, QuietStep
<1>10. CASE job.awaited
  <2> DEFINE s == Continue(q, Head(in))
  <2>1. q.held # 0 /\ Head(in).type = "ready" => CopyOK(ReadCopy(q))
    BY <1>6, <1>8, <1>10
  <2>2. Core
    BY DEF Inv, ServerOK, IInv
  <2>3. ClientOK(c, s, in) /\ NoneAwaited(s) /\ s.busy
    BY <1>2, <1>5, <1>8, <1>10, <2>1, <2>2, ContinueKeeps
  <2>4. EndHandler(c, s)
    BY <1>7, <1>10
  <2> HIDE DEF s
  <2> QED  BY <1>7, <2>3, <2>4, HandlerStep
<1> QED  BY <1>9, <1>10

\* The snapshot row is gone: the read fails and the socket is closed.
LEMMA ReadFailsKeepsInv ==
    ASSUME Inv, NEW c \in Clients, ReadFails(c)
    PROVE  Inv'
<1> DEFINE r == clients[c]
           in == inbox[c]
           m == Closed(r)
           q == [m EXCEPT !.jobs = Tail(@)]
<1>1. /\ ClientOK(c, r, in) /\ r \in Client /\ r.jobs # <<>>
      /\ Head(r.jobs).kind \in {"sync", "recover"}
  BY DEF Inv, ReadFails, HeadJob, ClientOK
<1>2. ~r.stopped /\ r.jobs \in Seq(AnyJob)
  BY <1>1 DEF ClientOK, AwaitOK, Client
<1>3. Head(r.jobs) = r.jobs[1] /\ 1 \in DOMAIN r.jobs /\ Tail(r.jobs) \in Seq(AnyJob)
  BY <1>1, <1>2, TailHas
<1>4. /\ ClientOK(c, m, in) /\ m.jobs = r.jobs /\ m.post = r.post /\ m.busy = r.busy
      /\ m.stopped = r.stopped
  BY <1>1, ClosedKeeps DEF Inv, ServerOK, IInv
<1>5. UNCHANGED serverVars
      /\ IF Head(r.jobs).awaited THEN EndHandler(c, q) ELSE Become(c, q) /\ UNCHANGED inbox
  BY DEF ReadFails
<1>6. Head(r.jobs).awaited => r.busy
  BY <1>1, <1>3 DEF ClientOK, AwaitOK
<1> HIDE DEF m
<1>7. m \in Client
  BY <1>4 DEF ClientOK
<1>8. q \in Client /\ q.jobs = Tail(m.jobs)
  BY <1>3, <1>4, <1>7 DEF Client
<1>9. /\ q.link = m.link /\ q.stopped = m.stopped /\ q.made = m.made /\ q.busy = m.busy
      /\ q.post = m.post /\ q.paused = m.paused /\ q.held = m.held /\ q.drained = m.drained
      /\ q.pending = m.pending /\ q.out = m.out /\ q.doc = m.doc
      /\ q.rotation = m.rotation /\ q.clock = m.clock
  BY <1>7 DEF Client
<1> HIDE DEF q
<1>10. ClientOK(c, q, in) /\ (Head(r.jobs).awaited => NoneAwaited(q))
  BY <1>1, <1>2, <1>4, <1>8, <1>9, DequeuedKeeps
<1>11. CASE ~Head(r.jobs).awaited
  BY <1>5, <1>10, <1>11, QuietStep
<1>12. CASE Head(r.jobs).awaited
  BY <1>4, <1>5, <1>6, <1>9, <1>10, <1>12, HandlerStep
<1> QED  BY <1>11, <1>12

-----------------------------------------------------------------------------
(* Frames *)

\* What a handled frame is.
LEMMA HeadIs ==
    ASSUME Inv, NEW c \in Clients, Frames(c)
    PROVE  LET r == clients[c]
               in == inbox[c]
           IN /\ ClientOK(c, r, in) /\ r \in Client /\ ~r.busy /\ ~r.stopped
              /\ in \in Seq(AnyFrame) /\ in # <<>> /\ Head(in) \in AnyFrame
              /\ Head(in) = in[1] /\ 1 \in DOMAIN in
<1>1. /\ ClientOK(c, clients[c], inbox[c]) /\ clients[c] \in Client /\ ~clients[c].busy
      /\ ~clients[c].stopped /\ inbox[c] # <<>> /\ inbox[c] \in Seq(AnyFrame)
  BY DEF Inv, Frames
<1> QED  BY <1>1, TailHas

\* The client is let in.
LEMMA AuthenticatedKeepsInv ==
    ASSUME Inv, NEW c \in Clients, ReceiveAuthenticated(c)
    PROVE  Inv'
BY AwaitStep DEF ReceiveAuthenticated, Receives

\* What was acknowledged no longer waits, and is stored.
LEMMA WithoutHas ==
    ASSUME NEW s \in Seq(SealedText), NEW x
    PROVE  /\ Without(s, x) \in Seq(SealedText)
           /\ \A y \in ToSet(Without(s, x)) : y \in ToSet(s)
           /\ \A y \in ToSet(s) : y = x \/ y \in ToSet(Without(s, x))
           /\ s = <<>> => Without(s, x) = <<>>
<1>1. CASE x \notin ToSet(s)
  BY <1>1 DEF Without
<1>2. CASE x \in ToSet(s)
  <2> DEFINE n == CHOOSE i \in DOMAIN s : s[i] = x
             t == [i \in 1..(Len(s) - 1) |-> IF i < n THEN s[i] ELSE s[i + 1]]
  <2>1. \E i \in DOMAIN s : s[i] = x
    BY <1>2 DEF ToSet
  <2>2. n \in DOMAIN s /\ s[n] = x
    BY <2>1
  <2>3. Without(s, x) = RemoveAt(s, n)
    BY <1>2 DEF Without
  <2> HIDE DEF n
  <2>4. Len(s) \in Nat /\ DOMAIN s = 1..Len(s) /\ n \in 1..Len(s) /\ Len(s) - 1 \in Nat
    BY <2>2
  <2>5. \A i \in 1..(Len(s) - 1) : t[i] \in SealedText
    <3> SUFFICES ASSUME NEW i \in 1..(Len(s) - 1) PROVE t[i] \in SealedText
      OBVIOUS
    <3>1. i \in 1..Len(s) /\ i + 1 \in 1..Len(s)
      BY <2>4
    <3> QED  BY <3>1
  <2>6. t \in [1..(Len(s) - 1) -> SealedText]
    BY <2>5
  <2>7. t \in Seq(SealedText) /\ DOMAIN t = 1..(Len(s) - 1)
    BY <2>4, <2>6, FunctionIsSeq
  <2>8. RemoveAt(s, n) = t
    <3> DEFINE a == SubSeq(s, 1, n - 1)
               b == SubSeq(s, n + 1, Len(s))
    <3>1. a \in Seq(SealedText) /\ Len(a) = n - 1 /\ \A i \in 1..(n - 1) : a[i] = s[i]
      BY <2>4
    <3>2. b \in Seq(SealedText) /\ Len(b) = Len(s) - n
          /\ \A i \in 1..(Len(s) - n) : b[i] = s[n + i]
      <4> DEFINE m == n + 1
                 l == Len(s)
      <4>1. m \in Int /\ l \in Int /\ m <= l + 1 /\ l = Len(s) /\ m = n + 1
        BY <2>4
      <4>2. \A i \in m..l : s[i] \in SealedText
        BY <2>4
      <4> HIDE DEF m, l
      <4>3. /\ SubSeq(s, m, l) \in Seq(SealedText)
            /\ Len(SubSeq(s, m, l)) = IF m <= l THEN l - m + 1 ELSE 0
            /\ \A i \in 1..(l - m + 1) : SubSeq(s, m, l)[i] = s[m + i - 1]
        BY <4>1, <4>2, SubSeqProperties
      <4>4. Len(SubSeq(s, m, l)) = l - n
        <5>1. n \in Int /\ n <= l
          BY <2>4, <4>1
        <5>2. CASE m <= l
          BY <4>1, <4>3, <5>1, <5>2
        <5>3. CASE ~(m <= l)
          BY <4>1, <4>3, <5>1, <5>3
        <5> QED  BY <5>2, <5>3
      <4>5. \A i \in 1..(l - n) : SubSeq(s, m, l)[i] = s[n + i]
        <5> SUFFICES ASSUME NEW i \in 1..(l - n) PROVE SubSeq(s, m, l)[i] = s[n + i]
          OBVIOUS
        <5>1. i \in 1..(l - m + 1) /\ m + i - 1 = n + i
          BY <2>4, <4>1
        <5> QED  BY <4>3, <5>1
      <4> QED  BY <4>3, <4>4, <4>5 DEF m, l
    <3>3. RemoveAt(s, n) = a \o b
      BY DEF RemoveAt
    <3> HIDE DEF a, b
    <3>4. a \in Seq(SealedText) /\ b \in Seq(SealedText)
      BY <3>1, <3>2
    <3>5. /\ a \o b \in Seq(SealedText) /\ Len(a \o b) = Len(a) + Len(b)
          /\ \A i \in 1..(Len(a) + Len(b)) :
                (a \o b)[i] = IF i <= Len(a) THEN a[i] ELSE b[i - Len(a)]
      BY <3>4, ConcatProperties
    <3>6. ASSUME NEW i \in 1..(Len(s) - 1) PROVE (a \o b)[i] = t[i]
      <4>1. i \in 1..(Len(a) + Len(b))
        BY <2>4, <3>1, <3>2
      <4>2. CASE i < n
        BY <2>4, <3>1, <3>5, <4>1, <4>2
      <4>3. CASE ~(i < n)
        <5> DEFINE k == i - (n - 1)
        <5>1. k \in 1..(Len(s) - n) /\ n + k = i + 1 /\ ~(i <= n - 1)
          BY <2>4, <4>3
        <5>2. (a \o b)[i] = b[k]
          BY <3>1, <3>5, <4>1, <5>1
        <5> HIDE DEF k
        <5>3. b[k] = s[n + k]
          BY <3>2, <5>1
        <5> QED  BY <4>3, <5>1, <5>2, <5>3
      <4> QED  BY <4>2, <4>3
    <3>7. Len(a \o b) = Len(t) /\ Len(t) = Len(s) - 1
      BY <2>4, <2>6, <3>1, <3>2, <3>5, FunctionIsSeq
    <3> HIDE DEF t
    <3>8. a \o b = t
      BY <2>7, <3>5, <3>6, <3>7, SeqEqual
    <3> QED  BY <3>3, <3>8
  <2> HIDE DEF t
  <2>9. t = [i \in 1..(Len(s) - 1) |-> IF i < n THEN s[i] ELSE s[i + 1]]
    BY DEF t
  <2>10. ASSUME NEW i \in DOMAIN t PROVE \E k \in DOMAIN s : s[k] = t[i]
    <3>1. i \in 1..Len(s) /\ i + 1 \in 1..Len(s)
      BY <2>4, <2>7
    <3> QED  BY <2>4, <2>7, <2>9, <3>1
  <2>11. ASSUME NEW k \in DOMAIN s, s[k] # x PROVE \E i \in DOMAIN t : t[i] = s[k]
    <3>1. CASE k < n
      <4>1. k \in 1..(Len(s) - 1)
        BY <2>4, <3>1
      <4> QED  BY <2>7, <2>9, <3>1, <4>1
    <3>2. CASE ~(k < n)
      <4>1. k # n
        BY <2>2, <2>11
      <4>2. k - 1 \in 1..(Len(s) - 1) /\ ~(k - 1 < n) /\ (k - 1) + 1 = k
        BY <2>4, <3>2, <4>1
      <4> QED  BY <2>7, <2>9, <4>2
    <3> QED  BY <3>1, <3>2
  <2>12. s # <<>>
    BY <2>2
  <2> QED  BY <2>3, <2>7, <2>8, <2>10, <2>11, <2>12 DEF ToSet
<1> QED  BY <1>1, <1>2

\* The acknowledged update no longer waits: it is in the log.
LEMMA AcknowledgedKeeps ==
    ASSUME NEW c, NEW r, NEW in, ClientOK(c, r, in), NEW x, x.edit \in Logged,
           NEW sequence \in Nat
    PROVE  ClientOK(c, [r EXCEPT !.pending = Without(@, x), !.sent = @ \ {x},
                                 !.sequence = sequence], in)
<1> DEFINE pending == Without(r.pending, x)
           sent == r.sent \ {x}
           q == [r EXCEPT !.pending = pending, !.sent = sent, !.sequence = sequence]
<1>1. r \in Client /\ r.pending \in Seq(SealedText)
  BY DEF ClientOK, Client
<1>2. /\ pending \in Seq(SealedText)
      /\ \A y \in ToSet(pending) : y \in ToSet(r.pending)
      /\ \A y \in ToSet(r.pending) : y = x \/ y \in ToSet(pending)
      /\ r.pending = <<>> => pending = <<>>
  BY <1>1, WithoutHas
<1>3. [r EXCEPT !.pending = Without(@, x), !.sent = @ \ {x}, !.sequence = sequence] = q
  OBVIOUS
<1>4. sent \in SUBSET SealedText
  BY <1>1 DEF Client
<1> HIDE DEF pending, sent
<1>5. q \in Client
  BY <1>1, <1>2, <1>4 DEF Client
<1>6. /\ q.link = r.link /\ q.stopped = r.stopped /\ q.made = r.made /\ q.rotation = r.rotation
      /\ q.jobs = r.jobs /\ q.busy = r.busy /\ q.post = r.post /\ q.paused = r.paused
      /\ q.held = r.held /\ q.drained = r.drained /\ q.clock = r.clock
      /\ q.pending = pending /\ q.doc = r.doc /\ q.out = r.out
  BY <1>1 DEF Client
<1> HIDE DEF q
<1>7. ClockOK(c, q)
  <2>1. Sealed(q) \subseteq Sealed(r)
    BY <1>2, <1>6 DEF Sealed
  <2> QED  BY <1>6, <2>1 DEF ClientOK, ClockOK, Own, Spent
<1>8. EditOK(c, q)
  <2>1. ASSUME NEW e \in Waits(r) PROVE e \in Logged \cup Waits(q)
    <3>1. CASE \E i \in DOMAIN r.pending : e = r.pending[i].edit
      <4>1. PICK i \in DOMAIN r.pending : e = r.pending[i].edit
        BY <3>1
      <4>2. CASE r.pending[i] = x
        BY <4>1, <4>2
      <4>3. CASE r.pending[i] # x
        <5>1. \E k \in DOMAIN pending : pending[k] = r.pending[i]
          BY <1>2, <4>3 DEF ToSet
        <5> QED  BY <1>6, <4>1, <5>1 DEF Waits
      <4> QED  BY <4>2, <4>3
    <3>2. CASE ~\E i \in DOMAIN r.pending : e = r.pending[i].edit
      BY <1>6, <2>1, <3>2 DEF Waits, JobsOf
    <3> QED  BY <3>1, <3>2
  <2> QED  BY <1>6, <2>1 DEF ClientOK, EditOK
<1>9. SettledOK(q)
  BY <1>2, <1>6 DEF ClientOK, SettledOK, Encrypting, JobsOf
<1>10. DrainOK(c, q)
  BY <1>6 DEF ClientOK, DrainOK
<1>11. HeldOK(q, in) /\ ReadsOK(q) /\ PostOK(q.post) /\ AwaitOK(q, in)
  BY <1>6 DEF ClientOK, HeldOK, ReadsOK, AwaitOK
<1>12. ClientOK(c, q, in)
  BY <1>5, <1>6, <1>7, <1>8, <1>9, <1>10, <1>11 DEF ClientOK
<1> QED  BY <1>3, <1>12

\* An update of the client is acknowledged.
LEMMA AcknowledgedKeepsInv ==
    ASSUME Inv, NEW c \in Clients, ReceiveAcknowledged(c)
    PROVE  Inv'
<1> DEFINE r == clients[c]
           in == inbox[c]
           frame == Head(in)
           x == frame.envelope
           m == [r EXCEPT !.pending = Without(@, x), !.sent = @ \ {x},
                          !.sequence = frame.sequence]
           q == AcknowledgeBarrierWhenDrained(Flush(m))
           s == IF q.held = 0 /\ frame.sequence % r.interval = 0 /\ ~q.compacting
                THEN RequestCompaction(q, frame.sequence) ELSE q
<1>1. Frames(c) /\ frame.type = "acknowledged"
  BY DEF ReceiveAcknowledged, Receives
<1>2. /\ ClientOK(c, r, in) /\ r \in Client /\ ~r.busy /\ in # <<>>
      /\ frame \in AnyFrame /\ frame = in[1] /\ 1 \in DOMAIN in
  BY <1>1, HeadIs
<1>3. x.edit \in Logged /\ frame.sequence \in Nat
  BY <1>1, <1>2 DEF ClientOK, InboxOK, AnyFrame
<1>4. Become(c, s) /\ Pop(c) /\ UNCHANGED serverVars
  BY DEF ReceiveAcknowledged
<1>5. m.busy = r.busy
  BY <1>2 DEF Client
<1>6. ClientOK(c, m, in)
  BY <1>2, <1>3, AcknowledgedKeeps
<1> HIDE DEF m
<1>7. ClientOK(c, Flush(m), in) /\ Flush(m).busy = r.busy
  BY <1>5, <1>6, FlushKeeps DEF SameCore
<1>8. ClientOK(c, q, in) /\ q.busy = r.busy
  BY <1>7, AcknowledgeKeeps DEF SameCore
<1> HIDE DEF q
<1>9. ClientOK(c, RequestCompaction(q, frame.sequence), in)
      /\ RequestCompaction(q, frame.sequence).busy = q.busy
  BY <1>3, <1>8, RequestKeeps
<1>10. ClientOK(c, s, in) /\ ~s.busy
  BY <1>2, <1>8, <1>9
<1> HIDE DEF s
<1> QED  BY <1>2, <1>4, <1>10, PoppingStep

\* applyRemoteUpdate
LEMMA UpdateKeepsInv ==
    ASSUME Inv, NEW c \in Clients, ReceiveUpdate(c)
    PROVE  Inv'
<1> DEFINE r == clients[c]
           in == inbox[c]
           frame == Head(in)
           e == frame.envelope.edit
           doc == r.doc \cup {e}
           mirror == IF r.held # 0 THEN r.mirror \cup {e} ELSE r.mirror
           q == [r EXCEPT !.doc = doc, !.sequence = frame.sequence, !.mirror = mirror]
           report == Send(r, Frame("failed", r.held, 0, NoEnvelope, ""))
<1>1. Frames(c) /\ frame.type = "update" /\ UNCHANGED serverVars
  BY DEF ReceiveUpdate, Receives
<1>2. ClientOK(c, r, in) /\ r \in Client /\ ~r.busy /\ in # <<>> /\ frame \in AnyFrame
  BY <1>1, HeadIs
<1>3. e \in Edits /\ frame.sequence \in Nat
  BY <1>2 DEF AnyFrame, SealedText, NoEnvelope, Edits
<1>4. frame.sequence \in Nat /\ r.sequence \in Nat /\ r.held \in Nat
  BY <1>2, <1>3 DEF Client
<1>5. CASE Become(c, r) /\ Pop(c)
  BY <1>1, <1>2, <1>5, PoppingStep
<1>6. CASE Become(c, q) /\ Pop(c)
  <2>1. doc \in SUBSET Edits /\ mirror \in SUBSET Edits
    BY <1>2, <1>3 DEF Client
  <2> HIDE DEF doc, mirror
  <2>2. q \in Client /\ SameCore(q, r) /\ SameSeals(q, r) /\ q.drained = r.drained
        /\ q.out = r.out /\ q.doc = doc
    BY <1>2, <1>3, <2>1 DEF Client, SameCore, SameSeals
  <2>3. r.doc \subseteq q.doc
    BY <2>2 DEF doc
  <2> HIDE DEF q
  <2>4. ClientOK(c, q, in) /\ ~q.busy
    BY <1>2, <2>2, <2>3, SameCoreKeeps DEF SameCore
  <2> QED  BY <1>1, <1>2, <1>6, <2>4, PoppingStep
<1>7. CASE Become(c, report) /\ Pop(c)
  <2>1. ClientOK(c, report, in) /\ SameCore(report, r)
    BY <1>2, <1>4, ReportKeeps
  <2> HIDE DEF report
  <2> QED  BY <1>1, <1>2, <1>7, <2>1, PoppingStep DEF SameCore
<1>8. CASE Await(c, "sync")
  BY <1>1, <1>8, AwaitStep
<1>9. [r EXCEPT !.doc = @ \cup {e}, !.sequence = frame.sequence,
                !.mirror = IF r.held # 0 THEN @ \cup {e} ELSE @] = q
  OBVIOUS
<1>10. frame.sequence <= r.sequence \/ frame.sequence = r.sequence + 1
       \/ ~(frame.sequence <= r.sequence \/ frame.sequence = r.sequence + 1)
  OBVIOUS
<1>11. \/ Become(c, r) /\ Pop(c)
       \/ Become(c, q) /\ Pop(c)
       \/ Become(c, report) /\ Pop(c)
       \/ Await(c, "sync")
  <2> HIDE DEF q, report
  <2>1. CASE frame.sequence <= r.sequence
    <3>1. frame.sequence # r.sequence + 1
      BY <1>4, <2>1
    <3> QED  BY <2>1, <3>1 DEF ReceiveUpdate
  <2>2. CASE frame.sequence = r.sequence + 1
    <3>1. ~(frame.sequence <= r.sequence)
      BY <1>4, <2>2
    <3> QED  BY <1>9, <2>2, <3>1 DEF ReceiveUpdate
  <2>3. CASE ~(frame.sequence <= r.sequence \/ frame.sequence = r.sequence + 1)
    BY <2>3 DEF ReceiveUpdate, report
  <2> QED  BY <2>1, <2>2, <2>3
<1> QED  BY <1>5, <1>6, <1>7, <1>8, <1>11

\* A round begins.
LEMMA BarrierKeepsInv ==
    ASSUME Inv, NEW c \in Clients, ReceiveBarrier(c)
    PROVE  Inv'
<1> DEFINE r == clients[c]
           in == inbox[c]
           frame == Head(in)
           q == StartBarrier(r, frame.id, frame.code)
<1>1. Frames(c) /\ frame.type = "barrier" /\ UNCHANGED serverVars /\ Become(c, q) /\ Pop(c)
  BY DEF ReceiveBarrier, Receives
<1>2. /\ ClientOK(c, r, in) /\ r \in Client /\ ~r.busy /\ in # <<>> /\ in \in Seq(AnyFrame)
      /\ frame \in AnyFrame /\ frame = in[1] /\ 1 \in DOMAIN in
  BY <1>1, HeadIs
<1>3. frame.id <= issued /\ frame.id \in Nat /\ frame.code \in Codes
  BY <1>1, <1>2 DEF ClientOK, InboxOK, AnyFrame
<1>4. ASSUME NEW k \in DOMAIN in, in[k].type = "authenticated", Live(frame.id)
      PROVE  in[k].id = frame.id
  <2>1. k # 1
    BY <1>1, <1>2, <1>4
  <2>2. k \in Nat /\ k >= 1
    BY <1>2
  <2>3. 1 \in 1..(k - 1)
    BY <2>1, <2>2
  <2> QED  BY <1>1, <1>2, <1>4, <2>3 DEF ClientOK, InboxOK
<1>5. Core
  BY DEF Inv, ServerOK, IInv
<1>6. ClientOK(c, q, in)
  BY <1>2, <1>3, <1>4, <1>5, StartKeeps
<1>7. ~q.busy
  <2> DEFINE b == Begun(r, frame.id, frame.code)
  <2>1. CASE q = r
    BY <1>2, <2>1
  <2>2. CASE r.held = 0
    <3>1. ClientOK(c, b, in)
      BY <1>2, <1>3, <1>4, <1>5, <2>2, BegunKeeps
    <3>2. ~b.busy
      BY <1>2 DEF Begun, Client
    <3>3. q = b \/ q = AcknowledgeBarrierWhenDrained(b)
      BY <2>2 DEF StartBarrier, Begun
    <3> HIDE DEF b, q
    <3> QED  BY <3>1, <3>2, <3>3, AcknowledgeKeeps DEF SameCore
  <2> QED  BY <2>1, <2>2 DEF StartBarrier
<1> HIDE DEF q
<1> QED  BY <1>1, <1>2, <1>6, <1>7, PoppingStep

\* The sequence is known, or the compactor may begin.
LEMMA RoundKeepsInv ==
    ASSUME Inv, NEW c \in Clients, ReceiveRound(c)
    PROVE  Inv'
<1> DEFINE r == clients[c]
           in == inbox[c]
<1>1. /\ Frames(c) /\ UNCHANGED serverVars /\ Head(in).type \in {"sequence", "ready"}
      /\ IF r.held = Head(in).id /\ r.drained THEN Await(c, "sync") ELSE Become(c, r) /\ Pop(c)
  BY DEF ReceiveRound, Receives
<1>2. ClientOK(c, r, in) /\ r \in Client /\ ~r.busy /\ in # <<>>
  BY <1>1, HeadIs
<1>3. CASE r.drained /\ Await(c, "sync")
  <2>1. r.held # 0
    BY <1>2, <1>3 DEF ClientOK, SettledOK
  <2> QED  BY <1>1, <1>3, <2>1, AwaitStep
<1>4. CASE Become(c, r) /\ Pop(c)
  BY <1>1, <1>2, <1>4, PoppingStep
<1> QED  BY <1>1, <1>3, <1>4

\* A round is over.
LEMMA ReleasedKeepsInv ==
    ASSUME Inv, NEW c \in Clients, ReceiveReleased(c)
    PROVE  Inv'
<1> DEFINE r == clients[c]
           in == inbox[c]
           frame == Head(in)
           q == ReleaseBarrier(r)
<1>1. Frames(c) /\ frame.type = "released" /\ UNCHANGED serverVars
  BY DEF ReceiveReleased, Receives
<1>2. /\ ClientOK(c, r, in) /\ r \in Client /\ ~r.busy /\ ~r.stopped /\ in # <<>>
      /\ frame \in AnyFrame /\ frame = in[1] /\ 1 \in DOMAIN in
  BY <1>1, HeadIs
<1>3. ~Live(frame.id) /\ Core
  BY <1>1, <1>2 DEF ClientOK, InboxOK, Inv, ServerOK, IInv
<1>4. CASE Become(c, r) /\ Pop(c)
  BY <1>1, <1>2, <1>4, PoppingStep
<1>5. CASE Stop(c)
  BY <1>1, <1>5, StopStep
<1>6. CASE r.held = frame.id /\ Await(c, "sync")
  BY <1>1, <1>3, <1>6, AwaitStep
<1>7. CASE r.held = frame.id /\ Become(c, q) /\ Pop(c)
  <2>1. ClientOK(c, q, in) /\ q.busy = r.busy
    BY <1>2, <1>3, <1>7, ReleaseKeeps
  <2> HIDE DEF q
  <2> QED  BY <1>1, <1>2, <1>7, <2>1, PoppingStep
<1>8. \/ Become(c, r) /\ Pop(c)
      \/ Stop(c)
      \/ r.held = frame.id /\ Await(c, "sync")
      \/ r.held = frame.id /\ Become(c, q) /\ Pop(c)
  <2>1. frame.code \in {"completed", "compacted", "aborted"}
    BY <1>1, <1>2 DEF ClientOK, InboxOK, Outcomes
  <2> QED  BY <2>1 DEF ReceiveReleased
<1> QED  BY <1>4, <1>5, <1>6, <1>7, <1>8

\* A frame of the client was refused.
LEMMA RejectedKeepsInv ==
    ASSUME Inv, NEW c \in Clients, ReceiveRejected(c)
    PROVE  Inv'
<1> DEFINE r == clients[c]
           in == inbox[c]
           q == [r EXCEPT !.compacting = FALSE, !.retry = r.trigger]
           s == [r EXCEPT !.compacting = FALSE, !.trigger = 0]
<1>1. Frames(c) /\ Head(in).type = "rejected" /\ UNCHANGED serverVars
  BY DEF ReceiveRejected, Receives
<1>2. ClientOK(c, r, in) /\ r \in Client /\ ~r.busy /\ in # <<>>
  BY <1>1, HeadIs
<1>3. \/ Become(c, q) /\ Pop(c)
      \/ Become(c, s) /\ Pop(c)
      \/ Await(c, "recover")
      \/ Stop(c)
  BY DEF ReceiveRejected
<1>4. q \in Client /\ SameCore(q, r) /\ SameSeals(q, r) /\ q.drained = r.drained /\ q.out = r.out
      /\ q.doc = r.doc
  BY <1>2 DEF Client, SameCore, SameSeals
<1>5. s \in Client /\ SameCore(s, r) /\ SameSeals(s, r) /\ s.drained = r.drained /\ s.out = r.out
      /\ s.doc = r.doc
  BY <1>2 DEF Client, SameCore, SameSeals
<1> HIDE DEF q, s
<1>6. ClientOK(c, q, in) /\ ~q.busy
  BY <1>2, <1>4, SameCoreKeeps DEF SameCore
<1>7. ClientOK(c, s, in) /\ ~s.busy
  BY <1>2, <1>5, SameCoreKeeps DEF SameCore
<1>8. CASE Become(c, q) /\ Pop(c)
  BY <1>1, <1>2, <1>6, <1>8, PoppingStep
<1>9. CASE Become(c, s) /\ Pop(c)
  BY <1>1, <1>2, <1>7, <1>9, PoppingStep
<1>10. CASE Await(c, "recover")
  BY <1>1, <1>10, AwaitStep
<1>11. CASE Stop(c)
  BY <1>1, <1>11, StopStep
<1> QED  BY <1>3, <1>8, <1>9, <1>10, <1>11

\* The timer asks for the compaction again.
LEMMA RetryKeepsInv ==
    ASSUME Inv, NEW c \in Clients, RetryCompaction(c)
    PROVE  Inv'
<1> DEFINE r == clients[c]
           q == [r EXCEPT !.retry = 0]
           s == RequestCompaction(q, r.retry)
<1>1. ClientOK(c, r, inbox[c]) /\ r \in Client
  BY DEF Inv, ClientOK
<1>2. q \in Client /\ SameCore(q, r) /\ SameSeals(q, r) /\ q.drained = r.drained /\ q.out = r.out
      /\ q.doc = r.doc /\ r.retry \in Nat
  BY <1>1 DEF Client, SameCore, SameSeals
<1>3. UNCHANGED serverVars /\ UNCHANGED inbox /\ (Become(c, q) \/ Become(c, s))
  BY DEF RetryCompaction
<1> HIDE DEF q
<1>4. ClientOK(c, q, inbox[c])
  BY <1>1, <1>2, SameCoreKeeps
<1>5. ClientOK(c, s, inbox[c])
  BY <1>2, <1>4, RequestKeeps
<1> HIDE DEF s
<1> QED  BY <1>3, <1>4, <1>5, QuietStep

\* The answer to the snapshot: the replica takes it over, or the round is given up.
LEMMA AnsweredKeeps ==
    ASSUME NEW c, NEW r, NEW in, ClientOK(c, r, in)
    PROVE  ClientOK(c, [r EXCEPT !.post = NoPost], in)
<1> DEFINE q == [r EXCEPT !.post = NoPost]
<1>1. r \in Client
  BY DEF ClientOK
<1>2. NoPost \in AnyPost
  BY DEF NoPost, AnyPost
<1>3. NoPost.step = "none"
  BY DEF NoPost
<1>4. q \in Client
  BY <1>1, <1>2 DEF Client
<1>5. /\ q.link = r.link /\ q.stopped = r.stopped /\ q.made = r.made /\ q.rotation = r.rotation
      /\ q.jobs = r.jobs /\ q.busy = r.busy /\ q.post = NoPost /\ q.paused = r.paused
      /\ q.held = r.held /\ q.drained = r.drained /\ q.clock = r.clock
      /\ q.pending = r.pending /\ q.doc = r.doc /\ q.out = r.out
  BY <1>1 DEF Client
<1> HIDE DEF q
<1>6. ClockOK(c, q)
  BY <1>5 DEF ClientOK, ClockOK, Own, Sealed, Spent
<1>7. EditOK(c, q)
  <2>1. Waits(q) = Waits(r)
    BY <1>5 DEF Waits, JobsOf
  <2> QED  BY <1>5, <2>1 DEF ClientOK, EditOK
<1>8. SettledOK(q) /\ DrainOK(c, q)
  BY <1>5 DEF ClientOK, SettledOK, Encrypting, JobsOf, DrainOK
<1>9. HeldOK(q, in) /\ ReadsOK(q)
  BY <1>5 DEF ClientOK, HeldOK, ReadsOK
<1>10. PostOK(q.post) /\ AwaitOK(q, in)
  BY <1>3, <1>5 DEF ClientOK, PostOK, AwaitOK
<1> QED  BY <1>4, <1>6, <1>7, <1>8, <1>9, <1>10 DEF ClientOK, q

\* The request of a replacement is answered.
LEMMA AnsweredKeepsInv ==
    ASSUME Inv, NEW c \in Clients, ReplacementAnswered(c)
    PROVE  Inv'
<1> DEFINE r == clients[c]
           in == inbox[c]
           q == [r EXCEPT !.post = NoPost]
           done == [q EXCEPT !.doc = @ \cup r.post.content, !.parent = r.post.id]
           fails == Send(q, Frame("failed", r.post.id, 0, NoEnvelope, ""))
<1>1. ClientOK(c, r, in) /\ r \in Client /\ r.post.step \in {"stored", "refused"}
  BY DEF Inv, ClientOK, ReplacementAnswered
<1>2. r.post \in AnyPost
  BY <1>1 DEF Client
<1>3. r.post.id \in Nat /\ r.post.content \in SUBSET Edits
  BY <1>2 DEF AnyPost
<1>4. UNCHANGED serverVars
  BY DEF ReplacementAnswered
<1>5. \/ r.stopped /\ Become(c, q) /\ UNCHANGED inbox
      \/ ~r.stopped /\ EndHandler(c, done)
      \/ ~r.stopped /\ EndHandler(c, fails)
  BY DEF ReplacementAnswered
<1>6. ClientOK(c, q, in)
  BY <1>1, AnsweredKeeps
<1>7. /\ q \in Client /\ q.busy = r.busy /\ q.stopped = r.stopped /\ q.jobs = r.jobs
      /\ q.doc = r.doc /\ q.post = NoPost
  BY <1>1, <1>6 DEF Client, ClientOK
<1>8. CASE r.stopped /\ Become(c, q) /\ UNCHANGED inbox
  BY <1>4, <1>6, <1>8, QuietStep
<1>9. ASSUME ~r.stopped PROVE r.busy /\ NoneAwaited(q)
  BY <1>1, <1>7, <1>9 DEF ClientOK, AwaitOK, NoneAwaited
<1> HIDE DEF q
<1>10. ClientOK(c, done, in) /\ done.busy = q.busy /\ done.jobs = q.jobs
  <2>1. r.doc \cup r.post.content \in SUBSET Edits
    BY <1>1, <1>3 DEF Client
  <2>2. done \in Client /\ SameCore(done, q) /\ SameSeals(done, q) /\ done.drained = q.drained
        /\ done.out = q.out /\ done.doc = q.doc \cup r.post.content
    BY <1>3, <1>7, <2>1 DEF Client, SameCore, SameSeals
  <2>3. q.doc \subseteq done.doc
    BY <2>2
  <2> HIDE DEF done
  <2> QED  BY <1>6, <2>2, <2>3, SameCoreKeeps DEF SameCore
<1>11. ClientOK(c, fails, in) /\ SameCore(fails, q)
  BY <1>3, <1>6, ReportKeeps
<1> HIDE DEF done, fails
<1>12. CASE ~r.stopped /\ EndHandler(c, done)
  BY <1>4, <1>7, <1>9, <1>10, <1>12, HandlerStep DEF NoneAwaited
<1>13. CASE ~r.stopped /\ EndHandler(c, fails)
  BY <1>4, <1>7, <1>9, <1>11, <1>13, HandlerStep DEF NoneAwaited, SameCore
<1> QED  BY <1>5, <1>8, <1>12, <1>13

-----------------------------------------------------------------------------
(* What the methods of the coordinator do to the barrier *)

\* The barrier stays, goes with an outcome, or is the next one; P may drain
\* for it and Q enter.
BarrierStays(P) ==
    /\ barrier'.id = barrier.id /\ issued' = issued /\ released' = released
    /\ Open' = Open
    /\ barrier.phase = "committing" => barrier'.phase = "committing"
    /\ barrier'.drained \subseteq barrier.drained \cup P
BarrierGoes ==
    /\ barrier' = NoBarrier /\ issued' = issued
    /\ \E o \in Outcomes \ {"none"} : released' = [released EXCEPT ![barrier.id] = o]
BarrierComes ==
    /\ ~Open
    /\ barrier'.id = issued + 1 /\ issued' = issued + 1 /\ released' = released
    /\ barrier'.drained = {}
Moved(P, Q) ==
    /\ IInv'
    /\ barrier'.participants \cup connections' \subseteq barrier.participants \cup connections \cup Q
    /\ BarrierStays(P) \/ BarrierGoes \/ BarrierComes

\* What IInv says of the barrier.
LEMMA BarrierIs ==
    ASSUME IInv
    PROVE  /\ Core /\ barrier \in Barrier /\ issued \in Nat
           /\ Open => barrier.id \in BarrierIds
           /\ ~Open => barrier = NoBarrier
           /\ connections \subseteq Connections /\ captures \subseteq Capture
  BY CoordinatorConstants
  DEF CoordinatorConstants, IInv, Core, CoreTypeOK, GoodBarrier, Open, RestTypeOK

\* Nothing moves.
LEMMA StillMoves ==
    ASSUME IInv, UNCHANGED coordinatorVars
    PROVE  Moved({}, {})
<1>1. IInv'
  BY NextPreservesIInv
<1> QED  BY <1>1 DEF coordinatorVars, Moved, BarrierStays, Open

\* The barrier is kept, whatever else a method does.
LEMMA KeptMoves ==
    ASSUME IInv', KeepBarrier, UNCHANGED issued, connections' \subseteq connections
    PROVE  Moved({}, {})
  BY DEF KeepBarrier, Moved, BarrierStays, Open

\* abort leaves a committing round alone, and ends every other one.
LEMMA AbortedMoves ==
    ASSUME IInv, IInv', Open, AbortBarrier, UNCHANGED issued, connections' \subseteq connections
    PROVE  Moved({}, {})
<1>1. barrier \in Barrier
  BY BarrierIs
<1>2. CASE barrier.phase = "committing"
  BY <1>1, <1>2 DEF AbortBarrier, Moved, BarrierStays, Open, Barrier
<1>3. CASE barrier.phase # "committing"
  BY <1>3 DEF AbortBarrier, Release, Moved, BarrierGoes, NoBarrier, Outcomes
<1> QED  BY <1>2, <1>3

\* A round ends.
LEMMA ReleasedMoves ==
    ASSUME IInv', NEW o \in Outcomes \ {"none"}, Release(o), UNCHANGED issued,
           connections' \subseteq connections
    PROVE  Moved({}, {})
  BY DEF Release, Moved, BarrierGoes, NoBarrier

\* A round goes on.
LEMMA StoredMoves ==
    ASSUME IInv, IInv', Open, NEW P, NEW b, b \in Barrier, b.id = barrier.id,
           b.phase = barrier.phase, b.participants = barrier.participants,
           b.drained \subseteq barrier.drained \cup P, barrier.phase # "committing",
           StartCapture(b) \/ ClaimCompletion(b),
           UNCHANGED <<issued, released, connections>>
    PROVE  Moved(P, {})
<1>1. \/ barrier' = b
      \/ barrier' = [b EXCEPT !.phase = "confirming"]
      \/ barrier' = [b EXCEPT !.phase = "finalizing"]
  BY DEF StartCapture, ClaimCompletion
<1>2. /\ barrier'.id = barrier.id /\ barrier'.participants = barrier.participants
      /\ barrier'.drained = b.drained /\ barrier'.phase # "none"
  BY <1>1 DEF Barrier, Open
<1> QED  BY <1>2 DEF Moved, BarrierStays, Open

\* A client drains for the round it names.
LEMMA DrainedMoves ==
    ASSUME IInv, NEW id, NEW p \in Connections, Acknowledge(id, p) \/ CompletionDrained(id, p)
    PROVE  Moved({p}, {}) /\ Live(id) /\ barrier'.id = id
<1>1. /\ Core /\ barrier \in Barrier /\ CanAcknowledge(id, p)
      /\ UNCHANGED <<issued, released, connections>>
  BY BarrierIs DEF Acknowledge, CompletionDrained
<1>2. Open /\ Live(id) /\ id \in BarrierIds
  BY <1>1, BarrierIs DEF CanAcknowledge, Live, Open
<1>3. IInv'
  BY <1>2, NextPreservesIInv DEF CoordinatorNext
<1>4. /\ Drained(p) \in Barrier /\ Drained(p).id = barrier.id /\ Drained(p).phase = barrier.phase
      /\ Drained(p).participants = barrier.participants
      /\ Drained(p).drained = barrier.drained \cup {p}
  BY <1>1 DEF Drained, Barrier, CanAcknowledge
<1>5. barrier.phase # "committing"
  BY <1>1 DEF CanAcknowledge
<1>6. CASE Acknowledge(id, p)
  <2>1. barrier' = Drained(p)
    BY <1>6 DEF Acknowledge
  <2> QED  BY <1>1, <1>2, <1>3, <1>4, <1>5, <2>1 DEF Moved, BarrierStays, Open, Live
<1>7. CASE CompletionDrained(id, p)
  <2>1. StartCapture(Drained(p))
    BY <1>7 DEF CompletionDrained
  <2>2. Moved({p}, {})
    BY <1>1, <1>2, <1>3, <1>4, <1>5, <2>1, StoredMoves
  <2>3. barrier'.id = id
    BY <1>1, <1>2, <1>4, <2>1 DEF StartCapture, Live, Barrier
  <2> QED  BY <1>2, <2>2, <2>3
<1> QED  BY <1>6, <1>7

\* A client confirms the sequence.
LEMMA ConfirmedMoves ==
    ASSUME IInv, NEW p \in Connections, NEW id, NEW s \in Nat, ConfirmCompletion(id, p, s)
    PROVE  Moved({}, {})
<1> DEFINE b == [barrier EXCEPT !.confirmed = @ \cup {p}]
<1>1. /\ barrier \in Barrier /\ Open /\ barrier.phase = "confirming" /\ barrier.id = id
      /\ barrier.serverSequence = s /\ UNCHANGED <<issued, released, connections>>
      /\ ClaimCompletion(b)
  BY BarrierIs DEF ConfirmCompletion, Open
<1>2. IInv'
  <2>1. id \in BarrierIds
    BY <1>1, BarrierIs
  <2>2. s \in Sequences
    BY <1>1 DEF Barrier, NoSequence
  <2> QED  BY <2>1, <2>2, NextPreservesIInv DEF CoordinatorNext
<1>3. /\ b \in Barrier /\ b.id = barrier.id /\ b.phase = barrier.phase
      /\ b.participants = barrier.participants /\ b.drained = barrier.drained
  BY <1>1 DEF Barrier
<1> HIDE DEF b
<1> QED  BY <1>1, <1>2, <1>3, StoredMoves

\* The compactor may begin, or the round ends for want of it.
LEMMA ReadyMoves ==
    ASSUME IInv, NEW s \in Sequences, NEW there \in BOOLEAN, Ready(barrier.id, s, there)
    PROVE  Moved({}, {})
<1>1. /\ barrier \in Barrier /\ Open /\ barrier.id \in BarrierIds /\ barrier.phase = "draining"
      /\ UNCHANGED <<issued, connections>>
  BY BarrierIs DEF Ready, Open
<1>2. IInv'
  BY <1>1, NextPreservesIInv DEF CoordinatorNext
<1>3. CASE there
  BY <1>1, <1>2, <1>3 DEF Ready, Moved, BarrierStays, Open, Barrier
<1>4. CASE ~there
  BY <1>1, <1>2, <1>4, ReleasedMoves DEF Ready, Outcomes
<1> QED  BY <1>3, <1>4

\* A commit begins.
LEMMA ClaimedMoves ==
    ASSUME IInv, NEW u \in Users, Claim(u) \/ ClaimCompletionSubmission(u)
    PROVE  Moved({}, {}) /\ barrier'.id = barrier.id /\ barrier'.phase = "committing"
<1>1. /\ barrier \in Barrier /\ Open /\ barrier.phase \in {"ready", "finalizing"}
      /\ barrier' = [barrier EXCEPT !.phase = "committing"]
      /\ UNCHANGED <<issued, connections, released>>
  BY BarrierIs DEF Claim, ClaimCompletionSubmission, Open
<1>2. IInv'
  BY NextPreservesIInv DEF CoordinatorNext
<1> QED  BY <1>1, <1>2 DEF Moved, BarrierStays, Open, Barrier

\* complete and fail.
LEMMA FinishedMoves ==
    ASSUME IInv, NEW id \in BarrierIds, Claimed(id), Complete(id) \/ Fail(id)
    PROVE  Moved({}, {}) /\ barrier'.id # id
<1>1. IInv'
  BY NextPreservesIInv DEF CoordinatorNext
<1>2. PICK o \in Outcomes \ {"none"} : Finish(id, o)
  BY DEF Complete, Fail, Outcomes
<1>3. 0 \notin BarrierIds
  BY DEF BarrierIds
<1>4. CASE barrier.id = id
  <2>1. Moved({}, {})
    BY <1>1, <1>2, <1>4, ReleasedMoves DEF Finish
  <2> QED  BY <1>2, <1>3, <1>4, <2>1 DEF Finish, Release, NoBarrier
<1>5. CASE barrier.id # id
  <2>1. Moved({}, {})
    BY <1>1, <1>2, <1>5, KeptMoves DEF Finish
  <2> QED  BY <1>2, <1>5, <2>1 DEF Finish, KeepBarrier
<1> QED  BY <1>4, <1>5

\* The ways a round is given up.
LEMMA GivenUpMoves ==
    ASSUME IInv,
           \/ \E id : Abort(id)
           \/ \E u \in Users : CancelCompletion(u)
           \/ \E p \in Connections : Disconnected(p) \/ PrepareUpdate(p)
           \/ Timeout
    PROVE  Moved({}, {})
<1> USE DEF Outcomes
<1>1. ASSUME NEW id, Abort(id) PROVE Moved({}, {})
  <2>1. id \in BarrierIds
    BY <1>1, BarrierIs DEF Abort
  <2>2. IInv'
    BY <1>1, <2>1, NextPreservesIInv DEF CoordinatorNext
  <2> QED  BY <1>1, <2>2, AbortedMoves DEF Abort
<1>2. ASSUME NEW u \in Users, CancelCompletion(u) PROVE Moved({}, {})
  <2>1. Open
    BY <1>2, BarrierIs DEF CancelCompletion, NoBarrier
  <2>2. IInv'
    BY <1>2, NextPreservesIInv DEF CoordinatorNext
  <2> QED  BY <1>2, <2>1, <2>2, AbortedMoves DEF CancelCompletion
<1>3. ASSUME NEW p \in Connections, Disconnected(p) PROVE Moved({}, {})
  <2>1. IInv'
    BY <1>3, NextPreservesIInv DEF CoordinatorNext
  <2>2. CASE p \in barrier.participants
    <3>1. Open
      BY <2>2, BarrierIs DEF NoBarrier
    <3> QED  BY <1>3, <2>1, <2>2, <3>1, AbortedMoves DEF Disconnected
  <2>3. CASE p \notin barrier.participants
    BY <1>3, <2>1, <2>3, KeptMoves DEF Disconnected
  <2> QED  BY <2>2, <2>3
<1>4. ASSUME NEW p \in Connections, PrepareUpdate(p) PROVE Moved({}, {})
  <2>1. IInv'
    BY <1>4, NextPreservesIInv DEF CoordinatorNext
  <2> QED  BY <1>4, <2>1, ReleasedMoves DEF PrepareUpdate
<1>5. ASSUME Timeout PROVE Moved({}, {})
  <2>1. IInv'
    BY <1>5, NextPreservesIInv DEF CoordinatorNext
  <2> QED  BY <1>5, <2>1, ReleasedMoves DEF Timeout
<1> QED  BY <1>1, <1>2, <1>3, <1>4, <1>5

\* A barrier is opened for the sockets of the room, or for all connections.
LEMMA OpenedMoves ==
    ASSUME IInv, NEW p \in Connections, NEW u \in Users, NEW P \in SUBSET Connections,
           OpenCompaction(p, u, P)
    PROVE  Moved({}, P)
<1>1. IInv'
  BY NextPreservesIInv DEF CoordinatorNext
<1> QED  BY <1>1 DEF OpenCompaction, NewBarrier, NoBarrier, Moved, BarrierComes

\* A completion is prepared.
LEMMA BegunMoves ==
    ASSUME IInv, NEW u \in Users, BeginCompletion(u)
    PROVE  Moved({}, {})
<1> DEFINE b == NewBarrier("completion", u, "nobody", connections)
<1>1. IInv'
  BY NextPreservesIInv DEF CoordinatorNext
<1>2. /\ ~Open /\ issued' = issued + 1 /\ UNCHANGED <<connections, released>>
      /\ StartCapture(b) /\ issued < MaxBarriers /\ Core
  BY BarrierIs DEF BeginCompletion
<1>3. b.id = issued + 1 /\ b.participants = connections /\ b.drained = {}
  BY DEF NewBarrier, NoBarrier
<1>4. b \in Barrier
  BY <1>2, BarrierIs, DrawnIsGood DEF Intentions, GoodBarrier
<1> HIDE DEF b
<1>5. barrier' = b \/ barrier' = [b EXCEPT !.phase = "confirming"]
  BY <1>2 DEF StartCapture
<1>6. barrier'.id = issued + 1 /\ barrier'.participants = connections /\ barrier'.drained = {}
  BY <1>3, <1>4, <1>5 DEF Barrier
<1> QED  BY <1>1, <1>2, <1>6 DEF Moved, BarrierComes

\* A socket joins.
LEMMA JoinedMoves ==
    ASSUME IInv, NEW p \in Connections \ barrier.participants, Join(p)
    PROVE  /\ Moved({}, {p}) /\ barrier'.id = barrier.id /\ barrier'.drained = barrier.drained
           /\ Open' = Open
<1>1. IInv' /\ barrier \in Barrier
  BY BarrierIs, NextPreservesIInv DEF CoordinatorNext
<1>2. barrier' = Joined(barrier, p) /\ connections' = connections \cup {p}
      /\ UNCHANGED <<issued, released>>
  BY DEF Join
<1>3. /\ barrier'.id = barrier.id /\ barrier'.drained = barrier.drained
      /\ barrier'.participants \subseteq barrier.participants \cup {p}
      /\ barrier.phase = "committing" => barrier'.phase = "committing"
      /\ barrier'.phase = "none" <=> barrier.phase = "none"
  <2>1. CASE barrier.phase = "none" \/ (barrier.intention = "completion" /\ Frozen(barrier))
    BY <1>2, <2>1 DEF Joined
  <2>2. CASE ~(barrier.phase = "none" \/ (barrier.intention = "completion" /\ Frozen(barrier)))
    BY <1>1, <1>2, <2>2 DEF Joined, Barrier
  <2> QED  BY <2>1, <2>2
<1> QED  BY <1>1, <1>2, <1>3 DEF Moved, BarrierStays, Open

\* The sequence of a completion is read.
LEMMA CapturedMoves ==
    ASSUME IInv, NEW k \in captures, NEW s \in Sequences, CaptureReads(k, s) \/ CaptureResumes(k)
    PROVE  Moved({}, {})
<1>1. IInv' /\ barrier \in Barrier /\ k \in Capture
  BY BarrierIs, NextPreservesIInv DEF CoordinatorNext
<1>2. UNCHANGED <<issued, connections>>
  BY DEF CaptureReads, CaptureResumes
<1> DEFINE b == [barrier EXCEPT !.serverSequence = k.sequence]
<1>3. \/ KeepBarrier
      \/ Release("aborted")
      \/ barrier.phase = "confirming" /\ ClaimCompletion(b) /\ UNCHANGED released
  BY DEF CaptureReads, CaptureResumes, KeepBarrier
<1>4. CASE KeepBarrier
  BY <1>1, <1>2, <1>4, KeptMoves
<1>5. CASE Release("aborted")
  BY <1>1, <1>2, <1>5, ReleasedMoves DEF Outcomes
<1>6. CASE barrier.phase = "confirming" /\ ClaimCompletion(b) /\ UNCHANGED released
  <2>1. /\ b.id = barrier.id /\ b.participants = barrier.participants /\ b.drained = barrier.drained
        /\ b.phase = barrier.phase /\ b \in Barrier
    BY <1>1 DEF Barrier, Capture
  <2>2. \/ barrier' = b
        \/ barrier' = [b EXCEPT !.phase = "finalizing"]
    BY <1>6 DEF ClaimCompletion
  <2> HIDE DEF b
  <2>3. /\ barrier'.id = barrier.id /\ barrier'.participants = barrier.participants
        /\ barrier'.drained = barrier.drained /\ barrier'.phase # "none"
    BY <1>6, <2>1, <2>2 DEF Barrier
  <2> QED  BY <1>1, <1>2, <1>6, <2>3 DEF Moved, BarrierStays, Open
<1> QED  BY <1>3, <1>4, <1>5, <1>6

-----------------------------------------------------------------------------
(* What a step of the server leaves of the invariant of a client *)

\* The log only grows, an active snapshot is only replaced by a later one, no
\* barrier comes back, and no socket gets fresh again.
ServerMoves ==
    /\ Logged \subseteq Logged' /\ Len(log) \in Nat /\ Len(log') \in Nat /\ Len(log) <= Len(log')
    /\ \A n \in 0..Len(log) : EditsUpTo(n)' = EditsUpTo(n)
    /\ snapshot.id \in Nat /\ snapshot'.id \in Nat
    /\ \/ snapshot'.id = snapshot.id /\ archive' = archive
       \/ snapshot'.id > snapshot.id
    /\ issued \in Nat /\ issued' \in Nat /\ issued <= issued'
    /\ \A b \in 0..issued : Live(b)' => Live(b)
    /\ \A p \in Connections : sockets[p] # "new" => sockets'[p] # "new"

\* What a client has to bring along: its clocks, and what it stands by.
StandsBy(c, r) ==
    /\ ClockOK(c, r)'
    /\ r.link \in barrier'.drained => r.held = barrier'.id /\ r.drained
    /\ r.post.step = "locked" /\ barrier'.id = r.post.id => barrier'.phase = "committing"

\* A client that brings that along lives through a step of the server.
LEMMA MovedKeeps ==
    ASSUME NEW c, NEW r, NEW in, ClientOK(c, r, in), ServerMoves, StandsBy(c, r)
    PROVE  ClientOK(c, r, in)'
<1>1. /\ r \in Client /\ in \in Seq(AnyFrame) /\ r.held \in Nat /\ r.held <= issued
      /\ r.jobs \in Seq(AnyJob) /\ r.post \in AnyPost /\ r.out \in Seq(Sending)
  BY DEF ClientOK, Client, DrainOK
<1>2. /\ \A k \in DOMAIN in : in[k] \in AnyFrame
      /\ \A i \in DOMAIN r.jobs : r.jobs[i] \in AnyJob
      /\ \A i \in DOMAIN r.out : r.out[i] \in Sending
  BY <1>1
<1>3. \A b \in Nat : b <= issued => b <= issued' /\ (Live(b)' => Live(b))
  BY DEF ServerMoves
<1>4. EditOK(c, r)' /\ SettledOK(r)'
  BY DEF ClientOK, EditOK, SettledOK, Waits, JobsOf, Encrypting, ServerMoves
<1>5. DrainOK(c, r)'
  <2>1. r.held <= issued'
    BY <1>1, <1>3
  <2>2. r.link # NoLink => ClientOf(r.link) = c /\ sockets'[r.link] # "new"
    BY <1>1 DEF ClientOK, DrainOK, ServerMoves, Client
  <2>3. r.link \in barrier'.drained => r.held = barrier'.id /\ r.drained
    BY DEF StandsBy
  <2>4. ASSUME NEW i \in DOMAIN r.out
        PROVE  /\ ClientOf(r.out[i].link) = c /\ sockets'[r.out[i].link] # "new"
               /\ r.out[i].frame.type = "drained" =>
                     /\ r.out[i].frame.id <= issued'
                     /\ r.out[i].link = r.link /\ Live(r.out[i].frame.id)'
                        => r.held = r.out[i].frame.id /\ r.drained
    <3>1. r.out[i].link \in Connections /\ r.out[i].frame.id \in Nat
      BY <1>2 DEF Sending, AnyFrame
    <3> QED  BY <1>3, <3>1 DEF ClientOK, DrainOK, ServerMoves
  <2> QED  BY <2>1, <2>2, <2>3, <2>4 DEF DrainOK
<1>6. InboxOK(in)'
  <2>1. \A k \in DOMAIN in : in[k].id \in Nat
    BY <1>2 DEF AnyFrame
  <2>2. ASSUME NEW k \in DOMAIN in
        PROVE  /\ in[k].type = "acknowledged" => in[k].envelope.edit \in Logged'
               /\ in[k].type \in {"barrier", "released", "ready"} => in[k].id <= issued'
               /\ in[k].type = "released" => ~Live(in[k].id)' /\ in[k].code \in Outcomes \ {"none"}
    BY <1>3, <2>1 DEF ClientOK, InboxOK, ServerMoves
  <2>3. ASSUME NEW k \in DOMAIN in, in[k].type = "authenticated", NEW l \in 1..(k - 1),
               in[l].type = "barrier", Live(in[l].id)'
        PROVE  in[l].id = in[k].id
    <3>1. l \in DOMAIN in
      BY <1>1
    <3>2. in[l].id \in Nat /\ in[l].id <= issued
      BY <2>1, <2>3, <3>1 DEF ClientOK, InboxOK
    <3> QED  BY <1>3, <2>3, <3>2 DEF ClientOK, InboxOK
  <2> QED  BY <2>2, <2>3 DEF InboxOK
<1>7. HeldOK(r, in)'
  BY <1>1, <1>3 DEF ClientOK, HeldOK
<1>8. ASSUME NEW copy, copy.sequence \in Nat, copy.parent \in Nat
      PROVE  (CopyOK(copy) => CopyOK(copy)') /\ (RowOK(copy) => RowOK(copy)')
  <2>1. copy.parent <= snapshot.id => copy.parent <= snapshot'.id
    BY <1>8 DEF ServerMoves
  <2>2. copy.sequence <= Len(log) => copy.sequence <= Len(log')
                                     /\ EditsUpTo(copy.sequence)' = EditsUpTo(copy.sequence)
    BY <1>8 DEF ServerMoves
  <2>3. copy.parent <= snapshot.id /\ copy.parent = snapshot'.id
        => copy.parent = snapshot.id /\ archive' = archive
    BY <1>8 DEF ServerMoves
  <2>4. Logged \subseteq Logged'
    BY DEF ServerMoves
  <2> QED  BY <2>1, <2>2, <2>3, <2>4 DEF CopyOK, RowOK
<1>9. ReadsOK(r)'
  <2>1. \A i \in DOMAIN r.jobs : r.jobs[i].read.sequence \in Nat /\ r.jobs[i].read.parent \in Nat
    BY <1>2 DEF AnyJob, Copy
  <2> QED  BY <1>8, <2>1 DEF ClientOK, ReadsOK
<1>10. PostOK(r.post)'
  <2>1. r.post.sequence \in Nat /\ r.post.parent \in Nat /\ r.post.id \in Nat
    BY <1>1 DEF AnyPost
  <2> QED  BY <1>3, <1>8, <2>1 DEF ClientOK, PostOK, StandsBy
<1>11. AwaitOK(r, in)' /\ (r \in Client)' /\ (in \in Seq(AnyFrame))'
  BY DEF ClientOK, AwaitOK, Client, AnyFrame
<1> QED  BY <1>4, <1>5, <1>6, <1>7, <1>9, <1>10, <1>11 DEF ClientOK, StandsBy

\* What the server may send: it is true when it is sent.
TrueFrames(ext) ==
    \A k \in DOMAIN ext :
       /\ ext[k].type # "authenticated"
       /\ ext[k].type = "acknowledged" => ext[k].envelope.edit \in Logged
       /\ ext[k].type \in {"barrier", "released", "ready"} => ext[k].id <= issued
       /\ ext[k].type = "released" => ~Live(ext[k].id) /\ ext[k].code \in Outcomes \ {"none"}

\* Frames that are true may be put into the inbox.
LEMMA HeardKeeps ==
    ASSUME NEW c, NEW r, NEW in, NEW ext \in Seq(AnyFrame), ClientOK(c, r, in)', TrueFrames(ext)'
    PROVE  ClientOK(c, r, in \o ext)'
<1> DEFINE all == in \o ext
<1>1. in \in Seq(AnyFrame)
  BY DEF ClientOK
<1>2. /\ all \in Seq(AnyFrame) /\ Len(in) \in Nat /\ Len(ext) \in Nat
      /\ DOMAIN in = 1..Len(in) /\ DOMAIN ext = 1..Len(ext)
      /\ DOMAIN all = 1..(Len(in) + Len(ext))
      /\ \A k \in 1..Len(in) : all[k] = in[k]
      /\ \A k \in 1..(Len(in) + Len(ext)) : k \notin 1..Len(in) =>
            k - Len(in) \in 1..Len(ext) /\ all[k] = ext[k - Len(in)]
  BY <1>1, ConcatHas
<1>3. in # <<>> => Head(all) = Head(in) /\ all # <<>>
  BY <1>1
<1> HIDE DEF all
<1>4. InboxOK(all)'
  <2>1. ASSUME NEW k \in DOMAIN all
        PROVE  /\ all[k].type = "acknowledged" => all[k].envelope.edit \in Logged'
               /\ all[k].type \in {"barrier", "released", "ready"} => all[k].id <= issued'
               /\ all[k].type = "released" => ~Live(all[k].id)' /\ all[k].code \in Outcomes \ {"none"}
    <3>1. CASE k \in 1..Len(in)
      <4>1. k \in DOMAIN in /\ all[k] = in[k]
        BY <1>2, <3>1
      <4> QED  BY <4>1 DEF ClientOK, InboxOK
    <3>2. CASE k \notin 1..Len(in)
      <4>1. k - Len(in) \in DOMAIN ext /\ all[k] = ext[k - Len(in)]
        BY <1>2, <3>2
      <4> QED  BY <4>1 DEF TrueFrames
    <3> QED  BY <3>1, <3>2
  <2>2. ASSUME NEW k \in DOMAIN all, all[k].type = "authenticated", NEW l \in 1..(k - 1),
               all[l].type = "barrier", Live(all[l].id)'
        PROVE  all[l].id = all[k].id
    <3>1. k \in 1..Len(in)
      BY <1>2, <2>2 DEF TrueFrames
    <3>2. k \in DOMAIN in /\ all[k] = in[k] /\ all[l] = in[l]
      BY <1>2, <3>1
    <3> QED  BY <2>2, <3>2 DEF ClientOK, InboxOK
  <2> QED  BY <2>1, <2>2 DEF InboxOK
<1>5. HeldOK(r, all)'
  <2>1. ASSUME NEW k \in DOMAIN all, all[k].type = "authenticated", Live(r.held)'
        PROVE  all[k].id = r.held
    <3>1. k \in 1..Len(in)
      BY <1>2, <2>1 DEF TrueFrames
    <3>2. k \in DOMAIN in /\ all[k] = in[k]
      BY <1>2, <3>1
    <3> QED  BY <2>1, <3>2 DEF ClientOK, HeldOK
  <2>2. r.busy => Head(all) = Head(in)
    BY <1>3 DEF ClientOK, AwaitOK
  <2> QED  BY <2>1, <2>2 DEF ClientOK, HeldOK
<1>6. AwaitOK(r, all)'
  BY <1>3 DEF ClientOK, AwaitOK
<1>7. (all \in Seq(AnyFrame))'
  BY <1>2 DEF AnyFrame
<1> QED  BY <1>4, <1>5, <1>6, <1>7 DEF ClientOK, all

\* A frame of the client has been taken from the socket.
LEMMA TakenKeeps ==
    ASSUME NEW c, NEW r, NEW in, ClientOK(c, r, in), r.out # <<>>
    PROVE  ClientOK(c, [r EXCEPT !.out = Tail(@)], in)
<1> DEFINE rest == Tail(r.out)
           q == [r EXCEPT !.out = rest]
<1>1. r \in Client /\ r.out \in Seq(Sending)
  BY DEF ClientOK, Client
<1>2. /\ rest \in Seq(Sending) /\ DOMAIN r.out = 1..Len(r.out) /\ Len(r.out) \in Nat \ {0}
      /\ DOMAIN rest = 1..(Len(r.out) - 1)
      /\ \A i \in 1..(Len(r.out) - 1) : rest[i] = r.out[i + 1]
  BY <1>1, TailHas
<1> HIDE DEF rest
<1>3. q \in Client
  BY <1>1, <1>2 DEF Client
<1>4. /\ q.link = r.link /\ q.stopped = r.stopped /\ q.made = r.made /\ q.rotation = r.rotation
      /\ q.jobs = r.jobs /\ q.busy = r.busy /\ q.post = r.post /\ q.paused = r.paused
      /\ q.held = r.held /\ q.drained = r.drained /\ q.clock = r.clock
      /\ q.pending = r.pending /\ q.doc = r.doc /\ q.out = rest
  BY <1>1 DEF Client
<1> HIDE DEF q
<1>5. \A i \in DOMAIN q.out : i + 1 \in DOMAIN r.out /\ q.out[i] = r.out[i + 1]
  BY <1>2, <1>4
<1>6. Sealed(q) \subseteq Sealed(r)
  BY <1>4, <1>5 DEF Sealed
<1>7. ClockOK(c, q)
  BY <1>4, <1>6 DEF ClientOK, ClockOK, Own, Spent
<1>8. EditOK(c, q)
  <2>1. Waits(q) = Waits(r)
    BY <1>4 DEF Waits, JobsOf
  <2> QED  BY <1>4, <2>1 DEF ClientOK, EditOK
<1>9. SettledOK(q)
  BY <1>4 DEF ClientOK, SettledOK, Encrypting, JobsOf
<1>10. DrainOK(c, q)
  BY <1>4, <1>5 DEF ClientOK, DrainOK
<1>11. HeldOK(q, in) /\ ReadsOK(q) /\ PostOK(q.post) /\ AwaitOK(q, in)
  BY <1>4 DEF ClientOK, HeldOK, ReadsOK, AwaitOK
<1> QED  BY <1>3, <1>7, <1>8, <1>9, <1>10, <1>11 DEF ClientOK, q, rest

\* One frame, or none.
LEMMA TrueFew ==
    ASSUME NEW f \in AnyFrame, NEW said \in BOOLEAN, NEW n, n = IF said THEN <<f>> ELSE <<>>,
           said => /\ f.type # "authenticated"
                   /\ f.type = "acknowledged" => f.envelope.edit \in Logged'
                   /\ f.type \in {"barrier", "released", "ready"} => f.id <= issued'
                   /\ f.type = "released" => ~Live(f.id)' /\ f.code \in Outcomes \ {"none"}
    PROVE  n \in Seq(AnyFrame) /\ TrueFrames(n)'
<1>1. CASE said
  <2>1. n = <<f>> /\ DOMAIN <<f>> = {1} /\ <<f>>[1] = f /\ <<f>> \in Seq(AnyFrame)
    BY <1>1
  <2>2. \A k \in DOMAIN n : n[k] = f
    BY <2>1
  <2> QED  BY <1>1, <2>1, <2>2 DEF TrueFrames
<1>2. CASE ~said
  <2>1. n = <<>> /\ <<>> \in Seq(AnyFrame) /\ DOMAIN <<>> = {}
    BY <1>2
  <2> QED  BY <2>1 DEF TrueFrames
<1> QED  BY <1>1, <1>2

\* One true sequence of frames after the other.
LEMMA TrueBoth ==
    ASSUME NEW s \in Seq(AnyFrame), NEW t \in Seq(AnyFrame), TrueFrames(s)', TrueFrames(t)'
    PROVE  \E n \in Seq(AnyFrame) : n = s \o t /\ TrueFrames(n)'
<1> DEFINE n == s \o t
<1>1. /\ n \in Seq(AnyFrame) /\ Len(s) \in Nat /\ Len(t) \in Nat
      /\ DOMAIN s = 1..Len(s) /\ DOMAIN t = 1..Len(t)
      /\ DOMAIN n = 1..(Len(s) + Len(t))
      /\ \A k \in 1..Len(s) : n[k] = s[k]
      /\ \A k \in 1..(Len(s) + Len(t)) : k \notin 1..Len(s) =>
            k - Len(s) \in 1..Len(t) /\ n[k] = t[k - Len(s)]
  BY ConcatHas
<1> HIDE DEF n
<1>2. \A k \in DOMAIN n : \/ k \in DOMAIN s /\ n[k] = s[k]
                          \/ k - Len(s) \in DOMAIN t /\ n[k] = t[k - Len(s)]
  BY <1>1
<1>3. TrueFrames(n)'
  BY <1>2 DEF TrueFrames
<1> QED  BY <1>1, <1>3 DEF n

\* The id of a barrier is a number, 0 if there is none.
LEMMA IdIsNat == \A b \in Barrier : b.id \in Nat
<1>1. {0} \cup BarrierIds \subseteq Nat
  BY DEF BarrierIds
<1> QED  BY <1>1 DEF Barrier

\* The notices of a move are true.
LEMMA NoticesAreTrue ==
    ASSUME IInv, NEW P, NEW Q, Moved(P, Q)
    PROVE  \E n \in Seq(AnyFrame) : n = Notices /\ TrueFrames(n)'
<1>1. /\ Core /\ barrier \in Barrier /\ issued \in Nat /\ barrier.id <= issued
      /\ released \in [BarrierIds -> Outcomes] /\ barrier.id \in Nat
  BY BarrierIs, IdIsNat DEF Core, CoreTypeOK, Ledger
<1>2. /\ barrier' \in Barrier /\ issued' \in Nat /\ barrier'.id <= issued' /\ barrier'.id \in Nat
  <2>1. barrier' \in Barrier /\ barrier'.id <= issued' /\ issued' \in 0..MaxBarriers
    BY DEF Moved, IInv, Core, CoreTypeOK, GoodBarrier, Ledger
  <2> QED  BY <2>1, IdIsNat
<1> DEFINE gone == barrier.id # 0 /\ released'[barrier.id] # released[barrier.id]
           new == barrier'.id # 0 /\ barrier'.id # barrier.id
           known == /\ barrier'.intention = "completion"
                    /\ barrier'.serverSequence \notin {NoSequence, barrier.serverSequence}
           over == Frame("released", barrier.id, 0, NoEnvelope, released'[barrier.id])
           begun == BarrierFrame(barrier')
           read == Frame("sequence", barrier'.id, barrier'.serverSequence, NoEnvelope, "")
<1>3. PICK x : x = IF gone THEN <<over>> ELSE <<>>
  OBVIOUS
<1>4. PICK y : y = IF new THEN <<begun>> ELSE <<>>
  OBVIOUS
<1>5. PICK z : z = IF known THEN <<read>> ELSE <<>>
  OBVIOUS
<1>6. x \in Seq(AnyFrame) /\ TrueFrames(x)'
  <2>1. CASE gone
    <3>1. BarrierGoes /\ barrier.id \in BarrierIds
      BY <1>1, <2>1 DEF Moved, BarrierStays, BarrierComes, Barrier
    <3>2. released'[barrier.id] \in Outcomes \ {"none"}
      BY <1>1, <3>1 DEF BarrierGoes
    <3>3. \A b : ~Live(b)'
      BY <3>1 DEF BarrierGoes, Live, Open, NoBarrier
    <3>4. over \in AnyFrame
      <4>1. released'[barrier.id] \in Codes
        BY <3>2 DEF Codes
      <4> QED  BY <1>1, <4>1, PlainFrame DEF FrameTypes
    <3>5. over.type = "released" /\ over.id = barrier.id /\ over.code = released'[barrier.id]
      BY DEF Frame
    <3>6. over.id <= issued'
      BY <1>1, <3>1, <3>5 DEF BarrierGoes
    <3> HIDE DEF over, gone
    <3> QED  BY <1>3, <2>1, <3>2, <3>3, <3>4, <3>5, <3>6, TrueFew
  <2>2. CASE ~gone
    BY <1>3, <2>2 DEF TrueFrames
  <2> QED  BY <2>1, <2>2
<1>7. y \in Seq(AnyFrame) /\ TrueFrames(y)'
  <2>1. barrier'.intention \in Codes
    BY <1>2 DEF Barrier, Codes
  <2>2. begun \in AnyFrame
    BY <1>2, <2>1, PlainFrame DEF FrameTypes, BarrierFrame
  <2>3. begun.type = "barrier" /\ begun.id = barrier'.id
    BY DEF BarrierFrame, Frame
  <2>4. new \in BOOLEAN
    OBVIOUS
  <2> HIDE DEF begun, new
  <2> QED  BY <1>2, <1>4, <2>2, <2>3, <2>4, TrueFew
<1>8. z \in Seq(AnyFrame) /\ TrueFrames(z)'
  <2>1. CASE known
    <3>1. barrier'.serverSequence \in Nat
      BY <1>2, <2>1, CoordinatorConstants DEF CoordinatorConstants, Barrier
    <3>2. "" \in Codes
      BY DEF Codes
    <3>3. read \in AnyFrame
      BY <1>2, <3>1, <3>2, PlainFrame DEF FrameTypes
    <3>4. read.type = "sequence"
      BY DEF Frame
    <3> HIDE DEF read, known
    <3> QED  BY <1>5, <2>1, <3>3, <3>4, TrueFew
  <2>2. CASE ~known
    <3> HIDE DEF known, read
    <3> QED  BY <1>5, <2>2 DEF TrueFrames
  <2> QED  BY <2>1, <2>2
<1>9. PICK w \in Seq(AnyFrame) : w = x \o y /\ TrueFrames(w)'
  BY <1>6, <1>7, TrueBoth
<1>10. PICK n \in Seq(AnyFrame) : n = w \o z /\ TrueFrames(n)'
  BY <1>8, <1>9, TrueBoth
<1>11. n = Notices
  BY <1>3, <1>4, <1>5, <1>9, <1>10 DEF Notices
<1> QED  BY <1>10, <1>11

\* What a client hears in a step.
HearsTruth(c) == \E ext \in Seq(AnyFrame) : inbox'[c] = inbox[c] \o ext /\ TrueFrames(ext)'

\* Who hears nothing hears nothing false.
LEMMA SilenceIsTrue ==
    ASSUME NEW c, inbox[c] \in Seq(AnyFrame), inbox'[c] = inbox[c]
    PROVE  HearsTruth(c)
<1>1. <<>> \in Seq(AnyFrame) /\ inbox[c] \o <<>> = inbox[c]
  OBVIOUS
<1>2. TrueFrames(<<>>)'
  BY DEF TrueFrames
<1> QED  BY <1>1, <1>2 DEF HearsTruth

\* A broadcast after frames that are true.
LEMMA BroadcastIsTrue ==
    ASSUME IInv, NEW P, NEW Q, Moved(P, Q), inbox \in [Clients -> Seq(AnyFrame)],
           NEW own, \A c \in Clients : own[c] \in Seq(AnyFrame) /\ TrueFrames(own[c])',
           Broadcast(own)
    PROVE  /\ inbox' \in [Clients -> Seq(AnyFrame)]
           /\ \A c \in Clients : HearsTruth(c)
<1>1. PICK n \in Seq(AnyFrame) : n = Notices /\ TrueFrames(n)'
  BY NoticesAreTrue
<1>2. ASSUME NEW c \in Clients
      PROVE  HearsTruth(c) /\ inbox'[c] \in Seq(AnyFrame)
  <2>1. inbox'[c] = IF clients[c].link # NoLink /\ Hears(clients[c].link)
                    THEN inbox[c] \o own[c] \o n ELSE inbox[c]
    BY <1>1 DEF Broadcast
  <2>2. PICK s : s = own[c]
    OBVIOUS
  <2>3. s \in Seq(AnyFrame) /\ TrueFrames(s)'
    BY <2>2
  <2>4. PICK ext \in Seq(AnyFrame) : ext = s \o n /\ TrueFrames(ext)'
    BY <1>1, <2>3, TrueBoth
  <2>5. inbox[c] \in Seq(AnyFrame)
    OBVIOUS
  <2>6. inbox[c] \o s \o n = inbox[c] \o ext /\ inbox[c] \o ext \in Seq(AnyFrame)
    BY <1>1, <2>3, <2>4, <2>5
  <2>7. CASE clients[c].link # NoLink /\ Hears(clients[c].link)
    <3>1. inbox'[c] = inbox[c] \o ext
      BY <2>1, <2>2, <2>6, <2>7
    <3> QED  BY <2>4, <2>6, <3>1 DEF HearsTruth
  <2>8. CASE ~(clients[c].link # NoLink /\ Hears(clients[c].link))
    BY <2>1, <2>5, <2>8, SilenceIsTrue
  <2> QED  BY <2>7, <2>8
<1>3. inbox' = [c \in Clients |-> inbox'[c]]
  BY DEF Broadcast
<1> QED  BY <1>2, <1>3

-----------------------------------------------------------------------------
(* Steps of the server that store nothing *)

DocumentStays == LogInv' /\ UNCHANGED <<currentServerSequence, snapshot, updates>>

\* The document is left alone.
LEMMA SameDocument ==
    ASSUME LogInv, UNCHANGED documentVars
    PROVE  DocumentStays
<1>1. LogInv'
  BY NextPreservesLogInv
<1> QED  BY <1>1 DEF DocumentStays, documentVars

SocketsMove ==
    /\ sockets' \in [Connections -> {"new", "connecting", "open", "closed"}]
    /\ \A p \in Connections : /\ sockets[p] # "new" => sockets'[p] # "new"
                              /\ p \in Entered => p \in Entered'

\* The sockets are left alone.
LEMMA SameSockets ==
    ASSUME RoomOK, UNCHANGED sockets
    PROVE  SocketsMove
  BY DEF RoomOK, SocketsMove, Entered

\* No barrier comes back.
LEMMA BarrierMoves ==
    ASSUME IInv, NEW P, NEW Q, Moved(P, Q)
    PROVE  /\ issued \in Nat /\ issued' \in Nat /\ issued <= issued'
           /\ barrier.id \in Nat /\ barrier.id <= issued
           /\ \A b \in 0..issued : Live(b)' => Live(b)
           /\ Open' => (Open /\ barrier'.id = barrier.id) \/ barrier'.id = issued + 1
<1>1. /\ issued \in Nat /\ issued' \in Nat /\ barrier.id <= issued /\ barrier.id \in Nat
  BY BarrierIs, IdIsNat, CoordinatorConstants
  DEF CoordinatorConstants, Moved, IInv, Core, CoreTypeOK, Ledger
<1>2. CASE BarrierStays(P)
  BY <1>1, <1>2 DEF BarrierStays, Live
<1>3. CASE BarrierGoes
  BY <1>1, <1>3 DEF BarrierGoes, Live, Open, NoBarrier
<1>4. CASE BarrierComes
  BY <1>1, <1>4 DEF BarrierComes, Live
<1> QED  BY <1>2, <1>3, <1>4 DEF Moved

\* The barrier moves, and nothing is stored.
LEMMA ServerKeeps ==
    ASSUME Inv, NEW P, NEW Q, Moved(P, Q), DocumentStays, UNCHANGED <<log, archive>>,
           SocketsMove, Q \subseteq Entered', AnswersOK'
    PROVE  ServerOK' /\ ServerMoves
<1>1. /\ log' = log /\ archive' = archive /\ currentServerSequence' = currentServerSequence
      /\ snapshot' = snapshot /\ updates' = updates
  BY DEF DocumentStays
<1>2. StoredOK'
  BY <1>1 DEF Inv, ServerOK, StoredOK, LatestClock, ClocksOf, SnapshotHoldsLog
<1>3. /\ IInv /\ issued \in Nat /\ issued' \in Nat /\ snapshot.id \in Nat /\ snapshot.id <= issued
      /\ Open => snapshot.id < barrier.id
  BY BarrierMoves, StoredIs DEF Inv, ServerOK, RoomOK
<1>4. issued <= issued' /\ (Open' => snapshot.id < barrier'.id)
      /\ \A b \in 0..issued : Live(b)' => Live(b)
  BY <1>3, BarrierMoves
<1>5. RoomOK'
  <2>1. barrier'.participants \cup connections' \subseteq Entered'
    BY DEF Inv, ServerOK, RoomOK, Moved, SocketsMove, Entered
  <2> QED  BY <1>1, <1>3, <1>4, <2>1 DEF RoomOK, SocketsMove
<1>6. ServerMoves
  <2>1. Logged' = Logged /\ Len(log) \in Nat /\ Len(log') = Len(log)
    BY <1>1, StoredIs DEF Logged, EditsOf
  <2>2. \A n : EditsUpTo(n)' = EditsUpTo(n)
    BY <1>1 DEF EditsUpTo
  <2>3. \A p \in Connections : sockets[p] # "new" => sockets'[p] # "new"
    BY DEF SocketsMove
  <2> QED  BY <1>1, <1>3, <1>4, <2>1, <2>2, <2>3 DEF ServerMoves
<1> QED  BY <1>2, <1>5, <1>6 DEF ServerOK, Moved, DocumentStays

\* Who stood by the round still does.
LEMMA StandsByMoves ==
    ASSUME IInv, NEW P, NEW Q, Moved(P, Q), NEW c, NEW r, NEW in, ClientOK(c, r, in),
           ClockOK(c, r)', r.link \in P => r.held = barrier.id /\ r.drained
    PROVE  StandsBy(c, r)
<1>1. /\ r.link \in barrier.drained => r.held = barrier.id /\ r.drained
      /\ r.post.step = "locked" => /\ r.post.id \in BarrierIds /\ r.post.id <= issued
                                   /\ barrier.id = r.post.id => barrier.phase = "committing"
  BY DEF ClientOK, DrainOK, PostOK
<1>2. issued \in Nat /\ BarrierIds \subseteq Nat \ {0}
  BY BarrierIs DEF BarrierIds
<1>3. CASE BarrierStays(P)
  BY <1>1, <1>3 DEF BarrierStays, StandsBy
<1>4. CASE BarrierGoes
  BY <1>1, <1>2, <1>4 DEF BarrierGoes, NoBarrier, StandsBy
<1>5. CASE BarrierComes
  BY <1>1, <1>2, <1>5 DEF BarrierComes, StandsBy
<1> QED  BY <1>3, <1>4, <1>5 DEF Moved

\* Without a new row of the log no clock is spent.
LEMMA SameLogSameClocks ==
    ASSUME NEW c, NEW r, ClockOK(c, r), UNCHANGED log
    PROVE  ClockOK(c, r)'
  BY DEF ClockOK, Own, Sealed, Spent

\* A client lives through a step of the server, with a record r and what it hears.
LEMMA ClientLives ==
    ASSUME Inv, NEW P, NEW Q, Moved(P, Q), ServerMoves, NEW c \in Clients, NEW r,
           ClientOK(c, r, inbox[c]), ClockOK(c, r)',
           r.link \in P => r.held = barrier.id /\ r.drained, HearsTruth(c)
    PROVE  ClientOK(c, r, inbox[c])'
<1>2. StandsBy(c, r)
  BY StandsByMoves DEF Inv, ServerOK
<1>3. PICK now : now = inbox[c]
  OBVIOUS
<1>4. ClientOK(c, r, now)'
  BY <1>2, <1>3, MovedKeeps
<1>5. PICK ext \in Seq(AnyFrame) : inbox'[c] = now \o ext /\ TrueFrames(ext)'
  BY <1>3 DEF HearsTruth
<1>6. ClientOK(c, r, now \o ext)'
  BY <1>4, <1>5, HeardKeeps
<1>7. PICK later : later = inbox'[c]
  OBVIOUS
<1>8. later = now \o ext
  BY <1>5, <1>7
<1>9. ClientOK(c, r, later)'
  BY <1>6, <1>8
<1> QED  BY <1>7, <1>9

\* The same when nothing is logged.
LEMMA ClientsKeep ==
    ASSUME Inv, NEW P, NEW Q, Moved(P, Q), ServerMoves, UNCHANGED log, NEW c \in Clients, NEW r,
           ClientOK(c, r, inbox[c]), r.link \in P => r.held = barrier.id /\ r.drained, HearsTruth(c)
    PROVE  ClientOK(c, r, inbox[c])'
<1>1. ClockOK(c, r)'
  BY SameLogSameClocks DEF ClientOK
<1> QED  BY <1>1, ClientLives

\* A step of the server that leaves the clients alone, but for a frame it takes.
LEMMA PlainStep ==
    ASSUME Inv, NEW P, NEW Q, Moved(P, Q), DocumentStays, UNCHANGED <<log, archive>>,
           SocketsMove, Q \subseteq Entered', AnswersOK',
           clients' \in [Clients -> Client],
           \A c \in Clients : /\ ClientOK(c, clients'[c], inbox[c])
                              /\ clients'[c].link \in P
                                 => clients'[c].held = barrier.id /\ clients'[c].drained,
           inbox' \in [Clients -> Seq(AnyFrame)], \A c \in Clients : HearsTruth(c)
    PROVE  Inv'
<1>1. ServerOK' /\ ServerMoves
  BY ServerKeeps
<1>2. ASSUME NEW c \in Clients
      PROVE  ClientOK(c, clients[c], inbox[c])'
  <2>1. PICK r : r = clients'[c]
    OBVIOUS
  <2>2. ClientOK(c, r, inbox[c]) /\ (r.link \in P => r.held = barrier.id /\ r.drained)
    BY <2>1
  <2>3. ClientOK(c, r, inbox[c])'
    BY <1>1, <2>2, ClientsKeep
  <2> QED  BY <2>1, <2>3
<1> QED  BY <1>1, <1>2 DEF Inv

\* ... altogether alone.
LEMMA AsideStep ==
    ASSUME Inv, NEW P, NEW Q, Moved(P, Q), DocumentStays, UNCHANGED <<log, archive>>,
           SocketsMove, Q \subseteq Entered', AnswersOK', UNCHANGED clients, P = {},
           inbox' \in [Clients -> Seq(AnyFrame)], \A c \in Clients : HearsTruth(c)
    PROVE  Inv'
  BY PlainStep DEF Inv

\* A frame of client c is taken.
LEMMA TakingStep ==
    ASSUME Inv, NEW P, NEW Q, Moved(P, Q), DocumentStays, UNCHANGED <<log, archive>>,
           SocketsMove, Q \subseteq Entered', AnswersOK',
           NEW c \in Clients, clients[c].out # <<>>, Taken(c),
           \A d \in Clients : clients[d].link \in P => clients[d].held = barrier.id /\ clients[d].drained,
           inbox' \in [Clients -> Seq(AnyFrame)], \A d \in Clients : HearsTruth(d)
    PROVE  Inv'
<1> DEFINE r == clients[c]
           q == [r EXCEPT !.out = Tail(@)]
<1>1. ClientOK(c, r, inbox[c]) /\ r \in Client
  BY DEF Inv, ClientOK
<1>2. ClientOK(c, q, inbox[c])
  BY <1>1, TakenKeeps
<1>3. q \in Client /\ q.link = r.link /\ q.held = r.held /\ q.drained = r.drained
  BY <1>1, <1>2 DEF ClientOK, Client
<1>4. clients' = [clients EXCEPT ![c] = q]
  BY DEF Taken, Become
<1> HIDE DEF q
<1>5. clients' \in [Clients -> Client]
      /\ \A d \in Clients : clients'[d] = IF d = c THEN q ELSE clients[d]
  BY <1>3, <1>4 DEF Inv
<1>6. \A d \in Clients : /\ ClientOK(d, clients'[d], inbox[d])
                         /\ clients'[d].link \in P
                            => clients'[d].held = barrier.id /\ clients'[d].drained
  BY <1>2, <1>3, <1>5 DEF Inv
<1> QED  BY <1>5, <1>6, PlainStep

\* Nobody is answered, or only the one at socket p.
LEMMA NothingIsTrue ==
    \A c \in Clients : Nothing[c] \in Seq(AnyFrame) /\ TrueFrames(Nothing[c])'
<1>1. \A c \in Clients : Nothing[c] = <<>>
  BY DEF Nothing
<1>2. <<>> \in Seq(AnyFrame) /\ TrueFrames(<<>>)'
  BY DEF TrueFrames
<1> QED  BY <1>1, <1>2

\* A broadcast that only carries the notices.
LEMMA NothingSaid ==
    ASSUME IInv, NEW P, NEW Q, Moved(P, Q), inbox \in [Clients -> Seq(AnyFrame)],
           Broadcast(Nothing)
    PROVE  inbox' \in [Clients -> Seq(AnyFrame)] /\ \A c \in Clients : HearsTruth(c)
<1>1. PICK own : own = Nothing
  OBVIOUS
<1>2. \A c \in Clients : own[c] \in Seq(AnyFrame) /\ TrueFrames(own[c])'
  BY <1>1, NothingIsTrue
<1>3. Broadcast(own)
  BY <1>1
<1> QED  BY <1>2, <1>3, BroadcastIsTrue

\* A broadcast that answers one client before the notices.
LEMMA OneSaid ==
    ASSUME IInv, NEW P, NEW Q, Moved(P, Q), inbox \in [Clients -> Seq(AnyFrame)],
           NEW p, NEW f \in AnyFrame, f.type \in {"rejected", "barrier", "ready"},
           f.type \in {"barrier", "ready"} => f.id <= issued',
           Broadcast(To(p, f))
    PROVE  inbox' \in [Clients -> Seq(AnyFrame)] /\ \A c \in Clients : HearsTruth(c)
<1>1. PICK own : own = To(p, f)
  OBVIOUS
<1>2. ASSUME NEW c \in Clients
      PROVE  own[c] \in Seq(AnyFrame) /\ TrueFrames(own[c])'
  <2>1. Nothing \in [Clients -> {<<>>}]
    BY DEF Nothing
  <2>2. own[c] = <<f>> \/ own[c] = <<>>
    BY <1>1, <2>1 DEF To
  <2>3. own[c] = IF own[c] = <<f>> THEN <<f>> ELSE <<>>
    BY <2>2
  <2>4. (own[c] = <<f>>) \in BOOLEAN
    OBVIOUS
  <2> QED  BY <2>3, <2>4, TrueFew
<1>3. Broadcast(own)
  BY <1>1
<1> QED  BY <1>2, <1>3, BroadcastIsTrue

\* A refusal is a frame.
LEMMA RejectedFrame ==
    ASSUME NEW code \in Codes
    PROVE  Rejected(code) \in AnyFrame /\ Rejected(code).type = "rejected"
  BY PlainFrame DEF Rejected, Frame, FrameTypes

\* The frame of the open barrier.
LEMMA BarrierToJoin ==
    ASSUME IInv
    PROVE  /\ BarrierFrame(barrier) \in AnyFrame /\ BarrierFrame(barrier).type = "barrier"
           /\ BarrierFrame(barrier).id = barrier.id /\ barrier.id <= issued /\ barrier.id \in Nat
<1>1. barrier \in Barrier /\ barrier.id \in Nat /\ barrier.id <= issued
  BY BarrierIs, IdIsNat DEF Core, Ledger
<1>2. barrier.intention \in Codes
  BY <1>1 DEF Barrier, Codes
<1>3. BarrierFrame(barrier) \in AnyFrame
  BY <1>1, <1>2, PlainFrame DEF BarrierFrame, FrameTypes
<1> QED  BY <1>1, <1>3 DEF BarrierFrame, Frame

\* prepareUpdate lets an update pass.
LEMMA AdmitMoves ==
    ASSUME IInv, NEW p \in Connections, Admit(p)
    PROVE  Moved({}, {})
  BY StillMoves, GivenUpMoves DEF Admit

\* The frame that is taken.
LEMMA NextIs ==
    ASSUME Inv, NEW c \in Clients, NEW p \in Connections, NEW type, Arrives(c, p, type)
    PROVE  /\ clients[c].out # <<>> /\ 1 \in DOMAIN clients[c].out
           /\ clients[c].out[1].frame = Next1(c) /\ clients[c].out[1].link = p
           /\ Next1(c) \in AnyFrame /\ Next1(c).type = type
           /\ type = "update" => /\ Next1(c).envelope \in Sealed(clients[c])
                                 /\ Next1(c).envelope \in SealedText
<1> DEFINE r == clients[c]
<1>1. ClientOK(c, r, inbox[c]) /\ r.out \in Seq(Sending) /\ r.out # <<>>
  BY DEF Inv, ClientOK, Client, Arrives
<1>2. Head(r.out) = r.out[1] /\ 1 \in DOMAIN r.out /\ r.out[1] \in Sending
  BY <1>1
<1>3. /\ r.out[1].frame = Next1(c) /\ r.out[1].link = p /\ Next1(c) \in AnyFrame
      /\ Next1(c).type = type
  BY <1>2 DEF Next1, Arrives, Sending
<1>4. ASSUME type = "update"
      PROVE  Next1(c).envelope \in Sealed(r) /\ Next1(c).envelope \in SealedText
  <2>1. Next1(c).envelope \in Sealed(r)
    BY <1>2, <1>3, <1>4 DEF Sealed
  <2> QED  BY <1>1, <2>1 DEF ClientOK, ClockOK, Own
<1> QED  BY <1>1, <1>2, <1>3, <1>4

-----------------------------------------------------------------------------
(* Frames that reach the server *)

\* A frame is lost.
LEMMA LoseKeepsInv ==
    ASSUME Inv, NEW c \in Clients, LoseFrame(c)
    PROVE  Inv'
<1> DEFINE q == [clients[c] EXCEPT !.out = Tail(@)]
<1>1. ClientOK(c, q, inbox[c])
  BY TakenKeeps DEF Inv, LoseFrame
<1>2. Become(c, q) /\ UNCHANGED serverVars /\ UNCHANGED inbox
  BY DEF LoseFrame, Taken
<1> HIDE DEF q
<1> QED  BY <1>1, <1>2, QuietStep

\* A frame that only moves the barrier.
LEMMA TakenStep ==
    ASSUME Inv, NEW P, NEW Q, Moved(P, Q), NEW c \in Clients, clients[c].out # <<>>, Taken(c),
           Q \subseteq Entered,
           \A d \in Clients : clients[d].link \in P => clients[d].held = barrier.id /\ clients[d].drained,
           UNCHANGED <<documentVars, sockets, answers, log, archive>>,
           inbox' \in [Clients -> Seq(AnyFrame)], \A d \in Clients : HearsTruth(d)
    PROVE  Inv'
<1>1. DocumentStays
  <2>1. LogInv /\ UNCHANGED documentVars
    BY DEF Inv, ServerOK
  <2> QED  BY <2>1, SameDocument
<1>2. SocketsMove
  <2>1. RoomOK /\ UNCHANGED sockets
    BY DEF Inv, ServerOK
  <2> QED  BY <2>1, SameSockets
<1>3. AnswersOK'
  BY DEF Inv, ServerOK, StoredOK, AnswersOK, Logged, EditsOf
<1>4. Q \subseteq Entered' /\ UNCHANGED <<log, archive>>
  BY DEF Entered
<1> QED  BY <1>1, <1>2, <1>3, <1>4, TakingStep

\* An update is refused.
LEMMA RefuseKeepsInv ==
    ASSUME Inv, NEW c \in Clients, NEW p \in Connections, RefuseUpdate(c, p)
    PROVE  Inv'
<1>1. IInv /\ inbox \in [Clients -> Seq(AnyFrame)]
  BY DEF Inv, ServerOK
<1>2. clients[c].out # <<>> /\ Taken(c) /\ UNCHANGED <<documentVars, sockets, answers, log, archive>>
  BY NextIs DEF RefuseUpdate
<1>3. Moved({}, {})
  BY <1>1, AdmitMoves, StillMoves DEF RefuseUpdate
<1>4. PICK code \in Codes : Broadcast(To(p, Rejected(code)))
  BY DEF RefuseUpdate, Codes, Refusal
<1>5. inbox' \in [Clients -> Seq(AnyFrame)] /\ \A d \in Clients : HearsTruth(d)
  <2>1. PICK f : f = Rejected(code)
    OBVIOUS
  <2>2. f \in AnyFrame /\ f.type = "rejected" /\ Broadcast(To(p, f))
    BY <1>4, <2>1, RejectedFrame
  <2> QED  BY <1>1, <1>3, <2>2, OneSaid
<1> QED  BY <1>2, <1>3, <1>5, TakenStep

\* A compaction is asked for.
LEMMA RequestKeepsInv ==
    ASSUME Inv, NEW c \in Clients, NEW p \in Connections, TakeRequest(c, p)
    PROVE  Inv'
<1> DEFINE room == {q \in Connections : sockets[q] = "open"}
<1>1. IInv /\ inbox \in [Clients -> Seq(AnyFrame)] /\ c \in Users /\ room \in SUBSET Connections
      /\ room \subseteq Entered
  BY ClientConstants DEF ClientConstants, Inv, ServerOK, Entered
<1>2. clients[c].out # <<>> /\ Taken(c) /\ UNCHANGED <<documentVars, sockets, answers, log, archive>>
  BY NextIs DEF TakeRequest
<1>3. \/ OpenCompaction(p, c, room) /\ Broadcast(Nothing)
      \/ UNCHANGED coordinatorVars /\ Broadcast(Nothing)
      \/ UNCHANGED coordinatorVars /\ Broadcast(To(p, BarrierFrame(barrier)))
      \/ \E code \in Codes : UNCHANGED coordinatorVars /\ Broadcast(To(p, Rejected(code)))
  BY DEF TakeRequest, Codes
<1> HIDE DEF room
<1>4. CASE OpenCompaction(p, c, room) /\ Broadcast(Nothing)
  <2>1. Moved({}, room)
    BY <1>1, <1>4, OpenedMoves
  <2>2. inbox' \in [Clients -> Seq(AnyFrame)] /\ \A d \in Clients : HearsTruth(d)
    BY <1>1, <1>4, <2>1, NothingSaid
  <2> QED  BY <1>1, <1>2, <2>1, <2>2, TakenStep
<1>5. CASE UNCHANGED coordinatorVars /\ Broadcast(Nothing)
  <2>1. Moved({}, {})
    BY <1>1, <1>5, StillMoves
  <2>2. inbox' \in [Clients -> Seq(AnyFrame)] /\ \A d \in Clients : HearsTruth(d)
    BY <1>1, <1>5, <2>1, NothingSaid
  <2> QED  BY <1>2, <2>1, <2>2, TakenStep
<1>6. CASE UNCHANGED coordinatorVars /\ Broadcast(To(p, BarrierFrame(barrier)))
  <2>1. Moved({}, {})
    BY <1>1, <1>6, StillMoves
  <2>2. PICK f : f = BarrierFrame(barrier)
    OBVIOUS
  <2>3. f \in AnyFrame /\ f.type = "barrier" /\ f.id <= issued' /\ Broadcast(To(p, f))
    BY <1>1, <1>6, <2>2, BarrierToJoin DEF coordinatorVars
  <2>4. inbox' \in [Clients -> Seq(AnyFrame)] /\ \A d \in Clients : HearsTruth(d)
    BY <1>1, <2>1, <2>3, OneSaid
  <2> QED  BY <1>2, <2>1, <2>4, TakenStep
<1>7. ASSUME NEW code \in Codes, UNCHANGED coordinatorVars, Broadcast(To(p, Rejected(code)))
      PROVE  Inv'
  <2>1. Moved({}, {})
    BY <1>1, <1>7, StillMoves
  <2>2. PICK f : f = Rejected(code)
    OBVIOUS
  <2>3. f \in AnyFrame /\ f.type = "rejected" /\ Broadcast(To(p, f))
    BY <1>7, <2>2, RejectedFrame
  <2>4. inbox' \in [Clients -> Seq(AnyFrame)] /\ \A d \in Clients : HearsTruth(d)
    BY <1>1, <2>1, <2>3, OneSaid
  <2> QED  BY <1>2, <2>1, <2>4, TakenStep
<1> QED  BY <1>3, <1>4, <1>5, <1>6, <1>7

\* A client has drained.
LEMMA DrainedKeepsInv ==
    ASSUME Inv, NEW c \in Clients, NEW p \in Connections, TakeDrained(c, p)
    PROVE  Inv'
<1> DEFINE id == Next1(c).id
<1>1. IInv /\ inbox \in [Clients -> Seq(AnyFrame)]
  BY DEF Inv, ServerOK
<1>2. /\ clients[c].out # <<>> /\ Taken(c) /\ UNCHANGED <<documentVars, sockets, answers, log, archive>>
      /\ Broadcast(Nothing) /\ Arrives(c, p, "drained")
  BY NextIs DEF TakeDrained
<1>3. CASE Acknowledge(id, p) \/ CompletionDrained(id, p)
  <2>1. Moved({p}, {}) /\ Live(id)
    BY <1>1, <1>3, DrainedMoves
  <2>2. inbox' \in [Clients -> Seq(AnyFrame)] /\ \A d \in Clients : HearsTruth(d)
    BY <1>1, <1>2, <2>1, NothingSaid
  <2>3. ASSUME NEW d \in Clients, clients[d].link = p
        PROVE  clients[d].held = barrier.id /\ clients[d].drained
    <3>1. /\ 1 \in DOMAIN clients[c].out /\ clients[c].out[1].frame.type = "drained"
          /\ clients[c].out[1].frame.id = id /\ clients[c].out[1].link = p
      BY <1>2, NextIs
    <3>2. DrainOK(c, clients[c]) /\ DrainOK(d, clients[d])
      BY DEF Inv, ClientOK
    <3>3. ClientOf(p) = c
      BY <3>1, <3>2 DEF DrainOK
    <3>4. ClientOf(p) = d
      BY <2>3, <3>2, NoLinkIsNoConnection DEF DrainOK
    <3> QED  BY <2>1, <2>3, <3>1, <3>2, <3>3, <3>4 DEF DrainOK, Live
  <2>4. \A d \in Clients : clients[d].link \in {p} => clients[d].held = barrier.id /\ clients[d].drained
    BY <2>3
  <2> QED  BY <1>2, <2>1, <2>2, <2>4, TakenStep
<1>4. CASE UNCHANGED coordinatorVars
  <2>1. Moved({}, {})
    BY <1>1, <1>4, StillMoves
  <2>2. inbox' \in [Clients -> Seq(AnyFrame)] /\ \A d \in Clients : HearsTruth(d)
    BY <1>1, <1>2, <2>1, NothingSaid
  <2> QED  BY <1>2, <2>1, <2>2, TakenStep
<1> QED  BY <1>3, <1>4 DEF TakeDrained

\* A client has confirmed, or reports a failure.
LEMMA ConfirmedKeepsInv ==
    ASSUME Inv, NEW c \in Clients, NEW p \in Connections, TakeConfirmed(c, p) \/ TakeFailed(c, p)
    PROVE  Inv'
<1>1. IInv /\ inbox \in [Clients -> Seq(AnyFrame)]
  BY DEF Inv, ServerOK
<1>2. /\ clients[c].out # <<>> /\ Taken(c) /\ UNCHANGED <<documentVars, sockets, answers, log, archive>>
      /\ Broadcast(Nothing)
  BY NextIs DEF TakeConfirmed, TakeFailed
<1>3. Moved({}, {})
  <2>1. CASE TakeConfirmed(c, p)
    <3>1. Next1(c).sequence \in Nat
      BY <2>1, NextIs DEF TakeConfirmed, AnyFrame
    <3> QED  BY <1>1, <2>1, <3>1, ConfirmedMoves, StillMoves DEF TakeConfirmed
  <2>2. CASE TakeFailed(c, p)
    BY <1>1, <2>2, GivenUpMoves, StillMoves DEF TakeFailed
  <2> QED  BY <2>1, <2>2
<1>4. inbox' \in [Clients -> Seq(AnyFrame)] /\ \A d \in Clients : HearsTruth(d)
  BY <1>1, <1>2, <1>3, NothingSaid
<1> QED  BY <1>2, <1>3, <1>4, TakenStep

\* An update comes a second time.
LEMMA RepeatKeepsInv ==
    ASSUME Inv, NEW c \in Clients, NEW p \in Connections, RepeatUpdate(c, p)
    PROVE  Inv'
<1> DEFINE x == Next1(c).envelope
<1>1. /\ IInv /\ LogInv /\ RoomOK /\ AnswersOK /\ inbox \in [Clients -> Seq(AnyFrame)]
  BY DEF Inv, ServerOK, StoredOK
<1>2. /\ clients[c].out # <<>> /\ x \in SealedText
      /\ Taken(c) /\ Admit(p) /\ Broadcast(Nothing)
      /\ UNCHANGED documentVars /\ UNCHANGED sockets /\ UNCHANGED log /\ UNCHANGED archive
  BY NextIs DEF RepeatUpdate
<1>3. PICK u \in Row(x) : /\ log[u.sequence].edit = x.edit
                          /\ answers' = answers \cup {[link |-> p, envelope |-> x,
                                                       sequence |-> u.sequence]}
  BY DEF RepeatUpdate
<1>4. u.sequence \in 1..Len(log)
  <2>1. u \in updates /\ u.sequence \in (snapshot.covered + 1)..currentServerSequence
    BY <1>1 DEF Row, LogInv, LogIsSound, LogIsGapless
  <2> QED  BY <2>1, StoredIs
<1>5. Moved({}, {})
  BY <1>1, <1>2, AdmitMoves
<1>6. inbox' \in [Clients -> Seq(AnyFrame)] /\ \A d \in Clients : HearsTruth(d)
  BY <1>1, <1>2, <1>5, NothingSaid
<1>7. AnswersOK'
  <2>1. Logged' = Logged
    BY <1>2 DEF Logged, EditsOf
  <2>2. x.edit \in Logged
    BY <1>3, <1>4, StoredIs
  <2>3. u.sequence \in Nat
    BY <1>4
  <2> HIDE DEF x
  <2> QED  BY <1>1, <1>2, <1>3, <2>1, <2>2, <2>3 DEF AnswersOK
<1>8. DocumentStays /\ SocketsMove
  BY <1>1, <1>2, SameDocument, SameSockets
<1> QED  BY <1>2, <1>5, <1>6, <1>7, <1>8, TakingStep

-----------------------------------------------------------------------------
(* What the server does by itself *)

\* The barrier moves, nothing else does.
LEMMA RoundStep ==
    ASSUME Inv, NEW Q, Moved({}, Q), Q \subseteq Entered, DocumentStays,
           UNCHANGED <<clients, sockets, answers, log, archive>>,
           Broadcast(Nothing) \/ UNCHANGED inbox
    PROVE  Inv'
<1>1. /\ IInv /\ RoomOK /\ AnswersOK /\ inbox \in [Clients -> Seq(AnyFrame)]
  BY DEF Inv, ServerOK, StoredOK
<1>2. SocketsMove /\ Q \subseteq Entered'
  BY <1>1, SameSockets DEF Entered
<1>3. AnswersOK'
  BY <1>1 DEF AnswersOK, Logged, EditsOf
<1>4. inbox' \in [Clients -> Seq(AnyFrame)] /\ \A d \in Clients : HearsTruth(d)
  BY <1>1, NothingSaid, SilenceIsTrue
<1> QED  BY <1>2, <1>3, <1>4, AsideStep

\* What the invariant says of the server, in parts.
LEMMA ServerIs ==
    ASSUME Inv
    PROVE  /\ IInv /\ LogInv /\ DocumentTypeOK /\ Users = Clients /\ Transactions = BarrierIds
           /\ currentServerSequence \in Sequences /\ currentServerSequence \in Nat
           /\ currentServerSequence \in 0..MaxSequence
           /\ \A d \in Clients : ClientOK(d, clients[d], inbox[d]) /\ clients[d] \in Client
  BY ClientConstants, StoredIs DEF ClientConstants, Inv, ServerOK, LogInv, DocumentTypeOK, ClientOK

\* The methods that end with notices to the room.
LEMMA QuietRoundKeepsInv ==
    ASSUME Inv,
           \/ \E c \in Clients : PrepareCompletion(c) \/ WithdrawCompletion(c)
           \/ ReadSequence
           \/ Expire
    PROVE  Inv'
<1>1. /\ UNCHANGED documentVars /\ UNCHANGED <<clients, sockets, answers, log, archive>>
      /\ Broadcast(Nothing)
  BY DEF PrepareCompletion, WithdrawCompletion, ReadSequence, Expire
<1>2. Moved({}, {})
  BY ServerIs, BegunMoves, GivenUpMoves, CapturedMoves
  DEF PrepareCompletion, WithdrawCompletion, ReadSequence, Expire
<1>3. DocumentStays
  BY <1>1, ServerIs, SameDocument
<1> QED  BY <1>1, <1>2, <1>3, RoundStep

\* An operation of the document that keeps its log.
LEMMA OtherDocument ==
    ASSUME LogInv,
           \/ \E t \in Transactions, S \in SUBSET Statuses : LockMeeting(t, S)
           \/ \E t \in Transactions : Rollback(t)
           \/ \E t \in Transactions, s \in 0..MaxSequence : CommitCompletion(t, s)
    PROVE  DocumentStays
<1>1. LogInv'
  BY NextPreservesLogInv DEF DocumentNext
<1> QED  BY <1>1 DEF DocumentStays, LockMeeting, Rollback, CommitCompletion

\* A completion is submitted.
LEMMA SubmitKeepsInv ==
    ASSUME Inv, NEW c \in Clients, SubmitCompletion(c)
    PROVE  Inv'
<1>1. /\ ClaimCompletionSubmission(c) /\ LockMeeting(barrier.id, {"in_progress"})
      /\ UNCHANGED <<clients, sockets, answers, log, archive>> /\ UNCHANGED inbox
  BY DEF SubmitCompletion
<1>2. Moved({}, {})
  BY <1>1, ServerIs, ClaimedMoves
<1>3. DocumentStays
  <2>1. barrier.id \in Transactions
    BY ServerIs, BarrierIs DEF SubmitCompletion, Granted, Open
  <2> QED  BY <1>1, <2>1, ServerIs, OtherDocument DEF Statuses
<1> QED  BY <1>1, <1>2, <1>3, RoundStep

\* A completion ends.
LEMMA FinishKeepsInv ==
    ASSUME Inv, FinishCompletion
    PROVE  Inv'
<1> DEFINE id == barrier.id
<1>1. /\ UNCHANGED <<clients, sockets, answers, log, archive>> /\ Broadcast(Nothing)
      /\ Complete(id) \/ Fail(id)
  BY DEF FinishCompletion
<1>2. id \in BarrierIds /\ Claimed(id)
  BY ServerIs, BarrierIs DEF FinishCompletion, Open, Claimed
<1>3. Moved({}, {})
  BY <1>1, <1>2, ServerIs, FinishedMoves
<1>4. DocumentStays
  BY <1>2, ServerIs, OtherDocument DEF FinishCompletion
<1> QED  BY <1>1, <1>3, <1>4, RoundStep

\* Everybody has drained: the compactor may begin.
LEMMA BeginKeepsInv ==
    ASSUME Inv, BeginReplacement
    PROVE  Inv'
<1> DEFINE p == barrier.compactor
           there == sockets[p] = "open"
           f == Frame("ready", barrier.id, currentServerSequence, NoEnvelope, "")
<1>1. /\ IInv /\ LogInv /\ RoomOK /\ AnswersOK /\ inbox \in [Clients -> Seq(AnyFrame)]
      /\ UNCHANGED documentVars /\ UNCHANGED clients /\ UNCHANGED sockets /\ UNCHANGED answers
      /\ UNCHANGED <<log, archive>>
      /\ Ready(barrier.id, currentServerSequence, there)
      /\ Broadcast(To(p, f)) \/ Broadcast(Nothing)
  BY DEF Inv, ServerOK, StoredOK, BeginReplacement
<1>2. Moved({}, {})
  <2>1. there \in BOOLEAN
    OBVIOUS
  <2> HIDE DEF there
  <2> QED  BY <1>1, <2>1, ServerIs, ReadyMoves
<1>3. f \in AnyFrame /\ f.type = "ready" /\ f.id <= issued'
  <2>1. barrier.id <= issued /\ barrier.id \in Nat /\ "" \in Codes
    BY <1>1, BarrierToJoin DEF Codes
  <2>2. UNCHANGED issued
    BY <1>1 DEF Ready
  <2>3. f \in AnyFrame
    BY <2>1, ServerIs, PlainFrame DEF FrameTypes
  <2> QED  BY <2>1, <2>2, <2>3 DEF Frame
<1> HIDE DEF f
<1>4. inbox' \in [Clients -> Seq(AnyFrame)] /\ \A d \in Clients : HearsTruth(d)
  BY <1>1, <1>2, <1>3, NothingSaid, OneSaid
<1>5. AnswersOK' /\ DocumentStays /\ SocketsMove
  BY <1>1, SameDocument, SameSockets DEF AnswersOK, Logged, EditsOf
<1> QED  BY <1>1, <1>2, <1>4, <1>5, AsideStep

\* The answer to an update.
LEMMA AnswerKeepsInv ==
    ASSUME Inv, NEW a \in answers, AnswerUpdate(a)
    PROVE  Inv'
<1>1. /\ IInv /\ LogInv /\ RoomOK /\ AnswersOK /\ inbox \in [Clients -> Seq(AnyFrame)]
      /\ UNCHANGED coordinatorVars /\ UNCHANGED documentVars /\ UNCHANGED clients
      /\ UNCHANGED sockets /\ UNCHANGED <<log, archive>> /\ answers' = answers \ {a}
  BY DEF Inv, ServerOK, StoredOK, AnswerUpdate
<1>2. Moved({}, {}) /\ DocumentStays /\ SocketsMove
  BY <1>1, StillMoves, SameDocument, SameSockets
<1>3. Logged' = Logged /\ AnswersOK'
  BY <1>1 DEF AnswersOK, Logged, EditsOf
<1>4. a.envelope \in SealedText /\ a.sequence \in Nat /\ a.envelope.edit \in Logged'
  BY <1>1, <1>3 DEF AnswersOK
<1>5. ASSUME NEW c \in Clients
      PROVE  HearsTruth(c) /\ inbox'[c] \in Seq(AnyFrame)
  <2>1. inbox[c] \in Seq(AnyFrame)
    BY <1>1
  <2>2. ASSUME NEW type \in {"acknowledged", "update"}, NEW f,
               f = Frame(type, 0, a.sequence, a.envelope, ""), inbox'[c] = Append(inbox[c], f)
        PROVE  HearsTruth(c) /\ inbox'[c] \in Seq(AnyFrame)
    <3>1. /\ f \in AnyFrame /\ f.envelope.edit \in Logged'
          /\ f.type \notin {"authenticated", "barrier", "released", "ready"}
      BY <1>4, <2>2 DEF Frame, AnyFrame, FrameTypes, Codes
    <3>2. PICK ext : ext = <<f>>
      OBVIOUS
    <3>3. ext = IF TRUE THEN <<f>> ELSE <<>>
      BY <3>2
    <3>4. ext \in Seq(AnyFrame) /\ TrueFrames(ext)'
      BY <3>1, <3>3, TrueFew
    <3>5. Append(inbox[c], f) = inbox[c] \o ext /\ Append(inbox[c], f) \in Seq(AnyFrame)
      BY <2>1, <3>1, <3>2, AppendIsConcat, AppendHas
    <3> QED  BY <2>2, <3>4, <3>5 DEF HearsTruth
  <2>3. \/ inbox'[c] = inbox[c]
        \/ inbox'[c] = Append(inbox[c], Frame("acknowledged", 0, a.sequence, a.envelope, ""))
        \/ inbox'[c] = Append(inbox[c], Frame("update", 0, a.sequence, a.envelope, ""))
    BY DEF AnswerUpdate
  <2> QED  BY <2>1, <2>2, <2>3, SilenceIsTrue
<1>6. inbox' = [c \in Clients |-> inbox'[c]]
  BY DEF AnswerUpdate
<1>7. inbox' \in [Clients -> Seq(AnyFrame)]
  BY <1>5, <1>6
<1> QED  BY <1>1, <1>2, <1>3, <1>5, <1>7, AsideStep

\* A socket is removed; the others are told.
LEMMA RemoveKeepsInv ==
    ASSUME Inv, NEW p \in Connections, RemoveSocket(p)
    PROVE  Inv'
<1>1. /\ IInv /\ LogInv /\ RoomOK /\ AnswersOK /\ inbox \in [Clients -> Seq(AnyFrame)]
      /\ UNCHANGED documentVars /\ UNCHANGED clients /\ UNCHANGED answers
      /\ UNCHANGED <<log, archive>> /\ Disconnected(p)
      /\ sockets[p] \in {"connecting", "open"}
      /\ sockets' = [sockets EXCEPT ![p] = "closed"]
  BY DEF Inv, ServerOK, StoredOK, RemoveSocket
<1>2. Moved({}, {}) /\ DocumentStays
  BY <1>1, GivenUpMoves, SameDocument
<1>3. SocketsMove
  BY <1>1 DEF RoomOK, SocketsMove, Entered
<1>4. AnswersOK'
  BY <1>1 DEF AnswersOK, Logged, EditsOf
<1>5. PICK n \in Seq(AnyFrame) : n = Notices /\ TrueFrames(n)'
  BY <1>1, <1>2, NoticesAreTrue
<1>6. ASSUME NEW c \in Clients
      PROVE  HearsTruth(c) /\ inbox'[c] \in Seq(AnyFrame)
  <2>1. inbox[c] \in Seq(AnyFrame) /\ (inbox'[c] = inbox[c] \o n \/ inbox'[c] = inbox[c])
    BY <1>1, <1>5 DEF RemoveSocket
  <2>2. inbox[c] \o n \in Seq(AnyFrame)
    BY <1>5, <2>1
  <2> QED  BY <1>5, <2>1, <2>2, SilenceIsTrue DEF HearsTruth
<1>7. inbox' = [c \in Clients |-> inbox'[c]]
  BY DEF RemoveSocket
<1>8. inbox' \in [Clients -> Seq(AnyFrame)]
  BY <1>6, <1>7
<1> QED  BY <1>1, <1>2, <1>3, <1>4, <1>6, <1>8, AsideStep

\* A client that joins is told whether there is a barrier, before anything else.
LEMMA WelcomedKeeps ==
    ASSUME NEW c, NEW r, NEW in, NEW f \in AnyFrame, ClientOK(c, r, in)',
           f.type = "authenticated", f.id = barrier'.id
    PROVE  ClientOK(c, r, in \o <<f>>)'
<1> DEFINE all == in \o <<f>>
<1>1. in \in Seq(AnyFrame) /\ <<f>> \in Seq(AnyFrame) /\ Len(<<f>>) = 1 /\ <<f>>[1] = f
  BY DEF ClientOK
<1>2. /\ all \in Seq(AnyFrame) /\ Len(in) \in Nat /\ DOMAIN in = 1..Len(in)
      /\ DOMAIN all = 1..(Len(in) + 1)
      /\ \A k \in 1..Len(in) : all[k] = in[k]
      /\ all[Len(in) + 1] = f
  BY <1>1
<1>3. in # <<>> => Head(all) = Head(in) /\ all # <<>>
  BY <1>1
<1> HIDE DEF all
<1>4. \A k \in DOMAIN all : (k \in DOMAIN in /\ all[k] = in[k]) \/ all[k] = f
  BY <1>2
<1>5. \A k \in DOMAIN all : \A l \in 1..(k - 1) : l \in DOMAIN in /\ all[l] = in[l]
  BY <1>2
<1>6. InboxOK(all)'
  <2>1. ASSUME NEW k \in DOMAIN all
        PROVE  /\ all[k].type = "acknowledged" => all[k].envelope.edit \in Logged'
               /\ all[k].type \in {"barrier", "released", "ready"} => all[k].id <= issued'
               /\ all[k].type = "released" => ~Live(all[k].id)' /\ all[k].code \in Outcomes \ {"none"}
    BY <1>4 DEF ClientOK, InboxOK
  <2>2. ASSUME NEW k \in DOMAIN all, all[k].type = "authenticated", NEW l \in 1..(k - 1),
               all[l].type = "barrier", Live(all[l].id)'
        PROVE  all[l].id = all[k].id
    <3>1. CASE all[k] = f
      BY <2>2, <3>1 DEF Live
    <3>2. CASE k \in DOMAIN in /\ all[k] = in[k]
      BY <1>5, <2>2, <3>2 DEF ClientOK, InboxOK
    <3> QED  BY <1>4, <3>1, <3>2
  <2> QED  BY <2>1, <2>2 DEF InboxOK
<1>7. HeldOK(r, all)'
  <2>1. ASSUME NEW k \in DOMAIN all, all[k].type = "authenticated", Live(r.held)'
        PROVE  all[k].id = r.held
    <3>1. CASE all[k] = f
      BY <2>1, <3>1 DEF Live
    <3>2. CASE k \in DOMAIN in /\ all[k] = in[k]
      BY <2>1, <3>2 DEF ClientOK, HeldOK
    <3> QED  BY <1>4, <3>1, <3>2
  <2>2. r.busy => Head(all) = Head(in)
    BY <1>3 DEF ClientOK, AwaitOK
  <2> QED  BY <2>1, <2>2 DEF ClientOK, HeldOK
<1>8. AwaitOK(r, all)'
  BY <1>3 DEF ClientOK, AwaitOK
<1>9. (all \in Seq(AnyFrame))'
  BY <1>2 DEF AnyFrame
<1> QED  BY <1>6, <1>7, <1>8, <1>9 DEF ClientOK, all

\* A socket joins the room.
LEMMA AuthenticateKeepsInv ==
    ASSUME Inv, NEW p \in Connections, Authenticate(p)
    PROVE  Inv'
<1> DEFINE c == ClientOf(p)
<1>1. /\ IInv /\ LogInv /\ RoomOK /\ AnswersOK /\ inbox \in [Clients -> Seq(AnyFrame)]
      /\ UNCHANGED documentVars /\ UNCHANGED clients /\ UNCHANGED answers
      /\ UNCHANGED <<log, archive>> /\ Join(p)
      /\ sockets[p] = "connecting"
      /\ sockets' = [sockets EXCEPT ![p] = "open"]
  BY DEF Inv, ServerOK, StoredOK, Authenticate
<1>2. p \notin barrier.participants /\ c \in Clients
  BY <1>1, ClientConstants DEF ClientConstants, RoomOK, Entered, ClientOf
<1>3. /\ Moved({}, {p}) /\ barrier'.id = barrier.id /\ Open' = Open /\ UNCHANGED issued
  BY <1>1, <1>2, JoinedMoves DEF Join
<1>4. SocketsMove /\ {p} \subseteq Entered' /\ DocumentStays
  BY <1>1, SameDocument DEF RoomOK, SocketsMove, Entered
<1>5. AnswersOK'
  BY <1>1 DEF AnswersOK, Logged, EditsOf
<1>6. ServerOK' /\ ServerMoves
  BY <1>1, <1>3, <1>4, <1>5, ServerKeeps
<1>7. PICK f : f = Frame("authenticated", barrier'.id, 0, NoEnvelope, "")
  OBVIOUS
<1>8. PICK b : b = BarrierFrame(barrier)
  OBVIOUS
<1>9. f \in AnyFrame /\ f.type = "authenticated" /\ f.id = barrier'.id
  <2>1. barrier'.id \in Nat /\ "" \in Codes
    BY <1>1, <1>3, BarrierToJoin DEF Codes
  <2>2. f \in AnyFrame
    BY <1>7, <2>1, PlainFrame DEF FrameTypes
  <2> QED  BY <1>7, <2>2 DEF Frame
<1>10. b \in AnyFrame /\ b.type = "barrier" /\ b.id <= issued'
  BY <1>1, <1>3, <1>8, BarrierToJoin
<1>11. PICK ext : ext = IF Open THEN <<b>> ELSE <<>>
  OBVIOUS
<1>12. ext \in Seq(AnyFrame) /\ TrueFrames(ext)'
  <2>1. Open \in BOOLEAN
    BY DEF Open
  <2> QED  BY <1>10, <1>11, <2>1, TrueFew
<1>13. inbox' = [inbox EXCEPT ![c] = @ \o <<f>> \o ext]
  BY <1>7, <1>8, <1>11 DEF Authenticate
<1>14. ASSUME NEW d \in Clients, NEW r, r = clients[d]
       PROVE  StandsBy(d, r) /\ ClientOK(d, r, inbox[d])
  <2>1. ClientOK(d, r, inbox[d])
    BY <1>14 DEF Inv
  <2>2. ClockOK(d, r)'
    BY <1>1, <2>1, SameLogSameClocks DEF ClientOK
  <2> QED  BY <1>1, <1>3, <2>1, <2>2, StandsByMoves
<1>15. ASSUME NEW d \in Clients
       PROVE  ClientOK(d, clients[d], inbox[d])' /\ inbox'[d] \in Seq(AnyFrame)
  <2>1. PICK r : r = clients[d]
    OBVIOUS
  <2>2. PICK now : now = inbox[d]
    OBVIOUS
  <2>3. PICK later : later = inbox'[d]
    OBVIOUS
  <2>4. ClientOK(d, r, now)' /\ now \in Seq(AnyFrame)
    BY <1>1, <1>6, <1>14, <2>1, <2>2, MovedKeeps
  <2>5. CASE d # c
    <3>1. later = now
      BY <1>1, <1>13, <2>2, <2>3, <2>5
    <3> QED  BY <1>1, <2>1, <2>3, <2>4, <3>1
  <2>6. CASE d = c
    <3>1. later = now \o <<f>> \o ext
      BY <1>1, <1>2, <1>13, <2>2, <2>3, <2>6
    <3>2. PICK first : first = now \o <<f>>
      OBVIOUS
    <3>3. ClientOK(d, r, first)'
      BY <1>9, <2>4, <3>2, WelcomedKeeps
    <3>4. ClientOK(d, r, first \o ext)'
      BY <1>12, <3>3, HeardKeeps
    <3>5. later = first \o ext
      BY <3>1, <3>2
    <3>6. ClientOK(d, r, later)'
      BY <3>4, <3>5
    <3>7. later \in Seq(AnyFrame)
      BY <1>9, <1>12, <2>4, <3>2, <3>5
    <3> QED  BY <1>1, <2>1, <2>3, <3>6, <3>7
  <2> QED  BY <2>5, <2>6
<1>16. inbox' \in [Clients -> Seq(AnyFrame)]
  <2>1. DOMAIN inbox' = Clients /\ inbox' = [d \in Clients |-> inbox'[d]]
    BY <1>1, <1>13
  <2> QED  BY <1>15, <2>1
<1> QED  BY <1>1, <1>6, <1>15, <1>16 DEF Inv

-----------------------------------------------------------------------------
(* Steps that also change the record of a client *)

\* The server has moved, then the record of c changes.
LEMMA SwitchedKeeps ==
    ASSUME Inv, NEW Q, Moved({}, Q), ServerOK', ServerMoves, UNCHANGED log,
           NEW c \in Clients, NEW q \in Client, clients' = [clients EXCEPT ![c] = q],
           NEW s, s = clients[c], \A in : ClientOK(c, s, in)' => ClientOK(c, q, in)',
           inbox' \in [Clients -> Seq(AnyFrame)], \A d \in Clients : HearsTruth(d)
    PROVE  Inv'
<1>1. ASSUME NEW d \in Clients
      PROVE  ClientOK(d, clients[d], inbox[d])'
  <2>1. PICK r : r = clients[d]
    OBVIOUS
  <2>2. ClientOK(d, r, inbox[d])
    BY <2>1 DEF Inv
  <2>3. ClientOK(d, r, inbox[d])'
    BY <2>2, ClientsKeep
  <2>4. PICK in : in = inbox'[d]
    OBVIOUS
  <2>5. ClientOK(d, r, in)'
    BY <2>3, <2>4
  <2>6. CASE d = c
    <3>1. ClientOK(c, q, in)' /\ clients'[c] = q
      BY <2>1, <2>5, <2>6 DEF Inv
    <3> QED  BY <2>4, <2>6, <3>1
  <2>7. CASE d # c
    <3>1. clients'[d] = r
      BY <2>1, <2>7 DEF Inv
    <3> QED  BY <2>3, <3>1
  <2> QED  BY <2>6, <2>7
<1>2. clients' \in [Clients -> Client]
  BY DEF Inv
<1> QED  BY <1>1, <1>2 DEF Inv

\* ... in a step that stores nothing.
LEMMA SwitchStep ==
    ASSUME Inv, Moved({}, {}), DocumentStays, UNCHANGED <<log, archive>>, SocketsMove, AnswersOK',
           NEW c \in Clients, NEW q \in Client, clients' = [clients EXCEPT ![c] = q],
           NEW s, s = clients[c], \A in : ClientOK(c, s, in)' => ClientOK(c, q, in)',
           inbox' \in [Clients -> Seq(AnyFrame)], \A d \in Clients : HearsTruth(d)
    PROVE  Inv'
<1>1. {} \subseteq Entered'
  OBVIOUS
<1>2. ServerOK' /\ ServerMoves
  BY <1>1, ServerKeeps
<1> QED  BY <1>2, SwitchedKeeps

\* connect: a client takes a fresh socket.
LEMMA LinkedKeeps ==
    ASSUME NEW c, NEW r, NEW in, ClientOK(c, r, in)', NEW p \in Connections, r.link = NoLink,
           ClientOf(p) = c, sockets'[p] # "new", p \notin barrier'.drained,
           \A i \in DOMAIN r.out : r.out[i].link # p
    PROVE  ClientOK(c, [r EXCEPT !.link = p], in)'
<1> DEFINE q == [r EXCEPT !.link = p]
<1>1. r \in Client
  BY DEF ClientOK, Client, SealedText, Sending, AnyFrame, AnyJob, AnyPost, Copy, Edits
<1>2. q \in Client
  BY <1>1, ZenonT(60) DEF Client
<1>3. /\ q.link = p /\ q.stopped = r.stopped /\ q.made = r.made /\ q.rotation = r.rotation
      /\ q.jobs = r.jobs /\ q.busy = r.busy /\ q.post = r.post /\ q.paused = r.paused
      /\ q.held = r.held /\ q.drained = r.drained /\ q.clock = r.clock
      /\ q.pending = r.pending /\ q.doc = r.doc /\ q.out = r.out
  BY <1>1 DEF Client
<1> HIDE DEF q
<1>4. ClockOK(c, q)'
  BY <1>3 DEF ClientOK, ClockOK, Own, Sealed, Spent
<1>5. EditOK(c, q)'
  <2>1. Waits(q) = Waits(r)
    BY <1>3 DEF Waits, JobsOf
  <2> QED  BY <1>3, <2>1 DEF ClientOK, EditOK
<1>6. SettledOK(q)'
  BY <1>3 DEF ClientOK, SettledOK, Encrypting, JobsOf
<1>7. DrainOK(c, q)'
  BY <1>3 DEF ClientOK, DrainOK
<1>8. HeldOK(q, in)' /\ ReadsOK(q)' /\ PostOK(q.post)' /\ AwaitOK(q, in)'
  BY <1>3 DEF ClientOK, HeldOK, ReadsOK, AwaitOK
<1>9. (q \in Client)'
  BY <1>2 DEF Client
<1> QED  BY <1>4, <1>5, <1>6, <1>7, <1>8, <1>9 DEF ClientOK, q

\* A client opens a socket, or learns that the Meeting is over.
LEMMA ConnectKeepsInv ==
    ASSUME Inv, NEW c \in Clients, NEW p \in Connections, Connect(c, p)
    PROVE  Inv'
<1>1. CASE Stop(c) /\ UNCHANGED sockets
  BY <1>1, StopStep DEF Connect, serverVars
<1>2. CASE Become(c, [clients[c] EXCEPT !.link = p]) /\ UNCHANGED inbox
           /\ sockets' = [sockets EXCEPT ![p] = "connecting"]
  <2>1. PICK r : r = clients[c]
    OBVIOUS
  <2> DEFINE q == [r EXCEPT !.link = p]
  <2>2. /\ IInv /\ LogInv /\ RoomOK /\ AnswersOK /\ inbox \in [Clients -> Seq(AnyFrame)]
        /\ UNCHANGED coordinatorVars /\ UNCHANGED documentVars /\ UNCHANGED answers
        /\ UNCHANGED <<log, archive>>
        /\ clients[c].link = NoLink /\ sockets[p] = "new" /\ ClientOf(p) = c
    BY DEF Inv, ServerOK, StoredOK, Connect
  <2>3. Moved({}, {}) /\ DocumentStays
    BY <2>2, StillMoves, SameDocument
  <2>4. SocketsMove /\ sockets'[p] # "new"
    BY <1>2, <2>2 DEF RoomOK, SocketsMove, Entered
  <2>5. AnswersOK'
    BY <2>2 DEF AnswersOK, Logged, EditsOf
  <2>6. inbox' \in [Clients -> Seq(AnyFrame)] /\ \A d \in Clients : HearsTruth(d)
    BY <1>2, <2>2, SilenceIsTrue
  <2>7. ClientOK(c, r, inbox[c]) /\ r \in Client /\ r.link = NoLink
    BY <2>1, <2>2 DEF Inv
  <2>8. q \in Client
    BY <2>7, ZenonT(60) DEF Client
  <2>9. p \notin barrier'.drained
    <3>1. barrier.drained \subseteq barrier.participants /\ p \notin Entered
      BY <2>2 DEF IInv, Core, GoodBarrier, Entered
    <3> QED  BY <2>2, <3>1 DEF RoomOK, coordinatorVars
  <2>10. \A i \in DOMAIN r.out : r.out[i].link # p
    BY <2>2, <2>7 DEF ClientOK, DrainOK
  <2>11. clients' = [clients EXCEPT ![c] = q]
    BY <1>2, <2>1 DEF Become
  <2>12. \A in : ClientOK(c, r, in)' => ClientOK(c, q, in)'
    BY <2>2, <2>4, <2>7, <2>9, <2>10, LinkedKeeps
  <2> HIDE DEF q
  <2> QED  BY <2>1, <2>2, <2>3, <2>4, <2>5, <2>6, <2>8, <2>11, <2>12, SwitchStep
<1> QED  BY <1>1, <1>2 DEF Connect

\* The request of a replacement goes on.
LEMMA PostedKeeps ==
    ASSUME NEW c, NEW r, NEW in, ClientOK(c, r, in)', NEW step \in {"locked", "stored", "refused"},
           r.post.step # "none",
           step = "locked" => /\ r.post.id \in BarrierIds
                              /\ barrier'.id = r.post.id => barrier'.phase = "committing"
    PROVE  ClientOK(c, [r EXCEPT !.post.step = step], in)'
<1> DEFINE post == [r.post EXCEPT !.step = step]
           q == [r EXCEPT !.post = post]
<1>1. r \in Client /\ r.post \in AnyPost
  <2>1. r \in Client
    BY DEF ClientOK, Client, SealedText, Sending, AnyFrame, AnyJob, AnyPost, Copy, Edits
  <2> QED  BY <2>1 DEF Client
<1>2. post \in AnyPost /\ post.step = step /\ post.id = r.post.id /\ post.sequence = r.post.sequence
      /\ post.parent = r.post.parent /\ post.content = r.post.content
  BY <1>1 DEF AnyPost
<1> HIDE DEF post
<1>3. q \in Client
  BY <1>1, <1>2 DEF Client
<1>4. /\ q.link = r.link /\ q.stopped = r.stopped /\ q.made = r.made /\ q.rotation = r.rotation
      /\ q.jobs = r.jobs /\ q.busy = r.busy /\ q.post = post /\ q.paused = r.paused
      /\ q.held = r.held /\ q.drained = r.drained /\ q.clock = r.clock
      /\ q.pending = r.pending /\ q.doc = r.doc /\ q.out = r.out
  BY <1>1 DEF Client
<1>5. q = [r EXCEPT !.post.step = step]
  BY DEF post
<1> HIDE DEF q
<1>6. ClockOK(c, q)'
  BY <1>4 DEF ClientOK, ClockOK, Own, Sealed, Spent
<1>7. EditOK(c, q)'
  <2>1. Waits(q) = Waits(r)
    BY <1>4 DEF Waits, JobsOf
  <2> QED  BY <1>4, <2>1 DEF ClientOK, EditOK
<1>8. SettledOK(q)' /\ DrainOK(c, q)'
  BY <1>4 DEF ClientOK, SettledOK, Encrypting, JobsOf, DrainOK
<1>9. HeldOK(q, in)' /\ ReadsOK(q)'
  BY <1>4 DEF ClientOK, HeldOK, ReadsOK
<1>10. PostOK(q.post)'
  BY <1>2, <1>4 DEF ClientOK, PostOK, CopyOK
<1>11. AwaitOK(q, in)'
  BY <1>2, <1>4 DEF ClientOK, AwaitOK
<1>12. (q \in Client)'
  BY <1>3 DEF Client
<1> QED  BY <1>5, <1>6, <1>7, <1>8, <1>9, <1>10, <1>11, <1>12 DEF ClientOK

\* A step of the request that stores nothing.
LEMMA PostStepStep ==
    ASSUME Inv, Moved({}, {}), DocumentStays, UNCHANGED <<sockets, answers, log, archive>>,
           Broadcast(Nothing) \/ UNCHANGED inbox,
           NEW c \in Clients, NEW step \in {"locked", "stored", "refused"}, PostStep(c, step),
           clients[c].post.step # "none",
           step = "locked" => /\ clients[c].post.id \in BarrierIds
                              /\ barrier'.id = clients[c].post.id => barrier'.phase = "committing"
    PROVE  Inv'
<1>1. PICK r : r = clients[c]
  OBVIOUS
<1> DEFINE q == [r EXCEPT !.post.step = step]
<1>2. /\ IInv /\ LogInv /\ RoomOK /\ AnswersOK /\ inbox \in [Clients -> Seq(AnyFrame)]
      /\ r \in Client
  BY <1>1 DEF Inv, ServerOK, StoredOK
<1>3. SocketsMove
  BY <1>2, SameSockets
<1>4. AnswersOK'
  BY <1>2 DEF AnswersOK, Logged, EditsOf
<1>5. inbox' \in [Clients -> Seq(AnyFrame)] /\ \A d \in Clients : HearsTruth(d)
  BY <1>2, NothingSaid, SilenceIsTrue
<1>6. \A in : ClientOK(c, r, in)' => ClientOK(c, q, in)'
  BY <1>1, PostedKeeps
<1>7. q \in Client
  <2>1. r.post \in AnyPost
    BY <1>2 DEF Client
  <2>2. [r.post EXCEPT !.step = step] \in AnyPost
    BY <2>1 DEF AnyPost
  <2> QED  BY <1>2, <2>2 DEF Client
<1>8. clients' = [clients EXCEPT ![c] = q]
  BY <1>1 DEF PostStep, Become
<1> HIDE DEF q
<1> QED  BY <1>1, <1>3, <1>4, <1>5, <1>6, <1>7, <1>8, SwitchStep

\* The request claims the barrier and the row of the Meeting.
LEMMA ClaimKeepsInv ==
    ASSUME Inv, NEW c \in Clients, ClaimReplacement(c)
    PROVE  Inv'
<1> DEFINE post == clients[c].post
<1>1. /\ UNCHANGED <<sockets, answers, log, archive>> /\ UNCHANGED inbox /\ post.step # "none"
  BY DEF ClaimReplacement
<1>2. CASE /\ barrier.id = post.id /\ barrier.phase = "ready"
           /\ Claim(c) /\ LockMeeting(post.id, OpenStatuses) /\ PostStep(c, "locked")
  <2>1. Moved({}, {}) /\ barrier'.phase = "committing"
    BY <1>2, ServerIs, ClaimedMoves
  <2>2. post.id \in BarrierIds
    BY <1>2, ServerIs, BarrierIs DEF Open
  <2>3. DocumentStays
    BY <1>2, <2>2, ServerIs, OtherDocument DEF OpenStatuses, Statuses
  <2> QED  BY <1>1, <1>2, <2>1, <2>2, <2>3, PostStepStep
<1>3. CASE UNCHANGED <<coordinatorVars, documentVars>> /\ PostStep(c, "refused")
  <2>1. Moved({}, {}) /\ DocumentStays
    BY <1>3, ServerIs, StillMoves, SameDocument
  <2> QED  BY <1>1, <1>3, <2>1, PostStepStep
<1> QED  BY <1>2, <1>3 DEF ClaimReplacement

\* The replacement is rolled back.
LEMMA RollbackKeepsInv ==
    ASSUME Inv, NEW c \in Clients, RollbackReplacement(c)
    PROVE  Inv'
<1> DEFINE post == clients[c].post
<1>1. /\ UNCHANGED <<sockets, answers, log, archive>> /\ Broadcast(Nothing)
      /\ post.step = "locked" /\ Rollback(post.id) /\ Fail(post.id) /\ PostStep(c, "refused")
  BY DEF RollbackReplacement
<1>2. post.id \in BarrierIds /\ Claimed(post.id)
  BY <1>1, ServerIs DEF ClientOK, PostOK, Claimed
<1>3. Moved({}, {})
  BY <1>1, <1>2, ServerIs, FinishedMoves
<1>4. DocumentStays
  BY <1>1, <1>2, ServerIs, OtherDocument
<1> QED  BY <1>1, <1>3, <1>4, PostStepStep

-----------------------------------------------------------------------------
(* Steps that store something *)

\* The snapshot is replaced by the copy of a client that had read the whole log.
LEMMA CommitKeepsInv ==
    ASSUME Inv, NEW c \in Clients, CommitReplacement(c)
    PROVE  Inv'
<1>1. PICK r : r = clients[c]
  OBVIOUS
<1> DEFINE post == r.post
           q == [r EXCEPT !.post.step = "stored"]
<1>2. /\ post.step = "locked" /\ post.parent = snapshot.id /\ post.sequence = currentServerSequence
      /\ ClaimHolds(post.id) /\ CommitCompaction(post.id) /\ Complete(post.id)
      /\ archive' = post.content /\ clients' = [clients EXCEPT ![c] = q]
      /\ Broadcast(Nothing) /\ sockets' = sockets /\ answers' = answers /\ log' = log
  BY <1>1 DEF CommitReplacement, PostStep, Become
<1>3. /\ ClientOK(c, r, inbox[c]) /\ r \in Client /\ IInv /\ LogInv /\ RoomOK /\ StoredOK
      /\ inbox \in [Clients -> Seq(AnyFrame)]
  BY <1>1 DEF Inv, ServerOK, ClientOK
<1>4. /\ post.id \in BarrierIds /\ Claimed(post.id) /\ CopyOK(post) /\ post.id \in Transactions
      /\ Open /\ barrier.id = post.id /\ post.id \in Nat
  BY <1>2, <1>3, ServerIs DEF ClientOK, PostOK, ClaimHolds, Claimed, Open, BarrierIds
<1>5. Moved({}, {})
  BY <1>2, <1>3, <1>4, FinishedMoves
<1>6. ~Open'
  BY <1>2, <1>4 DEF Complete, Finish, Release, Open, NoBarrier
<1>7. LogInv' /\ \A e \in Epochs : LatestClock(e)' = LatestClock(e)
  BY <1>2, <1>3, <1>4, CompactionPreservesLogInv, CompactionMovesNoClock
<1>8. /\ snapshot'.id = post.id /\ snapshot'.covered = currentServerSequence
      /\ currentServerSequence' = currentServerSequence
  BY <1>2 DEF CommitCompaction
<1>9. /\ Len(log) \in Nat /\ DOMAIN log = 1..Len(log) /\ Len(log) = currentServerSequence
      /\ Logged = {log[i].edit : i \in 1..Len(log)} /\ snapshot.id \in Nat
  BY StoredIs
<1>10. post.content = EditsUpTo(Len(log))
  <2>1. EditsUpTo(Len(log)) \subseteq post.content /\ post.content \subseteq Logged
    BY <1>2, <1>4, <1>9 DEF CopyOK
  <2> QED  BY <1>9, <2>1 DEF EditsUpTo
<1>11. /\ Logged' = Logged /\ \A n : EditsUpTo(n)' = EditsUpTo(n)
  BY <1>2 DEF Logged, EditsOf, EditsUpTo
<1>12. StoredOK'
  <2>1. SnapshotHoldsLog'
    BY <1>2, <1>8, <1>9, <1>10 DEF SnapshotHoldsLog, EditsUpTo
  <2>2. AnswersOK'
    BY <1>2, <1>3, <1>11 DEF StoredOK, AnswersOK
  <2> QED  BY <1>2, <1>3, <1>7, <1>8, <2>1, <2>2 DEF StoredOK
<1>13. snapshot'.id > snapshot.id /\ snapshot'.id \in Nat
  BY <1>3, <1>4, <1>8, <1>9 DEF RoomOK
<1>14. RoomOK'
  <2>1. barrier'.participants \cup connections' \subseteq Entered'
    BY <1>2, <1>3, <1>5 DEF RoomOK, Moved, Entered
  <2>2. snapshot'.id <= issued'
    BY <1>3, <1>4, <1>5, <1>8, BarrierMoves
  <2> QED  BY <1>2, <1>3, <1>6, <2>1, <2>2 DEF RoomOK
<1>15. ServerOK'
  BY <1>5, <1>7, <1>12, <1>14 DEF ServerOK, Moved
<1>16. ServerMoves
  BY <1>2, <1>3, <1>5, <1>9, <1>11, <1>13, BarrierMoves DEF ServerMoves
<1>17. inbox' \in [Clients -> Seq(AnyFrame)] /\ \A d \in Clients : HearsTruth(d)
  BY <1>2, <1>3, <1>5, NothingSaid
<1>18. \A in : ClientOK(c, r, in)' => ClientOK(c, q, in)'
  BY <1>2, PostedKeeps
<1>19. q \in Client
  <2>1. post \in AnyPost
    BY <1>3 DEF Client
  <2>2. [post EXCEPT !.step = "stored"] \in AnyPost
    BY <2>1 DEF AnyPost
  <2> QED  BY <1>3, <2>2 DEF Client
<1>20. clients' = [clients EXCEPT ![c] = q] /\ UNCHANGED log
  BY <1>2
<1> HIDE DEF q, post
<1> QED  BY <1>1, <1>5, <1>15, <1>16, <1>17, <1>18, <1>19, <1>20, SwitchedKeeps

\* What a client sends and the server logs was sealed before.
LEMMA LoggedClocks ==
    ASSUME NEW d, NEW r, ClockOK(d, r), NEW q, q.stopped = r.stopped, q.rotation = r.rotation,
           q.clock = r.clock, Sealed(q) \subseteq Sealed(r),
           log \in Seq(SealedText), NEW x \in SealedText, log' = Append(log, x),
           x.epoch[1] = d => x \in Sealed(r)
    PROVE  ClockOK(d, q)'
<1>1. ToSet(log') \subseteq ToSet(log) \cup {x}
  <2>1. /\ DOMAIN log' = 1..(Len(log) + 1) /\ DOMAIN log = 1..Len(log) /\ Len(log) \in Nat
        /\ \A i \in 1..Len(log) : log'[i] = log[i]
        /\ log'[Len(log) + 1] = x
    BY AppendHas
  <2>2. \A i \in DOMAIN log' : (i \in DOMAIN log /\ log'[i] = log[i]) \/ log'[i] = x
    BY <2>1
  <2> QED  BY <2>2 DEF ToSet
<1>2. Own(d, q)' \subseteq Own(d, r)
  BY <1>1 DEF Own, Sealed
<1> QED  BY <1>2 DEF ClockOK, Spent

\* An update is stored.
LEMMA AcceptKeepsInv ==
    ASSUME Inv, NEW c \in Clients, NEW p \in Connections, AcceptUpdate(c, p)
    PROVE  Inv'
<1>1. PICK r : r = clients[c]
  OBVIOUS
<1>2. PICK x : x = Next1(c).envelope
  OBVIOUS
<1> DEFINE q == [r EXCEPT !.out = Tail(@)]
           e == x.epoch
           k == x.clock
<1>3. /\ Admit(p) /\ AppendUpdate(e, k, x.parent) /\ log' = Append(log, x)
      /\ answers' = answers \cup {[link |-> p, envelope |-> x, sequence |-> currentServerSequence']}
      /\ clients' = [clients EXCEPT ![c] = q] /\ Broadcast(Nothing)
      /\ sockets' = sockets /\ archive' = archive
  BY <1>1, <1>2 DEF AcceptUpdate, Taken, Become
<1>4. x \in Sealed(r) /\ x \in SealedText /\ r.out # <<>>
  BY <1>1, <1>2, NextIs DEF AcceptUpdate
<1>5. /\ ClientOK(c, r, inbox[c]) /\ r \in Client /\ IInv /\ LogInv /\ RoomOK /\ StoredOK
      /\ inbox \in [Clients -> Seq(AnyFrame)]
  BY <1>1 DEF Inv, ServerOK, ClientOK
<1>6. e \in Epochs /\ e[1] = c
  BY <1>4, <1>5 DEF SealedText, ClientOK, ClockOK, Own
<1>7. /\ log \in Seq(SealedText) /\ Len(log) \in Nat /\ DOMAIN log = 1..Len(log)
      /\ Len(log) = currentServerSequence /\ snapshot.covered \in Nat /\ snapshot.covered <= Len(log)
      /\ Logged = {log[i].edit : i \in 1..Len(log)} /\ snapshot.id \in Nat
  BY StoredIs
<1>8. /\ log' \in Seq(SealedText) /\ DOMAIN log' = 1..(Len(log) + 1) /\ Len(log') = Len(log) + 1
      /\ \A i \in 1..Len(log) : log'[i] = log[i]
      /\ log'[Len(log) + 1] = x
  BY <1>3, <1>4, <1>7, AppendHas
<1>9. /\ k \in 1..MaxSequence /\ x.parent \in SnapshotIds
      /\ currentServerSequence' = currentServerSequence + 1 /\ snapshot' = snapshot
  <2>1. /\ k = LatestClock(e) + 1 /\ currentServerSequence < MaxSequence /\ x.parent = snapshot.id
        /\ currentServerSequence' = currentServerSequence + 1 /\ snapshot' = snapshot
    BY <1>3 DEF AppendUpdate
  <2>2. LatestClock(e) <= currentServerSequence /\ LatestClock(e) \in 0..MaxSequence
    BY <1>5, <1>6, ClocksOfEpoch DEF StoredOK
  <2>3. snapshot.id \in SnapshotIds
    BY <1>5 DEF LogInv, DocumentTypeOK, Snapshot
  <2> QED  BY <1>7, <2>1, <2>2, <2>3, DocumentConstants DEF DocumentConstants
<1>10. /\ LogInv'
       /\ \A f \in Epochs : LatestClock(f)' = IF f = e THEN LatestClock(e) + 1 ELSE LatestClock(f)
  BY <1>3, <1>5, <1>6, <1>9, AppendPreservesLogInv, AppendMovesClocks
<1>11. Logged' = Logged \cup {x.edit}
  <2>1. DOMAIN EditsOf(log') = DOMAIN log' /\ \A i \in DOMAIN log' : EditsOf(log')[i] = log'[i].edit
    BY DEF EditsOf
  <2>2. Logged' = {log'[i].edit : i \in DOMAIN log'}
    <3> HIDE DEF EditsOf
    <3> QED  BY <2>1 DEF Logged, ToSet
  <2>3. \A i \in DOMAIN log' : i \in 1..Len(log) \/ i = Len(log) + 1
    BY <1>8
  <2>4. 1..Len(log) \subseteq DOMAIN log' /\ Len(log) + 1 \in DOMAIN log'
    BY <1>7, <1>8
  <2> QED  BY <1>7, <1>8, <2>2, <2>3, <2>4
<1>12. Moved({}, {})
  BY <1>3, <1>5, AdmitMoves
<1>13. ASSUME NEW y \in ToSet(log), y.epoch = x.epoch, y.clock = x.clock
       PROVE  y = x
  BY <1>4, <1>5, <1>6, <1>13 DEF ClientOK, ClockOK, Own
<1>14. StoredOK'
  <2>1. \A f \in Epochs : LatestClock(f)' <= currentServerSequence'
    <3>1. \A f \in Epochs : LatestClock(f) <= currentServerSequence /\ LatestClock(f) \in Nat
      BY <1>5, ClocksOfEpoch DEF StoredOK
    <3> QED  BY <1>6, <1>7, <1>9, <1>10, <3>1
  <2>2. \A y \in ToSet(log') : y \in ToSet(log) \/ y = x
    BY <1>7, <1>8 DEF ToSet
  <2>3. \A y, z \in ToSet(log') : y.epoch = z.epoch /\ y.clock = z.clock => y = z
    BY <1>5, <1>13, <2>2 DEF StoredOK
  <2>4. AnswersOK'
    <3>1. currentServerSequence' \in Nat
      BY <1>7, <1>9
    <3> QED  BY <1>3, <1>4, <1>5, <1>11, <3>1 DEF StoredOK, AnswersOK
  <2>5. SnapshotHoldsLog'
    <3>1. \A i \in 1..snapshot.covered : i \in 1..Len(log)
      BY <1>7
    <3> QED  BY <1>3, <1>5, <1>8, <1>9, <3>1 DEF StoredOK, SnapshotHoldsLog
  <2> QED  BY <1>7, <1>8, <1>9, <2>1, <2>3, <2>4, <2>5 DEF StoredOK
<1>15. RoomOK'
  <2>1. barrier'.participants \cup connections' \subseteq Entered'
    BY <1>3, <1>5, <1>12 DEF RoomOK, Moved, Entered
  <2> QED  BY <1>3, <1>5, <1>7, <1>9, <1>12, <2>1, BarrierMoves DEF RoomOK
<1>16. ServerOK'
  BY <1>10, <1>12, <1>14, <1>15 DEF ServerOK, Moved
<1>17. ServerMoves
  <2>1. \A n \in 0..Len(log) : EditsUpTo(n)' = EditsUpTo(n)
    <3>1. \A n \in 0..Len(log) : \A i \in 1..n : i \in 1..Len(log)
      BY <1>7
    <3> QED  BY <1>8, <3>1 DEF EditsUpTo
  <2> QED  BY <1>3, <1>5, <1>7, <1>8, <1>9, <1>11, <1>12, <2>1, BarrierMoves DEF ServerMoves
<1>18. inbox' \in [Clients -> Seq(AnyFrame)] /\ \A d \in Clients : HearsTruth(d)
  BY <1>3, <1>5, <1>12, NothingSaid
<1>19. ClientOK(c, q, inbox[c])
  BY <1>4, <1>5, TakenKeeps
<1>20. /\ q \in Client /\ q.stopped = r.stopped /\ q.rotation = r.rotation /\ q.clock = r.clock
       /\ Sealed(q) \subseteq Sealed(r)
  <2>1. q \in Client /\ q.stopped = r.stopped /\ q.rotation = r.rotation /\ q.clock = r.clock
        /\ q.pending = r.pending /\ q.out = Tail(r.out)
    BY <1>5, <1>19 DEF ClientOK, Client
  <2>2. \A i \in DOMAIN q.out : i + 1 \in DOMAIN r.out /\ q.out[i] = r.out[i + 1]
    <3>1. r.out \in Seq(Sending)
      BY <1>5 DEF Client
    <3> QED  BY <1>4, <2>1, <3>1, TailHas
  <2> QED  BY <2>1, <2>2 DEF Sealed
<1> HIDE DEF q, e, k
<1>21. ASSUME NEW d \in Clients
       PROVE  ClientOK(d, clients[d], inbox[d])'
  <2>1. PICK s : s = clients'[d]
    OBVIOUS
  <2>2. ClientOK(d, s, inbox[d]) /\ ClockOK(d, s)'
    <3>1. CASE d = c
      <4>1. s = q
        BY <1>3, <2>1, <3>1 DEF Inv
      <4>2. ClockOK(c, r)
        BY <1>5 DEF ClientOK
      <4>3. ClockOK(c, q)'
        BY <1>3, <1>4, <1>7, <1>20, <4>2, LoggedClocks
      <4> QED  BY <1>19, <3>1, <4>1, <4>3
    <3>2. CASE d # c
      <4>1. s = clients[d]
        BY <1>3, <2>1, <3>2 DEF Inv
      <4>2. ClientOK(d, s, inbox[d]) /\ ClockOK(d, s)
        BY <4>1 DEF Inv, ClientOK
      <4>3. x.epoch[1] # d /\ Sealed(s) \subseteq Sealed(s)
        BY <1>6, <3>2 DEF e
      <4>4. ClockOK(d, s)'
        BY <1>3, <1>4, <1>7, <4>2, <4>3, LoggedClocks
      <4> QED  BY <4>2, <4>4
    <3> QED  BY <3>1, <3>2
  <2>3. ClientOK(d, s, inbox[d])'
    BY <1>12, <1>17, <1>18, <2>2, ClientLives
  <2> QED  BY <2>1, <2>3
<1>22. clients' \in [Clients -> Client]
  BY <1>3, <1>20 DEF Inv
<1> QED  BY <1>16, <1>18, <1>21, <1>22 DEF Inv

-----------------------------------------------------------------------------
(* The beginning *)

\* A client that has not joined, and one that has, at the start.
LEMMA NewIs ==
    ASSUME NEW c \in Clients, NEW case \in Cases
    PROVE  NewClient(c, case) \in Client /\ FirstLink(c) \in Connections
<1>1. case \in CaseType /\ FirstLink(c) \in Connections
  BY ClientConstants DEF ClientConstants, FirstLink
<1>2. /\ case.edits[c] \in Nat /\ case.refreshes[c] \in Nat /\ case.interval \in Nat \ {0}
      /\ (c \in case.completers) \in BOOLEAN /\ (c \in case.unreliable) \in BOOLEAN
  BY <1>1 DEF CaseType
<1>3. NoPost \in AnyPost
  BY DEF NoPost, AnyPost
<1>4. "compaction" \in Codes
  BY DEF Codes, Intentions
<1>5. 0 \in 0..MaxRotations
  BY ClientConstants DEF ClientConstants
<1>6. InitialSnapshot \in Nat
  BY DEF InitialSnapshot
<1>7. /\ <<>> \in Seq(AnyJob) /\ <<>> \in Seq(SealedText) /\ <<>> \in Seq(Edits) /\ <<>> \in Seq(Sending)
  OBVIOUS
<1> HIDE DEF NoPost, InitialSnapshot
<1> QED  BY <1>1, <1>2, <1>3, <1>4, <1>5, <1>6, <1>7 DEF NewClient, Client

\* Nothing has happened to either.
LEMMA FirstIs ==
    ASSUME NEW c \in Clients, NEW case \in Cases, NEW r,
           r = NewClient(c, case) \/ r = PresentClient(c, case)
    PROVE  /\ r \in Client /\ r.link \in {NoLink, FirstLink(c)}
           /\ r = NewClient(c, case) => r.link = NoLink
           /\ r.stopped = FALSE /\ r.made = 0 /\ r.rotation = 0 /\ r.clock = 0
           /\ r.jobs = <<>> /\ r.busy = FALSE /\ r.post = NoPost /\ r.pending = <<>>
           /\ r.paused = <<>> /\ r.held = 0 /\ r.drained = FALSE /\ r.out = <<>>
<1> DEFINE n == NewClient(c, case)
<1>1. n \in Client /\ FirstLink(c) \in Connections
  BY NewIs
<1>2. /\ n.link = NoLink /\ n.stopped = FALSE /\ n.made = 0 /\ n.rotation = 0 /\ n.clock = 0
      /\ n.jobs = <<>> /\ n.busy = FALSE /\ n.post = NoPost /\ n.pending = <<>>
      /\ n.paused = <<>> /\ n.held = 0 /\ n.drained = FALSE /\ n.out = <<>>
  BY DEF NewClient
<1>3. CASE r = n
  BY <1>1, <1>2, <1>3
<1>4. CASE r = [n EXCEPT !.link = FirstLink(c), !.online = TRUE]
  <2> HIDE DEF n
  <2>1. r \in Client /\ r.link = FirstLink(c)
    BY <1>1, <1>4 DEF Client
  <2>2. /\ r.stopped = n.stopped /\ r.made = n.made /\ r.rotation = n.rotation /\ r.clock = n.clock
        /\ r.jobs = n.jobs /\ r.busy = n.busy /\ r.post = n.post /\ r.pending = n.pending
        /\ r.paused = n.paused /\ r.held = n.held /\ r.drained = n.drained /\ r.out = n.out
    BY <1>1, <1>4 DEF Client
  <2>3. r # n
    <3>1. FirstLink(c) # NoLink
      BY <1>1, NoLinkIsNoConnection
    <3> QED  BY <1>2, <2>1, <3>1
  <2> QED  BY <1>2, <2>1, <2>2, <2>3 DEF n
<1> QED  BY <1>3, <1>4 DEF PresentClient

\* The server starts in the invariant.
LEMMA InitEstablishesServerOK ==
    ASSUME Init
    PROVE  ServerOK /\ Logged = {} /\ issued \in Nat /\ barrier = NoBarrier
<1>1. PICK case \in Cases : /\ issued = MaxBarriers - case.barriers
                            /\ released = [b \in BarrierIds |-> IF b <= issued THEN "aborted"
                                                                              ELSE "none"]
  BY DEF Init
<1>2. issued \in 0..MaxBarriers /\ issued \in Nat
  <2>1. case.barriers \in 0..MaxBarriers /\ MaxBarriers \in Nat
    BY ClientConstants, CoordinatorConstants DEF ClientConstants, CaseType, CoordinatorConstants
  <2> QED  BY <1>1, <2>1
<1>3. /\ barrier = NoBarrier /\ connections = FirstLinks /\ collaborationWriters = 0
      /\ externalWriters = 0 /\ captures = {} /\ waiting = {} /\ DocumentInit
      /\ sockets = [p \in Connections |-> IF p \in FirstLinks THEN "open" ELSE "new"]
      /\ answers = {} /\ log = <<>> /\ archive = {}
  BY DEF Init
<1>4. FirstLinks \subseteq Connections
  BY ClientConstants DEF ClientConstants, FirstLinks, FirstLink
<1>5. barrier.id = 0 /\ barrier.participants = {} /\ ~Open /\ 0 \notin BarrierIds
  BY <1>3 DEF NoBarrier, Open, BarrierIds
<1>6. IInv
  <2>1. CoreTypeOK
    BY <1>1, <1>2, <1>3 DEF CoreTypeOK, Outcomes
  <2>2. Ledger
    <3>1. \A b \in BarrierIds : b \in Nat
      BY DEF BarrierIds
    <3> QED  BY <1>1, <1>2, <1>5, <3>1 DEF Ledger
  <2>3. UnsettledPrepareHasBarrier
    BY <1>3 DEF UnsettledPrepareHasBarrier
  <2>4. RestTypeOK /\ BarrierExcludesExternalWriters
    BY <1>3, <1>4, <1>5, CoordinatorConstants
    DEF CoordinatorConstants, RestTypeOK, BarrierExcludesExternalWriters, Open
  <2> QED  BY <1>3, <2>1, <2>2, <2>3, <2>4, NoBarrierIsGood DEF IInv, Core
<1>7. LogInv
  BY <1>3, InitEstablishesLogInv
<1>8. StoredOK
  <2>1. \A e \in Epochs : LatestClock(e) = 0
    BY <1>3 DEF DocumentInit, LatestClock, ClocksOf
  <2>2. currentServerSequence = 0 /\ snapshot.covered = 0
    BY <1>3 DEF DocumentInit
  <2>3. log \in Seq(SealedText) /\ Len(log) = 0 /\ ToSet(log) = {}
    BY <1>3 DEF ToSet
  <2>4. SnapshotHoldsLog /\ AnswersOK
    BY <1>3, <2>2 DEF SnapshotHoldsLog, AnswersOK
  <2> QED  BY <2>1, <2>2, <2>3, <2>4 DEF StoredOK
<1>9. RoomOK
  <2>1. snapshot.id = 0
    BY <1>3 DEF DocumentInit, InitialSnapshot
  <2> QED  BY <1>2, <1>3, <1>4, <1>5, <2>1 DEF RoomOK, Entered
<1>10. Logged = {}
  BY <1>3 DEF Logged, EditsOf, ToSet
<1> QED  BY <1>2, <1>3, <1>6, <1>7, <1>8, <1>9, <1>10 DEF ServerOK

\* Everything starts in the invariant.
LEMMA InitEstablishesInv == Init => Inv
<1> SUFFICES ASSUME Init PROVE Inv
  OBVIOUS
<1>1. PICK case \in Cases :
         clients = [c \in Clients |-> IF c \in Present THEN PresentClient(c, case)
                                                       ELSE NewClient(c, case)]
  BY DEF Init
<1>2. /\ ServerOK /\ Logged = {} /\ issued \in Nat /\ barrier.drained = {} /\ ~Open /\ log = <<>>
      /\ inbox = [c \in Clients |-> <<>>]
      /\ sockets = [p \in Connections |-> IF p \in FirstLinks THEN "open" ELSE "new"]
  BY InitEstablishesServerOK DEF Init, NoBarrier, Open
<1>3. ASSUME NEW c \in Clients
      PROVE  ClientOK(c, clients[c], inbox[c]) /\ clients[c] \in Client
  <2>1. PICK r : r = clients[c]
    OBVIOUS
  <2>2. PICK in : in = inbox[c]
    OBVIOUS
  <2>3. /\ r = NewClient(c, case) \/ r = PresentClient(c, case)
        /\ c \notin Present => r = NewClient(c, case)
        /\ in = <<>>
    BY <1>1, <1>2, <2>1, <2>2
  <2>4. /\ r \in Client /\ r.link \in {NoLink, FirstLink(c)}
        /\ r = NewClient(c, case) => r.link = NoLink
        /\ r.stopped = FALSE /\ r.made = 0 /\ r.rotation = 0 /\ r.clock = 0
        /\ r.jobs = <<>> /\ r.busy = FALSE /\ r.post = NoPost /\ r.pending = <<>>
        /\ r.paused = <<>> /\ r.held = 0 /\ r.drained = FALSE /\ r.out = <<>>
    BY <2>3, FirstIs
  <2>5. in \in Seq(AnyFrame) /\ DOMAIN in = {} /\ DOMAIN r.out = {} /\ DOMAIN r.jobs = {}
        /\ DOMAIN r.pending = {}
    BY <2>3, <2>4
  <2>6. Own(c, r) = {}
    BY <1>2, <2>4, <2>5 DEF Own, Sealed, ToSet
  <2>7. ClockOK(c, r) /\ EditOK(c, r) /\ SettledOK(r)
    BY <2>4, <2>6 DEF ClockOK, EditOK, SettledOK
  <2>8. DrainOK(c, r)
    <3>1. ASSUME r.link # NoLink
          PROVE  ClientOf(r.link) = c /\ sockets[r.link] # "new"
      <4>1. c \in Present /\ r.link = FirstLink(c) /\ FirstLink(c) \in Connections
        BY <2>3, <2>4, <3>1, NewIs
      <4>2. FirstLink(c) \in FirstLinks
        BY <4>1 DEF FirstLinks
      <4> QED  BY <1>2, <4>1, <4>2 DEF ClientOf, FirstLink
    <3> QED  BY <1>2, <2>4, <2>5, <3>1 DEF DrainOK
  <2>9. InboxOK(in) /\ HeldOK(r, in) /\ ReadsOK(r) /\ AwaitOK(r, in)
    BY <2>4, <2>5, <2>3 DEF InboxOK, HeldOK, ReadsOK, AwaitOK, NoPost
  <2>10. PostOK(r.post)
    BY <2>4 DEF PostOK, NoPost
  <2> QED  BY <2>1, <2>2, <2>4, <2>5, <2>7, <2>8, <2>9, <2>10 DEF ClientOK
<1>4. clients \in [Clients -> Client]
  BY <1>1, <1>3
<1>5. inbox \in [Clients -> Seq(AnyFrame)]
  BY <1>2
<1> QED  BY <1>2, <1>3, <1>4, <1>5 DEF Inv

-----------------------------------------------------------------------------
(* The invariant holds *)

\* The steps a client takes by itself.
LEMMA ClientStepKeepsInv ==
    ASSUME Inv, NEW c \in Clients, UserStep(c) \/ JobStep(c) \/ FrameStep(c)
    PROVE  Inv'
<1>1. CASE UserStep(c)
  BY <1>1, EditKeepsInv, RefreshKeepsInv, BreakKeepsInv, ConnectKeepsInv DEF UserStep
<1>2. CASE JobStep(c)
  BY <1>2, EncryptKeepsInv, ReadRowKeepsInv, ReadRowsKeepsInv, ApplyReadKeepsInv, ReadFailsKeepsInv
  DEF JobStep
<1>3. CASE FrameStep(c)
  BY <1>3, AuthenticatedKeepsInv, AcknowledgedKeepsInv, UpdateKeepsInv, BarrierKeepsInv,
     RoundKeepsInv, ReleasedKeepsInv, RejectedKeepsInv, RetryKeepsInv
  DEF FrameStep
<1> QED  BY <1>1, <1>2, <1>3

\* The steps the server takes for a client.
LEMMA ArrivalKeepsInv ==
    ASSUME Inv, NEW c \in Clients, ArrivalStep(c) \/ RequestStep(c)
    PROVE  Inv'
<1>1. CASE ArrivalStep(c)
  BY <1>1, LoseKeepsInv, AcceptKeepsInv, RepeatKeepsInv, RefuseKeepsInv, RequestKeepsInv,
     DrainedKeepsInv, ConfirmedKeepsInv
  DEF ArrivalStep
<1>2. CASE RequestStep(c)
  BY <1>2, ClaimKeepsInv, CommitKeepsInv, RollbackKeepsInv, AnsweredKeepsInv, SubmitKeepsInv,
     QuietRoundKeepsInv
  DEF RequestStep
<1> QED  BY <1>1, <1>2

\* Nothing happens.
LEMMA StutterKeepsInv ==
    ASSUME Inv, UNCHANGED vars
    PROVE  Inv'
<1>1. /\ LogInv /\ RoomOK /\ AnswersOK /\ IInv /\ inbox \in [Clients -> Seq(AnyFrame)]
      /\ UNCHANGED coordinatorVars /\ UNCHANGED documentVars
      /\ UNCHANGED <<sockets, answers, log, archive, clients>> /\ UNCHANGED inbox
  BY DEF Inv, ServerOK, StoredOK, vars, serverVars
<1>2. Moved({}, {}) /\ DocumentStays
  BY <1>1, StillMoves, SameDocument
<1> QED  BY <1>1, <1>2, RoundStep

\* Every step keeps the invariant.
LEMMA NextKeepsInv == Inv /\ [Next]_vars => Inv'
<1> SUFFICES ASSUME Inv, [Next]_vars PROVE Inv'
  OBVIOUS
<1>1. ASSUME NEW c \in Clients,
             UserStep(c) \/ JobStep(c) \/ FrameStep(c) \/ ArrivalStep(c) \/ RequestStep(c)
      PROVE  Inv'
  BY <1>1, ClientStepKeepsInv, ArrivalKeepsInv
<1>2. ASSUME NEW p \in Connections, Authenticate(p) \/ RemoveSocket(p)
      PROVE  Inv'
  BY <1>2, AuthenticateKeepsInv, RemoveKeepsInv
<1>3. ASSUME NEW a \in answers, AnswerUpdate(a)
      PROVE  Inv'
  BY <1>3, AnswerKeepsInv
<1>4. CASE BeginReplacement \/ ReadSequence \/ FinishCompletion \/ Expire
  BY <1>4, BeginKeepsInv, QuietRoundKeepsInv, FinishKeepsInv
<1>5. CASE UNCHANGED vars
  BY <1>5, StutterKeepsInv
<1> QED  BY <1>1, <1>2, <1>3, <1>4, <1>5 DEF Next

\* Every client and the server keep what they promise each other, whatever the
\* sockets, the timers, the barriers and the transactions do.
THEOREM ClientInvariance == Spec => []Inv
BY InitEstablishesInv, NextKeepsInv, PTL DEF Spec

-----------------------------------------------------------------------------
(* What the invariant says about the code *)

\* compactWorkspace never stores a snapshot that misses an accepted update or
\* that holds text the log does not hold yet.
THEOREM SnapshotHolds == Spec => []SnapshotHoldsLog
<1>1. Inv => SnapshotHoldsLog
  BY DEF Inv, ServerOK, StoredOK
<1> QED  BY <1>1, ClientInvariance, PTL

\* What the user of an open workspace has typed is in his document and, across
\* retries, rebases, recoveries, reconnects and barriers, stored or still waiting
\* to be sealed or sent.
THEOREM NoEditIsLostHolds == Spec => []NoEditIsLost
<1>1. Inv => NoEditIsLost
  BY DEF Inv, ClientOK, EditOK, NoEditIsLost
<1> QED  BY <1>1, ClientInvariance, PTL

\* No counter of an epoch ever seals two texts, in whichever of the pending
\* updates, the frames under way and the stored envelopes they turn up.
THEOREM ClockSealsOnceHolds == Spec => []ClockSealsOnce
<1>1. Inv => ClockSealsOnce
  <2> SUFFICES ASSUME Inv PROVE ClockSealsOnce
    OBVIOUS
  <2>1. ASSUME NEW x \in Envelopes, x \notin ToSet(log)
        PROVE  \E c \in Clients : x \in Own(c, clients[c]) /\ x.epoch[1] = c
    <3>1. PICK c \in Clients : x \in Sealed(clients[c])
      BY <2>1 DEF Envelopes
    <3>2. x \in Own(c, clients[c]) /\ ClockOK(c, clients[c])
      BY <3>1 DEF Own, Inv, ClientOK
    <3> QED  BY <3>2 DEF ClockOK
  <2>2. ASSUME NEW x \in Envelopes, NEW y \in Envelopes, x.epoch = y.epoch, x.clock = y.clock
        PROVE  x = y
    <3>1. CASE x \in ToSet(log) /\ y \in ToSet(log)
      BY <2>2, <3>1 DEF Inv, ServerOK, StoredOK
    <3>2. ASSUME NEW c \in Clients, x \in Own(c, clients[c]) \/ y \in Own(c, clients[c]),
                 x.epoch[1] = c
          PROVE  x = y
      <4>1. \A z \in Envelopes : z.epoch[1] = c => z \in Own(c, clients[c])
        <5>1. \A z \in Envelopes : z \notin ToSet(log) =>
                 \E d \in Clients : z \in Own(d, clients[d]) /\ z.epoch[1] = d
          BY <2>1
        <5> QED  BY <5>1 DEF Own
      <4>2. x \in Own(c, clients[c]) /\ y \in Own(c, clients[c])
        BY <2>2, <3>2, <4>1
      <4>3. ClockOK(c, clients[c])
        BY DEF Inv, ClientOK
      <4> QED  BY <2>2, <4>2, <4>3 DEF ClockOK
    <3>3. CASE x \notin ToSet(log)
      BY <2>1, <3>2, <3>3
    <3>4. CASE y \notin ToSet(log)
      <4>1. PICK c \in Clients : y \in Own(c, clients[c]) /\ y.epoch[1] = c
        BY <2>1, <3>4
      <4> QED  BY <2>2, <3>2, <4>1
    <3> QED  BY <3>1, <3>3, <3>4
  <2> QED  BY <2>2 DEF ClockSealsOnce
<1> QED  BY <1>1, ClientInvariance, PTL

\* A socket the coordinator counts as drained belongs to a client that has
\* nothing sealed or being sealed.
THEOREM DrainedMeansSettledHolds == Spec => []DrainedMeansSettled
<1>1. Inv => DrainedMeansSettled
  <2> SUFFICES ASSUME Inv, NEW p \in barrier.drained, clients[ClientOf(p)].link = p
               PROVE  clients[ClientOf(p)].pending = <<>> /\ ~Encrypting(clients[ClientOf(p)])
    BY DEF DrainedMeansSettled
  <2>1. p \in Connections
    BY BarrierIs DEF Inv, ServerOK, Barrier
  <2>2. ClientOf(p) \in Clients
    BY <2>1, ClientConstants DEF ClientConstants, ClientOf
  <2>3. DrainOK(ClientOf(p), clients[ClientOf(p)]) /\ SettledOK(clients[ClientOf(p)])
    BY <2>2 DEF Inv, ClientOK
  <2> QED  BY <2>3 DEF DrainOK, SettledOK
<1> QED  BY <1>1, ClientInvariance, PTL
=============================================================================
