------------------------- MODULE FileTransferProofs -------------------------
(***************************************************************************)
(* Proofs about FileTransfer, for any handlers, limits, windows, sizes and *)
(* bounds: the types, that no temporary file is left, that version 2 never *)
(* confirms what is not committed, that the file is always one whole       *)
(* upload, and that file transfer implements AtomicFile.                   *)
(*                                                                         *)
(* A chunk says at which offset it belongs and not to which upload.  The   *)
(* argument is therefore about everything between client and transfer:     *)
(* while an upload receives, the client has no other, the chunks on their  *)
(* way are its own, in order and not before its offset; and a client is    *)
(* free to begin another one only when none of that is left.               *)
(***************************************************************************)
EXTENDS FileTransfer, TLAPS

Receiving == {"create", "firstAck", "recv", "batch", "ack"}
Writing == {"firstAck", "recv", "batch", "ack", "rename"}
Committing == {"rename", "preserve", "finalAck"}

\* The upload of h is not yet answered for good: in version 1 the EOF is not
\* acknowledged, in version 2 the final acknowledgement is not sent.
Active(h) == pc[h] \in Receiving \/ (h \in v2 /\ pc[h] \in Committing)

\* The messages on their way to the transfer of h: the one that the session
\* goroutine offers, at place 0, and those that wait behind it.
Way(h) == 0..Len(inbox[h])
At(h, k) == IF k = 0 THEN cur[h] ELSE inbox[h][k]

IsPut(h, k) == k \in DOMAIN inbox[h] /\ inbox[h][k].type = "put"
IsChunk(h, k) == /\ k \in Way(h) /\ At(h, k) # None
                 /\ At(h, k).type = "chunk" /\ At(h, k).off # None
IsAck(h, j) == j \in DOMAIN outbox[h] /\ outbox[h][j].type = "ack"

\* Uploads are told apart by their numbers.
Ids ==
    /\ Len(uploads) >= 1
    /\ commits \subseteq 2..Len(uploads)
    /\ \A h \in Handlers : /\ client[h].u \in {0} \cup 2..Len(uploads)
                           /\ job[h].u \in {0} \cup 2..Len(uploads)
    /\ \A g, h \in Handlers : g # h =>
         /\ client[h].u # 0 => client[h].u # client[g].u /\ client[h].u # job[g].u
         /\ job[h].u # 0 => job[h].u # job[g].u

\* The goroutine of the transfer and its temporary file.
JobInv(h) ==
    /\ pc[h] = "idle" => job[h] = NoJob
    /\ pc[h] \in Receiving \cup {"rename"} => job[h].u # 0 /\ job[h].u \notin commits
    /\ pc[h] \in {"preserve", "finalAck"} => job[h].u \in commits
    /\ pc[h] = "create" => job[h].off = 0
    /\ pc[h] \in {"create", "firstAck", "recv"} => ~job[h].done
    /\ pc[h] \in Committing => job[h].done
    /\ pc[h] \in Writing =>
         /\ temp[h] # None /\ Len(temp[h]) = job[h].off
         /\ \A k \in 1..job[h].off : temp[h][k] = <<job[h].u, k>>
         /\ job[h].off <= uploads[job[h].u]
    /\ pc[h] \in Writing /\ job[h].done => job[h].off = uploads[job[h].u]
    /\ pc[h] \notin Writing => temp[h] = None
    /\ pc[h] \in {"batch", "ack"} /\ ~job[h].done => job[h].last < uploads[job[h].u]
    /\ h \in v2 => pc[h] \notin {"firstAck", "batch", "ack"}
    /\ h \notin v2 => pc[h] # "finalAck"

\* The session goroutine.
SessInv(h) ==
    /\ sess[h] = "handoff" <=> cur[h] # None
    /\ cur[h] # None => cur[h].type \in {"chunk", "ack", "error"}

\* The chunks on their way.
ChunkInv(h) ==
    /\ \A k \in Way(h) : IsChunk(h, k) =>
         LET m == At(h, k)
             u == client[h].u
         IN /\ u # 0 /\ m.off <= uploads[u]
            /\ m.data = IF m.off < uploads[u] THEN <<u, m.off + 1>> ELSE None
            /\ Active(h) => m.off >= job[h].off /\ (job[h].done => m.off > uploads[u])
            /\ client[h].st = "put" => m.off < client[h].sent
    /\ \A k, l \in Way(h) : IsChunk(h, k) /\ IsChunk(h, l) /\ k < l
                              => At(h, k).off < At(h, l).off

\* The client, and what it is going to be told.
ClientInv(h) ==
    /\ client[h].st \in {"idle", "get"} =>
         /\ client[h].u = 0
         /\ \A j \in DOMAIN outbox[h] : ~IsAck(h, j)
    /\ client[h].st = "put" => client[h].u # 0
    /\ Active(h) => client[h].u = job[h].u
    /\ \A k \in DOMAIN inbox[h] : IsPut(h, k) =>
         /\ inbox[h][k].u = client[h].u /\ client[h].u # 0
         /\ client[h].u \notin commits /\ client[h].u # job[h].u
         /\ ~Active(h)
         /\ \A l \in DOMAIN inbox[h] : IsPut(h, l) => l = k
         /\ client[h].st = "put" =>
              client[h].acked = None /\ \A j \in DOMAIN outbox[h] : ~IsAck(h, j)
    /\ client[h].st = "put" /\ Active(h) =>
         /\ job[h].off <= client[h].sent
         /\ job[h].done => client[h].sent > uploads[client[h].u]

\* The acknowledgements on their way to a client that has an upload.
AckInv(h) == client[h].st = "put" =>
    /\ h \notin v2 =>
         /\ \A j \in DOMAIN outbox[h] : IsAck(h, j) => outbox[h][j].off # None
         /\ client[h].acked = None =>
              /\ client[h].sent = 0 /\ pc[h] \notin {"batch", "ack"}
              /\ \A j \in DOMAIN outbox[h] : IsAck(h, j) =>
                   /\ pc[h] \notin {"create", "firstAck"}
                   /\ \A i \in DOMAIN outbox[h] : IsAck(h, i) => i = j
         /\ client[h].acked # None => pc[h] \notin {"create", "firstAck"}
    /\ \A j \in DOMAIN outbox[h] :
         /\ IsAck(h, j)
         /\ h \in v2 \/ (client[h].acked # None /\ outbox[h][j].off = uploads[client[h].u])
         => /\ ~Active(h) /\ client[h].sent > uploads[client[h].u]
            /\ \A k \in Way(h) : ~IsChunk(h, k)
            /\ \A i \in DOMAIN outbox[h] : IsAck(h, i) => i <= j
            /\ h \in v2 => outbox[h][j].off = None /\ client[h].u \in commits

HandlerInv(h) == JobInv(h) /\ SessInv(h) /\ ChunkInv(h) /\ ClientInv(h) /\ AckInv(h)

FileInv ==
    /\ target # None => target.by \in 1..Len(uploads) /\ target.data = Content(target.by)
    /\ commits # {} => target # None

IndInv == TypeOK /\ Ids /\ FileInv /\ \A h \in Handlers : HandlerInv(h)

-----------------------------------------------------------------------------
\* What the handlers and the clients write are messages.
LEMMA Messages ==
  /\ ErrorMsg \in Message /\ InfoMsg \in Message
  /\ \A off \in Nat \cup {None} : Ack(off) \in Message
  /\ \A off \in Nat \cup {None}, d \in Pieces : Chunk(off, d) \in Message
  /\ [Ack(None) EXCEPT !.type = "other"] \in Message
BY DEF ErrorMsg, InfoMsg, Ack, Chunk, Message, Pieces

\* Write adds a message to what is on its way to the client.
LEMMA WriteTyped ==
  ASSUME TypeOK, NEW h \in Handlers, NEW m \in Message, Write(h, m)
  PROVE  outbox' \in [Handlers -> Seq(Message)]
BY DEF TypeOK, Write

\* Take removes the first message.
LEMMA TakeTyped ==
  ASSUME TypeOK, NEW h \in Handlers, NEW type, Take(h, type)
  PROVE  /\ inbox' \in [Handlers -> Seq(Message)]
         /\ Head(inbox[h]) \in Message
BY DEF TypeOK, Take

\* Send adds one.
LEMMA SendTyped ==
  ASSUME TypeOK, NEW h \in Handlers, NEW m \in Message, Send(h, m)
  PROVE  inbox' \in [Handlers -> Seq(Message)]
BY DEF TypeOK, Send

\* The deferred function keeps the types.
LEMMA LeaveTyped ==
  ASSUME TypeOK, NEW h \in Handlers, NEW tell \in BOOLEAN, Leave(h, tell)
  PROVE  /\ outbox' \in [Handlers -> Seq(Message)]
         /\ temp' \in [Handlers -> Seq(Nat \X Nat) \cup {None}]
         /\ pc' \in [Handlers -> Stages] /\ leftover' \subseteq Handlers
         /\ UNCHANGED <<target, commits, job>>
<1>1. outbox' \in [Handlers -> Seq(Message)]
  BY Messages, WriteTyped DEF Leave, TypeOK
<1> QED BY <1>1 DEF Leave, TypeOK, Goto, Stages

\* A failure uses up one of those that may be.
LEMMA FaultTyped == ASSUME TypeOK, Fault PROVE faults' \in Nat /\ failed' \in BOOLEAN
BY DEF TypeOK, Fault

\* The updates of the variables of a transfer.
LEMMA JobTyped ==
  ASSUME NEW j \in Job, NEW k \in Nat, NEW l \in Nat
  PROVE  /\ [j EXCEPT !.u = k] \in Job
         /\ [j EXCEPT !.ack = k, !.start = l] \in Job
         /\ [j EXCEPT !.off = @ + 1, !.n = @ + 1, !.last = k] \in Job
         /\ [j EXCEPT !.n = @ + 1, !.last = k, !.done = TRUE] \in Job
<1>0. j.off + 1 \in Nat /\ j.n + 1 \in Nat
  BY DEF Job
<1>1. [j EXCEPT !.u = k] \in Job
  BY DEF Job
<1>2. [j EXCEPT !.ack = k, !.start = l] \in Job
  <2>1. [j EXCEPT !.ack = k, !.start = l] = [[j EXCEPT !.ack = k] EXCEPT !.start = l]
    OBVIOUS
  <2> QED BY <2>1 DEF Job
<1>3. [j EXCEPT !.off = @ + 1, !.n = @ + 1, !.last = k] \in Job
  <2>1. [j EXCEPT !.off = @ + 1, !.n = @ + 1, !.last = k]
          = [[[j EXCEPT !.off = j.off + 1] EXCEPT !.n = j.n + 1] EXCEPT !.last = k]
    OBVIOUS
  <2> QED BY <1>0, <2>1 DEF Job
<1>4. [j EXCEPT !.n = @ + 1, !.last = k, !.done = TRUE] \in Job
  <2>1. [j EXCEPT !.n = @ + 1, !.last = k, !.done = TRUE]
          = [[[j EXCEPT !.n = j.n + 1] EXCEPT !.last = k] EXCEPT !.done = TRUE]
    OBVIOUS
  <2> QED BY <1>0, <2>1 DEF Job
<1> QED BY <1>1, <1>2, <1>3, <1>4

\* Those that only go on.
LEMMA NextTyped ==
  ASSUME TypeOK, NEW h \in Handlers
  PROVE  /\ [job EXCEPT ![h].off = @ + 1] \in [Handlers -> Job]
         /\ [job EXCEPT ![h].n = 0] \in [Handlers -> Job]
         /\ [client EXCEPT ![h].sent = @ + 1] \in [Handlers -> Peer]
<1>1. /\ job[h] \in Job /\ client[h] \in Peer
      /\ job[h].off + 1 \in Nat /\ client[h].sent + 1 \in Nat
  BY DEF TypeOK, Job, Peer
<1>2. [job[h] EXCEPT !.off = @ + 1] \in Job
  BY <1>1 DEF Job
<1>3. [job[h] EXCEPT !.n = 0] \in Job
  BY <1>1 DEF Job
<1>4. [client[h] EXCEPT !.sent = @ + 1] \in Peer
  BY <1>1 DEF Peer
<1> QED BY <1>2, <1>3, <1>4 DEF TypeOK

\* Where transfers and clients begin, and how clients end.
LEMMA NoneTyped ==
  /\ NoJob \in Job /\ NoClient \in Peer
  /\ \A u \in Nat : /\ [NoClient EXCEPT !.st = "put", !.u = u] \in Peer
                    /\ [NoClient EXCEPT !.st = "quit", !.u = u] \in Peer
                    /\ [NoClient EXCEPT !.st = "gone", !.u = u] \in Peer
  /\ [NoClient EXCEPT !.st = "get"] \in Peer
<1>1. NoJob \in Job /\ NoClient \in Peer
  BY DEF Job, NoJob, Peer, NoClient
<1>2. ASSUME NEW u \in Nat, NEW st \in {"put", "quit", "gone"}
      PROVE  [NoClient EXCEPT !.st = st, !.u = u] \in Peer
  <2>1. [NoClient EXCEPT !.st = st, !.u = u] = [[NoClient EXCEPT !.st = st] EXCEPT !.u = u]
    OBVIOUS
  <2> QED BY <1>1, <2>1 DEF Peer
<1>3. [NoClient EXCEPT !.st = "get"] \in Peer
  BY <1>1 DEF Peer
<1> QED BY <1>1, <1>2, <1>3

\* What a message makes of a client.
LEMMA AfterTyped ==
  ASSUME TypeOK, NEW h \in Handlers, NEW m \in Message
  PROVE  After(h, m) \in Peer
<1> DEFINE c == client[h]
<1>1. /\ c \in Peer /\ c.u \in Nat /\ NoClient \in Peer
      /\ [NoClient EXCEPT !.st = "quit", !.u = c.u] \in Peer
  BY NoneTyped DEF TypeOK, Peer
<1>2. ASSUME m.type = "ack" PROVE [c EXCEPT !.acked = m.off] \in Peer
  <2>1. m.off \in Nat \cup {None}
    BY <1>2 DEF Message
  <2> QED BY <1>1, <2>1 DEF Peer
<1>3. ASSUME m.type = "chunk", m.data # None
      PROVE  [c EXCEPT !.got = Append(@, m.data)] \in Peer
  <2>1. m.data \in Nat \X Nat
    BY <1>3 DEF Message, Pieces
  <2>2. Append(c.got, m.data) \in Seq(Nat \X Nat)
    BY <1>1, <2>1 DEF Peer
  <2> QED BY <1>1, <2>2 DEF Peer
<1> QED BY <1>1, <1>2, <1>3 DEF After

\* A sequence that is cut.
LEMMA Cut ==
  ASSUME NEW S, NEW s \in Seq(S), NEW k \in 0..Len(s)
  PROVE  /\ SubSeq(s, 1, k) \in Seq(S) /\ Len(SubSeq(s, 1, k)) = k
         /\ \A i \in 1..k : SubSeq(s, 1, k)[i] = s[i]
OBVIOUS

\* Every step keeps the types.
LEMMA TypeStep == ASSUME IndInv, Next PROVE TypeOK'
<1> USE NoneAssumption DEF config, fileVars, rateVars, peerVars, sessVars, taskVars,
        faultVars, rest
<1>0. TypeOK
  BY DEF IndInv
<1>1. CASE UpdateCounters
  BY <1>0, <1>1 DEF UpdateCounters, TypeOK
<1>2. ASSUME NEW h \in Handlers, Session(h) \/ Close(h) PROVE TypeOK'
  <2>1. CASE BeginUpload(h)
    <3>1. inbox' \in [Handlers -> Seq(Message)] /\ Head(inbox[h]).u \in Nat
      BY <1>0, <2>1, TakeTyped DEF BeginUpload, Take, Message
    <3>2. [job[h] EXCEPT !.u = Head(inbox[h]).u] \in Job
      BY <1>0, <3>1, JobTyped DEF TypeOK
    <3> QED BY <1>0, <2>1, <3>1, <3>2 DEF BeginUpload, TypeOK, Goto, Stages
  <2>2. CASE RefuseUpload(h)
    BY <1>0, <2>2, TakeTyped, WriteTyped, Messages DEF RefuseUpload, TypeOK
  <2>3. CASE BeginDownload(h)
    <3>1. inbox' \in [Handlers -> Seq(Message)]
      BY <1>0, <2>3, TakeTyped DEF BeginDownload
    <3>2. target # None /\ target.data \in Seq(Nat \X Nat)
      BY <1>0, <2>3 DEF BeginDownload, MayDownload, TypeOK, File
    <3>3. [job[h] EXCEPT !.data = target.data] \in Job
      <4>1. job[h] \in Job
        BY <1>0 DEF TypeOK
      <4> QED BY <3>2, <4>1 DEF Job
    <3> QED BY <1>0, <2>3, <3>1, <3>3 DEF BeginDownload, TypeOK, Goto, Stages
  <2>4. CASE RefuseDownload(h)
    BY <1>0, <2>4, TakeTyped, WriteTyped, Messages DEF RefuseDownload, TypeOK
  <2>5. CASE Answer(h)
    BY <1>0, <2>5, TakeTyped, WriteTyped, Messages DEF Answer, TypeOK
  <2>6. CASE OfferMessage(h)
    BY <1>0, <2>6, TakeTyped DEF OfferMessage, TypeOK
  <2>7. CASE NoTransferInProgress(h)
    BY <1>0, <2>7, WriteTyped, Messages DEF NoTransferInProgress, Handed, TypeOK
  <2>8. CASE Close(h)
    BY <1>0, <2>8, FaultTyped DEF Close, TimeOut, Interrupt, EndSession, TypeOK
  <2> QED BY <1>2, <2>1, <2>2, <2>3, <2>4, <2>5, <2>6, <2>7, <2>8 DEF Session
<1>3. ASSUME NEW h \in Handlers, Upload(h) PROVE TypeOK'
  <2>0. /\ HandlerInv(h) /\ Ids
        /\ \A tell \in BOOLEAN : Fail(h, tell) => Leave(h, tell) /\ faults' \in Nat
                                                  /\ failed' \in BOOLEAN
    BY <1>0, FaultTyped DEF IndInv, Fail
  <2>1. CASE CreateFile(h)
    <3>1. outbox' \in [Handlers -> Seq(Message)]
      <4>1. outbox[h] \in Seq(Message) /\ ErrorMsg \in Message
        BY <1>0, Messages DEF TypeOK
      <4>2. Append(Append(outbox[h], ErrorMsg), ErrorMsg) \in Seq(Message)
        BY <4>1
      <4>3. outbox' = outbox \/ outbox' \in {[outbox EXCEPT ![h] = outbox[h]],
              [outbox EXCEPT ![h] = Append(Append(outbox[h], ErrorMsg), ErrorMsg)]}
        BY <2>1 DEF CreateFile
      <4> QED BY <1>0, <4>1, <4>2, <4>3 DEF TypeOK
    <3>2. faults' \in Nat /\ failed' \in BOOLEAN
      BY <1>0, <2>1, FaultTyped DEF CreateFile, TypeOK
    <3>3. temp' \in [Handlers -> Seq(Nat \X Nat) \cup {None}]
      <4>1. temp' = temp \/ temp' = [temp EXCEPT ![h] = <<>>]
        BY <2>1 DEF CreateFile
      <4>2. <<>> \in Seq(Nat \X Nat)
        OBVIOUS
      <4> QED BY <1>0, <4>1, <4>2 DEF TypeOK
    <3>4. pc' \in [Handlers -> Stages]
      BY <1>0, <2>1 DEF CreateFile, TypeOK, Goto, Stages
    <3>5. UNCHANGED <<limits, v2, uploads, target, leftover, commits, counted, over,
                      client, inbox, sess, cur, job, requests>>
      BY <2>1 DEF CreateFile
    <3> QED BY <1>0, <3>1, <3>2, <3>3, <3>4, <3>5 DEF TypeOK
  <2>2. CASE FirstAck(h)
    BY <1>0, <2>0, <2>2, LeaveTyped, WriteTyped, Messages DEF FirstAck, TypeOK, Goto, Stages
  <2>3. CASE WriteChunk(h)
    <3>1. /\ sess' \in [Handlers -> {"serve", "handoff", "closed"}]
          /\ cur' \in [Handlers -> Message \cup {None}]
          /\ cur[h] \in Message /\ cur[h].type = "chunk"
      BY <1>0, <2>0, <2>3 DEF WriteChunk, Receives, Handed, TypeOK, HandlerInv, SessInv, InPlace
    <3>2. cur[h].off \in Nat /\ cur[h].data \in Nat \X Nat
      BY <1>0, <2>3, <3>1 DEF WriteChunk, InPlace, Message, Pieces, TypeOK, Job
    <3>3. temp[h] \in Seq(Nat \X Nat)
      BY <1>0, <2>0, <2>3 DEF WriteChunk, Receives, HandlerInv, JobInv, Writing, TypeOK
    <3>4. counted' \subseteq Directions
      BY <1>0, <2>3 DEF WriteChunk, Count, Directions, TypeOK
    <3>5. CASE Leave(h, TRUE) /\ faults' \in Nat /\ failed' \in BOOLEAN
      BY <1>0, <2>3, <3>1, <3>4, <3>5, LeaveTyped DEF WriteChunk, TypeOK
    <3>6. CASE /\ temp' = [temp EXCEPT ![h] = Append(@, cur[h].data)]
               /\ AfterChunk(h, [job[h] EXCEPT !.off = @ + 1, !.n = @ + 1, !.last = cur[h].off])
               /\ UNCHANGED <<target, leftover, commits, outbox, faultVars>>
      <4>1. job' \in [Handlers -> Job] /\ pc' \in [Handlers -> Stages]
        BY <1>0, <3>2, <3>6, JobTyped DEF AfterChunk, TypeOK, Goto, Stages
      <4>2. temp' \in [Handlers -> Seq(Nat \X Nat) \cup {None}]
        BY <1>0, <3>2, <3>3, <3>6 DEF TypeOK
      <4> QED BY <1>0, <2>3, <3>1, <3>4, <3>6, <4>1, <4>2 DEF WriteChunk, TypeOK
    <3> QED BY <1>0, <2>0, <2>3, <3>5, <3>6 DEF WriteChunk, TypeOK
  <2>4. CASE EndOfFile(h)
    <3>1. /\ sess' \in [Handlers -> {"serve", "handoff", "closed"}]
          /\ cur' \in [Handlers -> Message \cup {None}]
          /\ cur[h] \in Message /\ cur[h].type = "chunk"
      BY <1>0, <2>0, <2>4 DEF EndOfFile, Receives, Handed, TypeOK, HandlerInv, SessInv, InPlace
    <3>2. cur[h].off \in Nat
      BY <1>0, <2>4, <3>1 DEF EndOfFile, InPlace, TypeOK, Job
    <3>3. job' \in [Handlers -> Job] /\ pc' \in [Handlers -> Stages]
      BY <1>0, <2>4, <3>2, JobTyped DEF EndOfFile, AfterChunk, TypeOK, Goto, Stages
    <3> QED BY <1>0, <2>4, <3>1, <3>3 DEF EndOfFile, TypeOK
  <2>5. CASE RejectChunk(h)
    BY <1>0, <2>5, LeaveTyped DEF RejectChunk, Receives, Handed, TypeOK
  <2>6. CASE ChannelClosed(h)
    BY <1>0, <2>6, LeaveTyped DEF ChannelClosed, TypeOK
  <2>7. CASE BatchEnds(h)
    BY <1>0, <2>7 DEF BatchEnds, TypeOK, Goto, Stages
  <2>8. CASE SendAck(h)
    <3>1. job[h].last \in Nat \cup {None}
      BY <1>0 DEF TypeOK, Job
    <3>2. CASE Fail(h, FALSE)
      BY <1>0, <2>0, <2>8, <3>2, LeaveTyped DEF SendAck, TypeOK
    <3>3. CASE Write(h, Ack(job[h].last)) /\ ~Fail(h, FALSE)
      <4>1. outbox' \in [Handlers -> Seq(Message)]
        BY <1>0, <3>1, <3>3, WriteTyped, Messages
      <4>2. job' \in [Handlers -> Job] /\ pc' \in [Handlers -> Stages]
        <5>1. job' \in [Handlers -> Job]
          BY <1>0, <2>8, <3>3, NextTyped DEF SendAck
        <5>2. pc' \in [Handlers -> Stages]
          BY <1>0, <2>8, <3>3 DEF SendAck, TypeOK, Goto, Stages
        <5> QED BY <5>1, <5>2
      <4> QED BY <1>0, <2>8, <3>3, <4>1, <4>2 DEF SendAck, TypeOK
    <3> QED BY <2>8, <3>2, <3>3 DEF SendAck
  <2>9. CASE Rename(h)
    <3>1. CASE Fail(h, TRUE)
      BY <1>0, <2>0, <2>9, <3>1, LeaveTyped DEF Rename, TypeOK
    <3>2. CASE ~Fail(h, TRUE)
      <4>1. temp[h] \in Seq(Nat \X Nat) /\ job[h].u \in Nat
        BY <1>0, <2>0, <2>9 DEF Rename, HandlerInv, JobInv, Writing, TypeOK, Job
      <4>2. target' \in File /\ commits' \subseteq Nat
        <5>1. target' = [data |-> temp[h], by |-> job[h].u, owner |-> h, regular |-> TRUE]
              /\ commits' = commits \cup {job[h].u}
          BY <2>9, <3>2 DEF Rename
        <5> QED BY <1>0, <4>1, <5>1 DEF File, TypeOK
      <4> QED BY <1>0, <2>9, <3>2, <4>2 DEF Rename, TypeOK, Goto, Stages
    <3> QED BY <3>1, <3>2
  <2>10. CASE Preserve(h)
    <3>1. CASE Fail(h, TRUE)
      BY <1>0, <2>0, <2>10, <3>1, LeaveTyped DEF Preserve, TypeOK
    <3>2. CASE ~Fail(h, TRUE)
      <4>1. target \in File
        BY <1>0, <2>0, <2>10 DEF Preserve, HandlerInv, JobInv, IndInv, FileInv, TypeOK
      <4>2. target' \in File
        BY <2>10, <3>2, <4>1 DEF Preserve, Preserved, File
      <4> QED BY <1>0, <2>10, <3>2, <4>2 DEF Preserve, TypeOK, Goto, Stages
    <3> QED BY <3>1, <3>2
  <2>11. CASE FinalAck(h)
    BY <1>0, <2>0, <2>11, LeaveTyped, WriteTyped, Messages DEF FinalAck, TypeOK, Goto, Stages
  <2>12. CASE Release(h)
    <3>1. NoJob \in Job
      BY NoneTyped
    <3> QED BY <1>0, <2>12, <3>1 DEF Release, TypeOK, Goto, Stages
  <2> QED BY <1>3, <2>1, <2>2, <2>3, <2>4, <2>5, <2>6, <2>7, <2>8, <2>9, <2>10, <2>11, <2>12
             DEF Upload
<1>4. ASSUME NEW h \in Handlers, Download(h) PROVE TypeOK'
  <2>0. /\ HandlerInv(h)
        /\ \A tell \in BOOLEAN : Fail(h, tell) => Leave(h, tell) /\ faults' \in Nat
                                                  /\ failed' \in BOOLEAN
    BY <1>0, FaultTyped DEF IndInv, Fail
  <2>1. CASE CopyChunk(h)
    <3>1. CASE Fail(h, TRUE)
      BY <1>0, <2>0, <2>1, <3>1, LeaveTyped DEF CopyChunk, TypeOK
    <3>2. CASE ~Fail(h, TRUE)
      <4>1. job[h].off \in Nat /\ job[h].data[job[h].off + 1] \in Pieces
        <5>1. job[h].off \in Nat /\ job[h].data \in Seq(Nat \X Nat)
          BY <1>0 DEF TypeOK, Job
        <5> QED BY <2>1, <5>1 DEF CopyChunk, Pieces
      <4>2. outbox' \in [Handlers -> Seq(Message)]
        BY <1>0, <2>1, <3>2, <4>1, WriteTyped, Messages DEF CopyChunk
      <4>3. job' \in [Handlers -> Job]
        BY <1>0, <2>1, <3>2, NextTyped DEF CopyChunk
      <4> QED BY <1>0, <2>1, <3>2, <4>2, <4>3 DEF CopyChunk, TypeOK
    <3> QED BY <3>1, <3>2
  <2>2. CASE CopyEnds(h)
    <3>1. counted' \subseteq Directions
      BY <1>0, <2>2 DEF CopyEnds, Count, Directions, TypeOK
    <3>2. CASE Leave(h, TRUE)
      BY <1>0, <2>2, <3>1, <3>2, LeaveTyped DEF CopyEnds, TypeOK
    <3>3. CASE ~Leave(h, TRUE)
      BY <1>0, <2>2, <3>1, <3>3 DEF CopyEnds, TypeOK, Goto, Stages
    <3> QED BY <3>2, <3>3
  <2>3. CASE TakeAck(h)
    <3>1. cur[h] \in Message /\ cur[h].off \in Nat
      BY <1>0, <2>0, <2>3 DEF TakeAck, Handed, HandlerInv, SessInv, TypeOK, Message
    <3>2. job[h].off \in Nat
      BY <1>0 DEF TypeOK, Job
    <3>3. job' \in [Handlers -> Job]
      BY <1>0, <2>3, <3>1, <3>2, JobTyped DEF TakeAck, TypeOK
    <3>4. pc' \in [Handlers -> Stages]
      BY <1>0, <2>3 DEF TakeAck, TypeOK, Goto, Stages
    <3> QED BY <1>0, <2>3, <3>3, <3>4 DEF TakeAck, Handed, TypeOK
  <2>4. CASE RejectAck(h)
    BY <1>0, <2>4, LeaveTyped DEF RejectAck, Handed, TypeOK
  <2>5. CASE SendEof(h)
    <3>1. job[h].off \in Nat \cup {None} /\ None \in Pieces
      BY <1>0 DEF TypeOK, Pieces, Job
    <3>2. CASE Fail(h, TRUE)
      BY <1>0, <2>0, <2>5, <3>2, LeaveTyped DEF SendEof, TypeOK
    <3>3. CASE ~Fail(h, TRUE)
      BY <1>0, <2>5, <3>1, <3>3, WriteTyped, Messages DEF SendEof, TypeOK, Goto, Stages
    <3> QED BY <3>2, <3>3
  <2> QED BY <1>4, <2>1, <2>2, <2>3, <2>4, <2>5 DEF Download
<1>5. ASSUME NEW h \in Handlers,
             Client(h) \/ Put(h) \/ Get(h) \/ GiveUp(h) \/ Stray(h) \/ Vanish(h)
      PROVE  TypeOK'
  <2>0. HandlerInv(h) /\ Ids
    BY DEF IndInv
  <2>1. CASE SendChunk(h)
    <3>1. client[h].u \in DOMAIN uploads /\ client[h].sent \in Nat
      BY <1>0, <2>0, <2>1 DEF SendChunk, MaySend, HandlerInv, ClientInv, Ids, TypeOK, Peer
    <3>2. (IF client[h].sent < uploads[client[h].u]
             THEN <<client[h].u, client[h].sent + 1>> ELSE None) \in Pieces
      BY <1>0, <3>1 DEF Pieces, TypeOK
    <3>3. inbox' \in [Handlers -> Seq(Message)]
      BY <1>0, <2>1, <3>1, <3>2, SendTyped, Messages DEF SendChunk
    <3>4. client' \in [Handlers -> Peer]
      BY <1>0, <2>1, NextTyped DEF SendChunk
    <3> QED BY <1>0, <2>1, <3>3, <3>4 DEF SendChunk, TypeOK
  <2>2. CASE Receive(h)
    <3>1. Head(outbox[h]) \in Message /\ Tail(outbox[h]) \in Seq(Message)
      BY <1>0, <2>2 DEF Receive, TypeOK
    <3>2. outbox' \in [Handlers -> Seq(Message)]
      BY <1>0, <2>2, <3>1 DEF Receive, TypeOK
    <3>3. inbox' \in [Handlers -> Seq(Message)]
      BY <1>0, <2>2, <3>1, SendTyped, Messages DEF Receive, Message, TypeOK
    <3>4. After(h, Head(outbox[h])) \in Peer
      BY <1>0, <3>1, AfterTyped
    <3> QED BY <1>0, <2>2, <3>2, <3>3, <3>4 DEF Receive, TypeOK
  <2>3. CASE Put(h)
    <3>1. PICK n \in UploadSizes, p \in Places :
            /\ uploads' = Append(uploads, n)
            /\ Send(h, [type |-> "put", u |-> Len(uploads) + 1, place |-> p])
      BY <2>3 DEF Put, Places
    <3>2. uploads' \in Seq(Nat) /\ Len(uploads) + 1 \in Nat
      BY <1>0, <3>1, BoundAssumption DEF TypeOK
    <3>3. [type |-> "put", u |-> Len(uploads) + 1, place |-> p] \in Message
      BY <3>2 DEF Message
    <3>4. inbox' \in [Handlers -> Seq(Message)]
      BY <1>0, <3>1, <3>3, SendTyped
    <3>5. client' \in [Handlers -> Peer]
      BY <1>0, <2>3, <3>2, NoneTyped DEF Put, TypeOK
    <3>6. requests' \in Nat
      BY <1>0, <2>3 DEF Put, TypeOK
    <3> QED BY <1>0, <2>3, <3>2, <3>4, <3>5, <3>6 DEF Put, TypeOK
  <2>4. CASE Get(h)
    <3>1. inbox' \in [Handlers -> Seq(Message)]
      <4>1. PICK p \in Places : Send(h, [type |-> "get", place |-> p])
        BY <2>4 DEF Get, Places
      <4>2. [type |-> "get", place |-> p] \in Message
        BY DEF Message
      <4> QED BY <1>0, <4>1, <4>2, SendTyped
    <3>2. client' \in [Handlers -> Peer]
      BY <1>0, <2>4, NoneTyped DEF Get, TypeOK
    <3>3. requests' \in Nat
      BY <1>0, <2>4 DEF Get, TypeOK
    <3> QED BY <1>0, <2>4, <3>1, <3>2, <3>3 DEF Get, TypeOK
  <2>5. CASE GiveUp(h)
    <3>1. inbox' \in [Handlers -> Seq(Message)]
      BY <1>0, <2>5, SendTyped, Messages DEF GiveUp
    <3>2. client' \in [Handlers -> Peer]
      BY <1>0, <2>5, NoneTyped DEF GiveUp, Peer, TypeOK
    <3> QED BY <1>0, <2>5, <3>1, <3>2, FaultTyped DEF GiveUp, TypeOK
  <2>6. CASE Stray(h)
    <3>1. inbox' \in [Handlers -> Seq(Message)]
      BY <1>0, <2>6, SendTyped, Messages DEF Stray, Pieces
    <3> QED BY <1>0, <2>6, <3>1, FaultTyped DEF Stray, TypeOK
  <2>7. CASE Vanish(h)
    <3>1. inbox' \in [Handlers -> Seq(Message)]
      BY <1>0, <2>7, Cut DEF Vanish, TypeOK
    <3>2. client' \in [Handlers -> Peer]
      <4>1. client[h].u \in Nat
        BY <1>0 DEF TypeOK, Peer
      <4>2. client' = [client EXCEPT ![h] = [NoClient EXCEPT !.st = "gone", !.u = client[h].u]]
        BY <2>7 DEF Vanish
      <4> QED BY <1>0, <4>1, <4>2, NoneTyped DEF TypeOK
    <3> QED BY <1>0, <2>7, <3>1, <3>2, FaultTyped DEF Vanish, TypeOK
  <2> QED BY <1>5, <2>1, <2>2, <2>3, <2>4, <2>5, <2>6, <2>7 DEF Client
<1> QED BY <1>1, <1>2, <1>3, <1>4, <1>5 DEF Next

-----------------------------------------------------------------------------
(* What a step of one handler leaves as it is.                             *)

Still(g) ==
    /\ client'[g] = client[g] /\ inbox'[g] = inbox[g] /\ outbox'[g] = outbox[g]
    /\ sess'[g] = sess[g] /\ cur'[g] = cur[g]
    /\ pc'[g] = pc[g] /\ job'[g] = job[g] /\ temp'[g] = temp[g]

Grows ==
    /\ v2' = v2
    /\ Len(uploads') >= Len(uploads)
    /\ \A u \in 1..Len(uploads) : uploads'[u] = uploads[u]
    /\ commits \subseteq commits'

\* What is on its way to the transfer is a part of what was, maybe one place
\* nearer to it.
Shrinks(h) ==
    \E d \in {0, 1} : \A k \in 0..Len(inbox'[h]) :
        At(h, k)' # None => k + d \in Way(h) /\ At(h, k)' = At(h, k + d)

\* No acknowledgement is added to what is on its way to the client.
OutKeeps(h) ==
    \A j \in DOMAIN outbox'[h] : IsAck(h, j)' => IsAck(h, j) /\ outbox'[h][j] = outbox[h][j]

\* A handler that a step leaves alone keeps its invariant: nobody else commits
\* its uploads.
LEMMA StillKeeps ==
  ASSUME TypeOK, Ids, NEW g \in Handlers, HandlerInv(g), Still(g), Grows,
         commits' \cap {client[g].u, job[g].u} \subseteq commits
  PROVE  HandlerInv(g)'
<1> USE NoneAssumption DEF Still, Grows, HandlerInv
<1>0. /\ client[g].u # 0 => client[g].u \in 1..Len(uploads)
      /\ job[g].u # 0 => job[g].u \in 1..Len(uploads)
      /\ client[g].u # 0 => uploads'[client[g].u] = uploads[client[g].u]
      /\ job[g].u # 0 => uploads'[job[g].u] = uploads[job[g].u]
  BY DEF Ids, TypeOK
<1>1. /\ Active(g)' = Active(g) /\ Way(g)' = Way(g)
      /\ \A k : At(g, k)' = At(g, k) /\ IsChunk(g, k)' = IsChunk(g, k)
                                    /\ IsPut(g, k)' = IsPut(g, k)
      /\ \A j : IsAck(g, j)' = IsAck(g, j)
  BY DEF Active, At, Way, IsChunk, IsPut, IsAck
<1>2. JobInv(g)'
  BY <1>0 DEF JobInv, Writing, Receiving, Committing
<1>3. SessInv(g)'
  BY DEF SessInv
<1>4. ChunkInv(g)'
  BY <1>0, <1>1 DEF ChunkInv
<1>5. ClientInv(g)'
  BY <1>0, <1>1 DEF ClientInv
<1>6. AckInv(g)'
  BY <1>0, <1>1 DEF AckInv, ClientInv
<1> QED BY <1>2, <1>3, <1>4, <1>5, <1>6

\* No step but Put gives an upload to a handler that had it not.
LEMMA IdsKeep ==
  ASSUME Ids, TypeOK, NEW h \in Handlers, \A g \in Handlers \ {h} : Still(g),
         uploads' = uploads, commits' \subseteq 2..Len(uploads),
         client'[h].u \in {0, client[h].u}, job'[h].u \in {0, job[h].u, client[h].u}
  PROVE  Ids'
<1>1. \A g \in Handlers : g # h => client'[g] = client[g] /\ job'[g] = job[g]
  BY DEF Still
<1>2. \A g \in Handlers : /\ client'[g].u \in {0} \cup 2..Len(uploads)
                          /\ job'[g].u \in {0} \cup 2..Len(uploads)
  BY <1>1 DEF Ids
<1>3. ASSUME NEW f \in Handlers, NEW g \in Handlers, f # g
      PROVE  /\ client'[g].u # 0 => client'[g].u # client'[f].u /\ client'[g].u # job'[f].u
             /\ job'[g].u # 0 => job'[g].u # job'[f].u
  <2>1. CASE f # h /\ g # h
    BY <1>1, <1>3, <2>1 DEF Ids
  <2>2. CASE f = h
    BY <1>1, <1>3, <2>2 DEF Ids
  <2>3. CASE g = h
    BY <1>1, <1>3, <2>3 DEF Ids
  <2> QED BY <2>1, <2>2, <2>3
<1> QED BY <1>2, <1>3 DEF Ids

\* A step that writes no file and takes or leaves messages keeps the invariant
\* of its handler.
LEMMA QuietKeeps ==
  ASSUME TypeOK, TypeOK', Ids, NEW h \in Handlers, HandlerInv(h), SessInv(h)',
         client'[h] = client[h], UNCHANGED <<v2, uploads, commits>>,
         Shrinks(h), OutKeeps(h),
         \/ pc'[h] = pc[h] /\ job'[h] = job[h] /\ temp'[h] = temp[h]
         \/ /\ pc'[h] \notin Receiving \cup Writing \cup Committing
            /\ temp'[h] = None /\ job'[h].u \in {0, job[h].u}
            /\ pc'[h] = "idle" => job'[h] = NoJob
  PROVE  HandlerInv(h)'
<1> USE NoneAssumption DEF HandlerInv
<1>1. PICK d \in {0, 1} : \A k \in 0..Len(inbox'[h]) :
        At(h, k)' # None => k + d \in Way(h) /\ At(h, k)' = At(h, k + d)
  BY DEF Shrinks
<1>2. /\ Active(h)' => Active(h) /\ job'[h] = job[h]
      /\ pc'[h] \in {"create", "firstAck", "batch", "ack"} => pc'[h] = pc[h]
  BY DEF Active, Receiving, Writing, Committing
<1>3. JobInv(h)'
  BY DEF JobInv, Receiving, Writing, Committing
<1>4. \A k \in Way(h)' : IsChunk(h, k)' => /\ k + d \in Way(h) /\ IsChunk(h, k + d)
                                           /\ At(h, k)' = At(h, k + d)
  BY <1>1 DEF IsChunk, Way
<1>5. ChunkInv(h)'
  <2>1. Way(h)' \subseteq Nat /\ Way(h) \subseteq Nat
    BY DEF Way, TypeOK
  <2> QED BY <1>2, <1>4, <2>1 DEF ChunkInv
<1>6. \A k \in DOMAIN inbox'[h] : IsPut(h, k)' =>
        k + d \in DOMAIN inbox[h] /\ IsPut(h, k + d) /\ inbox'[h][k] = inbox[h][k + d]
  <2>1. \A k \in DOMAIN inbox'[h] : k \in 0..Len(inbox'[h]) /\ k # 0 /\ inbox'[h][k] # None
    <3>1. inbox'[h] \in Seq(Message)
      BY DEF TypeOK
    <3>2. \A k \in 1..Len(inbox'[h]) : inbox'[h][k] \in Message
      BY <3>1
    <3> QED BY <3>1, <3>2, NoneIsNothing
  <2>2. \A k \in Way(h) : k # 0 => k \in DOMAIN inbox[h]
    BY DEF Way, TypeOK
  <2> QED BY <1>1, <2>1, <2>2 DEF At, IsPut
<1>7. \A j \in DOMAIN outbox'[h] : IsAck(h, j)' => /\ j \in DOMAIN outbox[h] /\ IsAck(h, j)
                                                   /\ outbox'[h][j] = outbox[h][j]
  BY DEF OutKeeps, IsAck
<1>8. ClientInv(h)'
  <2>1. client[h].st \in {"idle", "get"} => \A j \in DOMAIN outbox'[h] : ~IsAck(h, j)'
    BY <1>7 DEF ClientInv
  <2>2. ASSUME NEW k \in DOMAIN inbox'[h], IsPut(h, k)'
        PROVE  /\ inbox'[h][k].u = client[h].u /\ client[h].u # 0
               /\ client[h].u \notin commits /\ client[h].u # job'[h].u
               /\ ~Active(h)'
               /\ \A l \in DOMAIN inbox'[h] : IsPut(h, l)' => l = k
               /\ client[h].st = "put" =>
                    client[h].acked = None /\ \A j \in DOMAIN outbox'[h] : ~IsAck(h, j)'
    <3>1. \A l \in DOMAIN inbox'[h] : l \in Nat
      BY DEF TypeOK
    <3> QED BY <1>2, <1>6, <1>7, <2>2, <3>1 DEF ClientInv
  <2> QED BY <1>2, <2>1, <2>2 DEF ClientInv
<1>9. AckInv(h)'
  <2>1. h \notin v2 /\ client[h].st = "put" =>
          /\ \A j \in DOMAIN outbox'[h] : IsAck(h, j)' => outbox'[h][j].off # None
          /\ client[h].acked = None =>
               /\ client[h].sent = 0 /\ pc'[h] \notin {"batch", "ack"}
               /\ \A j \in DOMAIN outbox'[h] : IsAck(h, j)' =>
                    /\ pc'[h] \notin {"create", "firstAck"}
                    /\ \A i \in DOMAIN outbox'[h] : IsAck(h, i)' => i = j
          /\ client[h].acked # None => pc'[h] \notin {"create", "firstAck"}
    BY <1>2, <1>7 DEF AckInv
  <2>2. ASSUME client[h].st = "put", NEW j \in DOMAIN outbox'[h], IsAck(h, j)',
               h \in v2 \/ (client[h].acked # None
                             /\ outbox'[h][j].off = uploads[client[h].u])
        PROVE  /\ ~Active(h)' /\ client[h].sent > uploads[client[h].u]
               /\ \A k \in Way(h)' : ~IsChunk(h, k)'
               /\ \A i \in DOMAIN outbox'[h] : IsAck(h, i)' => i <= j
               /\ h \in v2 => outbox'[h][j].off = None /\ client[h].u \in commits
    BY <1>2, <1>4, <1>7, <2>2 DEF AckInv
  <2> QED BY <2>1, <2>2 DEF AckInv
<1> QED BY <1>3, <1>5, <1>8, <1>9

\* The steps of one handler leave the others alone.
LEMMA OthersStill ==
  ASSUME TypeOK, NEW h \in Handlers,
         \/ Session(h) \/ Close(h) \/ Upload(h) \/ Download(h) \/ Client(h)
         \/ Put(h) \/ Get(h) \/ GiveUp(h) \/ Stray(h) \/ Vanish(h)
  PROVE  v2' = v2 /\ \A g \in Handlers \ {h} : Still(g)
<1> USE DEF Still, config, fileVars, rateVars, peerVars, sessVars, taskVars, faultVars, rest
<1>0. TypeOK
  OBVIOUS
<1>1. CASE Session(h) \/ Close(h)
  <2> USE DEF TypeOK
  <2>1. CASE BeginUpload(h)
    BY <1>0, <2>1 DEF BeginUpload, Take, Goto
  <2>2. CASE RefuseUpload(h)
    BY <1>0, <2>2 DEF RefuseUpload, Take, Write
  <2>3. CASE BeginDownload(h)
    BY <1>0, <2>3 DEF BeginDownload, Take, Goto
  <2>4. CASE RefuseDownload(h)
    BY <1>0, <2>4 DEF RefuseDownload, Take, Write
  <2>5. CASE Answer(h)
    BY <1>0, <2>5 DEF Answer, Take, Write
  <2>6. CASE OfferMessage(h)
    BY <1>0, <2>6 DEF OfferMessage, Take
  <2>7. CASE NoTransferInProgress(h)
    BY <1>0, <2>7 DEF NoTransferInProgress, Handed, Write
  <2>8. CASE Close(h)
    BY <1>0, <2>8 DEF Close, TimeOut, Interrupt, EndSession
  <2> QED BY <1>1, <2>1, <2>2, <2>3, <2>4, <2>5, <2>6, <2>7, <2>8 DEF Session
<1>2. CASE Upload(h)
  <2> USE DEF TypeOK
  <2>1. CASE CreateFile(h)
    BY <1>0, <2>1 DEF CreateFile, Goto
  <2>2. CASE FirstAck(h)
    BY <1>0, <2>2 DEF FirstAck, Fail, Leave, Goto, Write
  <2>3. CASE WriteChunk(h)
    BY <1>0, <2>3 DEF WriteChunk, Receives, Handed, AfterChunk, Fail, Leave, Goto, Write
  <2>4. CASE EndOfFile(h)
    BY <1>0, <2>4 DEF EndOfFile, Receives, Handed, AfterChunk, Goto
  <2>5. CASE RejectChunk(h)
    BY <1>0, <2>5 DEF RejectChunk, Receives, Handed, Leave, Goto, Write
  <2>6. CASE ChannelClosed(h)
    BY <1>0, <2>6 DEF ChannelClosed, Leave, Goto, Write
  <2>7. CASE BatchEnds(h)
    BY <1>0, <2>7 DEF BatchEnds, Goto
  <2>8. CASE SendAck(h)
    BY <1>0, <2>8 DEF SendAck, Fail, Leave, Goto, Write
  <2>9. CASE Rename(h)
    BY <1>0, <2>9 DEF Rename, Fail, Leave, Goto, Write
  <2>10. CASE Preserve(h)
    BY <1>0, <2>10 DEF Preserve, Fail, Leave, Goto, Write
  <2>11. CASE FinalAck(h)
    BY <1>0, <2>11 DEF FinalAck, Fail, Leave, Goto, Write
  <2>12. CASE Release(h)
    BY <1>0, <2>12 DEF Release, Goto
  <2> QED BY <1>2, <2>1, <2>2, <2>3, <2>4, <2>5, <2>6, <2>7, <2>8, <2>9, <2>10, <2>11, <2>12
         DEF Upload
<1>3. CASE Download(h)
  <2> USE DEF TypeOK
  <2>1. CASE CopyChunk(h)
    BY <1>0, <2>1 DEF CopyChunk, Fail, Leave, Goto, Write
  <2>2. CASE CopyEnds(h)
    BY <1>0, <2>2 DEF CopyEnds, Leave, Goto, Write
  <2>3. CASE TakeAck(h)
    BY <1>0, <2>3 DEF TakeAck, Handed, Goto
  <2>4. CASE RejectAck(h)
    BY <1>0, <2>4 DEF RejectAck, Handed, Leave, Goto, Write
  <2>5. CASE SendEof(h)
    BY <1>0, <2>5 DEF SendEof, Fail, Leave, Goto, Write
  <2> QED BY <1>3, <2>1, <2>2, <2>3, <2>4, <2>5 DEF Download
<1>4. CASE Client(h) \/ Put(h) \/ Get(h) \/ GiveUp(h) \/ Stray(h) \/ Vanish(h)
  <2> USE DEF TypeOK
  <2>1. CASE SendChunk(h)
    BY <1>0, <2>1 DEF SendChunk, Send
  <2>2. CASE Receive(h)
    BY <1>0, <2>2 DEF Receive, Send
  <2>3. CASE Put(h)
    BY <1>0, <2>3 DEF Put, Send
  <2>4. CASE Get(h)
    BY <1>0, <2>4 DEF Get, Send
  <2>5. CASE GiveUp(h)
    BY <1>0, <2>5 DEF GiveUp, Send
  <2>6. CASE Stray(h)
    BY <1>0, <2>6 DEF Stray, Send
  <2>7. CASE Vanish(h)
    BY <1>0, <2>7 DEF Vanish
  <2> QED BY <1>4, <2>1, <2>2, <2>3, <2>4, <2>5, <2>6, <2>7 DEF Client
<1> QED BY <1>1, <1>2, <1>3, <1>4

\* What makes a step of one handler keep the invariant of all.
LEMMA Assemble ==
  ASSUME IndInv, TypeOK', NEW h \in Handlers, \A g \in Handlers \ {h} : Still(g),
         Grows, commits' \subseteq commits \cup ({job[h].u} \ {0}),
         HandlerInv(h)', Ids', FileInv'
  PROVE  IndInv'
<1>1. ASSUME NEW g \in Handlers \ {h} PROVE HandlerInv(g)'
  <2>1. commits' \cap {client[g].u, job[g].u} \subseteq commits
    BY DEF IndInv, Ids
  <2> QED BY <2>1, StillKeeps DEF IndInv
<1> QED BY <1>1 DEF IndInv

\* A step that neither asks for an upload nor commits one keeps what is said of
\* the file.
LEMMA FileKeeps ==
  ASSUME TypeOK, FileInv, UNCHANGED <<uploads, commits>>,
         \/ target' = target
         \/ target # None /\ \E o : target' = [target EXCEPT !.owner = o] /\ target' # None
  PROVE  FileInv'
<1>1. CASE target' = target
  BY <1>1 DEF FileInv, Content
<1>2. CASE target # None /\ \E o : target' = [target EXCEPT !.owner = o] /\ target' # None
  <2>1. target'.by = target.by /\ target'.data = target.data /\ target' # None
    BY <1>2 DEF TypeOK, File
  <2> QED BY <1>2, <2>1 DEF FileInv, Content
<1> QED BY <1>1, <1>2

\* The same of everything, for a step that writes no file.
LEMMA QuietStep ==
  ASSUME IndInv, TypeOK', NEW h \in Handlers, \A g \in Handlers \ {h} : Still(g),
         UNCHANGED <<v2, uploads, commits>>, FileInv',
         client'[h] = client[h], SessInv(h)', Shrinks(h), OutKeeps(h),
         \/ pc'[h] = pc[h] /\ job'[h] = job[h] /\ temp'[h] = temp[h]
         \/ /\ pc'[h] \notin Receiving \cup Writing \cup Committing
            /\ temp'[h] = None /\ job'[h].u \in {0, job[h].u}
            /\ pc'[h] = "idle" => job'[h] = NoJob
  PROVE  IndInv'
<1>1. Ids'
  BY IdsKeep DEF IndInv, Ids
<1>2. HandlerInv(h)'
  BY QuietKeeps DEF IndInv
<1>3. Grows /\ commits' \subseteq commits \cup ({job[h].u} \ {0})
  BY DEF Grows, IndInv, TypeOK
<1> QED BY <1>1, <1>2, <1>3, Assemble

\* How messages reach the session goroutine and leave it again.
LEMMA Moves ==
  ASSUME TypeOK, NEW h \in Handlers, SessInv(h)
  PROVE  /\ inbox'[h] = inbox[h] /\ cur'[h] \in {cur[h], None} => Shrinks(h)
         /\ \A type : /\ Take(h, type)
                      /\ sess[h] = "serve" /\ cur'[h] \in {None, Head(inbox[h])}
                      => Shrinks(h)
<1>1. ASSUME inbox'[h] = inbox[h], cur'[h] \in {cur[h], None} PROVE Shrinks(h)
  <2>1. \A k \in 0..Len(inbox'[h]) :
          At(h, k)' # None => k + 0 \in Way(h) /\ At(h, k)' = At(h, k + 0)
    BY <1>1 DEF At, Way, TypeOK
  <2> QED BY <2>1 DEF Shrinks
<1>2. ASSUME NEW type, Take(h, type), cur'[h] \in {None, Head(inbox[h])} PROVE Shrinks(h)
  <2>1. /\ inbox[h] \in Seq(Message) /\ inbox[h] # <<>>
        /\ inbox'[h] = Tail(inbox[h])
    BY <1>2 DEF Take, TypeOK
  <2>2. /\ Len(inbox'[h]) = Len(inbox[h]) - 1 /\ Len(inbox[h]) \in Nat \ {0}
        /\ \A k \in 1..Len(inbox'[h]) : inbox'[h][k] = inbox[h][k + 1]
        /\ Head(inbox[h]) = inbox[h][1]
    BY <2>1
  <2>3. \A k \in 0..Len(inbox'[h]) :
          At(h, k)' # None => k + 1 \in Way(h) /\ At(h, k)' = At(h, k + 1)
    BY <1>2, <2>2 DEF At, Way
  <2> QED BY <2>3 DEF Shrinks
<1> QED BY <1>1, <1>2

\* Answers that are no acknowledgements.
LEMMA Answers ==
  ASSUME TypeOK, NEW h \in Handlers
  PROVE  /\ outbox'[h] = outbox[h] => OutKeeps(h)
         /\ \A m \in Message : Write(h, m) /\ m.type # "ack" => OutKeeps(h)
<1>1. outbox'[h] = outbox[h] => OutKeeps(h)
  BY DEF OutKeeps, IsAck
<1>2. ASSUME NEW m \in Message, Write(h, m), m.type # "ack" PROVE OutKeeps(h)
  <2>1. outbox'[h] = outbox[h] \/ outbox'[h] = Append(outbox[h], m)
    BY <1>2 DEF Write, TypeOK
  <2>2. outbox[h] \in Seq(Message)
    BY DEF TypeOK
  <2>3. CASE outbox'[h] = Append(outbox[h], m)
    <3>1. /\ Len(outbox'[h]) = Len(outbox[h]) + 1 /\ outbox'[h] \in Seq(Message)
          /\ outbox'[h][Len(outbox[h]) + 1] = m
          /\ \A j \in 1..Len(outbox[h]) : outbox'[h][j] = outbox[h][j]
      BY <2>2, <2>3
    <3>2. DOMAIN outbox'[h] = 1..(Len(outbox[h]) + 1) /\ DOMAIN outbox[h] = 1..Len(outbox[h])
      BY <2>2, <3>1
    <3> QED BY <1>2, <2>2, <3>1, <3>2 DEF OutKeeps, IsAck
  <2> QED BY <1>1, <2>1, <2>3
<1> QED BY <1>1, <1>2

\* A transfer that is left.
LEMMA LeaveKeeps ==
  ASSUME IndInv, TypeOK', NEW h \in Handlers, \A g \in Handlers \ {h} : Still(g),
         UNCHANGED <<v2, uploads>>, client'[h] = client[h], NEW tell \in BOOLEAN,
         Leave(h, tell), SessInv(h)', Shrinks(h)
  PROVE  IndInv'
<1> USE DEF IndInv
<1>1. OutKeeps(h)
  BY Answers, Messages DEF Leave, ErrorMsg
<1>2. /\ pc'[h] = "release" /\ temp'[h] = None /\ job'[h] = job[h]
      /\ UNCHANGED <<target, commits>>
  BY DEF Leave, Goto, TypeOK
<1>3. FileInv'
  BY <1>2, FileKeeps
<1> QED BY <1>1, <1>2, <1>3, QuietStep DEF Receiving, Writing, Committing

\* The steps of the session goroutine, but for the one that begins an upload.
LEMMA SessionKeeps ==
  ASSUME IndInv, TypeOK', NEW h \in Handlers,
         \/ RefuseUpload(h) \/ BeginDownload(h) \/ RefuseDownload(h) \/ Answer(h)
         \/ OfferMessage(h) \/ NoTransferInProgress(h) \/ Close(h)
  PROVE  IndInv'
<1> USE DEF config, fileVars, rateVars, peerVars, sessVars, taskVars, faultVars
<1>0. /\ TypeOK /\ HandlerInv(h) /\ SessInv(h) /\ FileInv
      /\ \A g \in Handlers \ {h} : Still(g)
  BY OthersStill DEF IndInv, HandlerInv, Session
<1>1. UNCHANGED <<v2, uploads, commits, target, temp, client>>
  BY DEF RefuseUpload, BeginDownload, RefuseDownload, Answer, OfferMessage,
         NoTransferInProgress, Close, TimeOut, Interrupt, EndSession
<1>2. FileInv'
  BY <1>0, <1>1, FileKeeps
<1>3. OutKeeps(h)
  <2>1. \/ outbox' = outbox
        \/ Write(h, ErrorMsg) \/ Write(h, InfoMsg)
    BY DEF RefuseUpload, BeginDownload, RefuseDownload, Answer, OfferMessage,
           NoTransferInProgress, Close, TimeOut, Interrupt, EndSession
  <2> QED BY <1>0, <2>1, Answers, Messages DEF ErrorMsg, InfoMsg
<1>4. CASE RefuseUpload(h) \/ RefuseDownload(h) \/ Answer(h)
  <2>1. /\ UNCHANGED <<sess, cur, pc, job>>
        /\ \E type : Take(h, type)
    BY <1>4 DEF RefuseUpload, RefuseDownload, Answer
  <2>2. cur[h] = None /\ sess[h] = "serve"
    BY <1>0, <2>1 DEF Take, SessInv
  <2>3. SessInv(h)' /\ Shrinks(h)
    BY <1>0, <2>1, <2>2, Moves DEF SessInv
  <2> QED BY <1>0, <1>1, <1>2, <1>3, <2>1, <2>3, QuietStep
<1>5. CASE BeginDownload(h)
  <2>1. /\ UNCHANGED <<sess, cur>> /\ Take(h, "get") /\ pc[h] = "idle"
        /\ pc'[h] = "copy" /\ job'[h].u = job[h].u
    BY <1>0, <1>5 DEF BeginDownload, MayDownload, Goto, TypeOK, Job
  <2>2. cur[h] = None /\ sess[h] = "serve"
    BY <1>0, <2>1 DEF Take, SessInv
  <2>3. SessInv(h)' /\ Shrinks(h)
    BY <1>0, <2>1, <2>2, Moves DEF SessInv
  <2>4. temp'[h] = None
    BY <1>0, <1>1, <2>1 DEF HandlerInv, JobInv, Writing
  <2> QED BY <1>0, <1>1, <1>2, <1>3, <2>1, <2>3, <2>4, QuietStep
             DEF Receiving, Writing, Committing
<1>6. CASE OfferMessage(h)
  <2>1. /\ UNCHANGED <<pc, job>> /\ sess[h] = "serve"
        /\ sess'[h] = "handoff" /\ cur'[h] = Head(inbox[h])
        /\ inbox[h] # <<>> /\ Head(inbox[h]).type \in {"chunk", "ack", "error"}
        /\ \E type : Take(h, type)
    BY <1>0, <1>6 DEF OfferMessage, Take, TypeOK
  <2>2. Head(inbox[h]) \in Message
    BY <1>0, <2>1 DEF TypeOK
  <2>3. SessInv(h)' /\ Shrinks(h)
    BY <1>0, <2>1, <2>2, Moves, NoneIsNothing DEF SessInv
  <2> QED BY <1>0, <1>1, <1>2, <1>3, <2>1, <2>3, QuietStep
<1>7. CASE NoTransferInProgress(h)
  <2>1. /\ UNCHANGED <<pc, job, inbox>> /\ cur'[h] = None /\ sess'[h] = "serve"
    BY <1>0, <1>7 DEF NoTransferInProgress, Handed, TypeOK
  <2>2. SessInv(h)' /\ Shrinks(h)
    BY <1>0, <2>1, Moves DEF SessInv
  <2> QED BY <1>0, <1>1, <1>2, <1>3, <2>1, <2>2, QuietStep
<1>8. CASE Close(h)
  <2>1. /\ UNCHANGED <<pc, job, inbox>> /\ cur'[h] = None /\ sess'[h] = "closed"
    BY <1>0, <1>8 DEF Close, TimeOut, Interrupt, EndSession, TypeOK
  <2>2. SessInv(h)' /\ Shrinks(h)
    BY <1>0, <2>1, Moves DEF SessInv
  <2> QED BY <1>0, <1>1, <1>2, <1>3, <2>1, <2>2, QuietStep
<1> QED BY <1>4, <1>5, <1>6, <1>7, <1>8

\* The steps of a download.
LEMMA DownloadKeeps == ASSUME IndInv, TypeOK', NEW h \in Handlers, Download(h) PROVE IndInv'
<1> USE DEF config, fileVars, rateVars, peerVars, sessVars, taskVars, faultVars
<1>0. /\ TypeOK /\ HandlerInv(h) /\ SessInv(h) /\ FileInv
      /\ \A g \in Handlers \ {h} : Still(g)
  BY OthersStill DEF IndInv, HandlerInv
<1>1. UNCHANGED <<v2, uploads, commits, target, client, inbox>>
  BY DEF Download, CopyChunk, CopyEnds, TakeAck, RejectAck, SendEof, Fail, Leave
<1>2. FileInv'
  BY <1>0, <1>1, FileKeeps
<1>3. SessInv(h)' /\ Shrinks(h)
  <2>1. UNCHANGED <<sess, cur>> \/ (sess'[h] = "serve" /\ cur'[h] = None)
    BY <1>0 DEF Download, CopyChunk, CopyEnds, TakeAck, RejectAck, SendEof, Handed, TypeOK
  <2> QED BY <1>0, <1>1, <2>1, Moves DEF SessInv
<1>4. CASE \E tell \in BOOLEAN : Leave(h, tell)
  BY <1>0, <1>1, <1>3, <1>4, LeaveKeeps
<1>5. CASE ~\E tell \in BOOLEAN : Leave(h, tell)
  <2>1. /\ pc[h] \in {"copy", "wait", "lastAck", "eof"}
        /\ pc'[h] \in {"copy", "wait", "lastAck", "eof", "release"}
        /\ temp' = temp /\ job'[h].u = job[h].u
    <3>1. CASE CopyChunk(h)
      <4>1. /\ pc[h] = "copy" /\ UNCHANGED <<pc, temp>>
            /\ job' = [job EXCEPT ![h].off = @ + 1]
        BY <1>5, <3>1 DEF CopyChunk, Fail
      <4> QED BY <1>0, <4>1 DEF TypeOK, Job
    <3>2. CASE CopyEnds(h)
      BY <1>0, <1>5, <3>2 DEF CopyEnds, Goto, TypeOK
    <3>3. CASE TakeAck(h)
      BY <1>0, <3>3 DEF TakeAck, Goto, TypeOK, Job
    <3>4. CASE RejectAck(h)
      BY <1>5, <3>4 DEF RejectAck
    <3>5. CASE SendEof(h)
      BY <1>0, <1>5, <3>5 DEF SendEof, Fail, Goto, TypeOK
    <3> QED BY <3>1, <3>2, <3>3, <3>4, <3>5 DEF Download
  <2>2. temp'[h] = None
    BY <1>0, <2>1 DEF HandlerInv, JobInv, Writing
  <2>3. OutKeeps(h)
    <3>1. CASE outbox' = outbox
      BY <1>0, <3>1, Answers
    <3>2. CASE CopyChunk(h) \/ SendEof(h)
      <4>1. \E m \in Message : Write(h, m) /\ m.type = "chunk"
        <5>1. job[h].off \in Nat /\ job[h].data \in Seq(Nat \X Nat)
          BY <1>0 DEF TypeOK, Job
        <5>2. CASE CopyChunk(h)
          <6>1. /\ Write(h, Chunk(job[h].off, job[h].data[job[h].off + 1]))
                /\ job[h].off < Len(job[h].data)
            BY <1>5, <5>2 DEF CopyChunk, Fail
          <6>2. job[h].data[job[h].off + 1] \in Pieces
            BY <5>1, <6>1 DEF Pieces
          <6> QED BY <5>1, <6>1, <6>2, Messages DEF Chunk
        <5>3. CASE SendEof(h)
          <6>1. None \in Pieces /\ Write(h, Chunk(job[h].off, None))
            BY <1>5, <5>3 DEF SendEof, Fail, Pieces
          <6> QED BY <5>1, <6>1, Messages DEF Chunk
        <5> QED BY <3>2, <5>2, <5>3
      <4> QED BY <1>0, <4>1, Answers
    <3> QED BY <1>5, <3>1, <3>2 DEF Download, CopyEnds, TakeAck, RejectAck
  <2> QED BY <1>0, <1>1, <1>2, <1>3, <2>1, <2>2, <2>3, QuietStep
             DEF Receiving, Writing, Committing
<1> QED BY <1>4, <1>5

\* The rate counters are no part of what the invariant says.
LEMMA CountersKeep == ASSUME IndInv, TypeOK', UpdateCounters PROVE IndInv'
<1> USE DEF config, fileVars, rateVars, peerVars, sessVars, taskVars, faultVars
<1>1. /\ UNCHANGED <<v2, uploads, target, temp, commits, client, inbox, outbox, sess, cur,
                     pc, job>>
      /\ \A g \in Handlers : Still(g)
  BY DEF UpdateCounters, Still
<1>2. Grows
  BY <1>1 DEF Grows
<1>3. ASSUME NEW g \in Handlers PROVE HandlerInv(g)'
  BY <1>1, <1>2, StillKeeps DEF IndInv
<1>4. Ids' /\ FileInv'
  BY <1>1 DEF IndInv, Ids, FileInv, Content
<1> QED BY <1>3, <1>4 DEF IndInv

\* What the steps of an upload do not touch, and what they take.
LEMMA UploadFrame ==
  ASSUME IndInv, NEW h \in Handlers, Upload(h)
  PROVE  /\ UNCHANGED <<v2, uploads, client, inbox>>
         /\ UNCHANGED <<sess, cur>> \/ (sess'[h] = "serve" /\ cur'[h] = None)
         /\ SessInv(h)' /\ Shrinks(h)
         /\ \A g \in Handlers \ {h} : Still(g)
         /\ TypeOK /\ HandlerInv(h) /\ FileInv /\ Ids
<1> USE DEF config, fileVars, rateVars, peerVars, sessVars, taskVars, faultVars
<1>0. /\ TypeOK /\ HandlerInv(h) /\ SessInv(h) /\ FileInv /\ Ids
      /\ \A g \in Handlers \ {h} : Still(g)
  BY OthersStill DEF IndInv, HandlerInv
<1>1. UNCHANGED <<v2, uploads, client, inbox>>
  BY DEF Upload, CreateFile, FirstAck, WriteChunk, EndOfFile, RejectChunk, ChannelClosed,
         BatchEnds, SendAck, Rename, Preserve, FinalAck, Release
<1>2. UNCHANGED <<sess, cur>> \/ (sess'[h] = "serve" /\ cur'[h] = None)
  <2>1. UNCHANGED <<sess, cur>> \/ Handed(h)
    BY DEF Upload, CreateFile, FirstAck, WriteChunk, EndOfFile, RejectChunk, ChannelClosed,
           BatchEnds, SendAck, Rename, Preserve, FinalAck, Release, Receives
  <2> QED BY <1>0, <2>1 DEF Handed, TypeOK
<1>3. SessInv(h)' /\ Shrinks(h)
  BY <1>0, <1>1, <1>2, Moves DEF SessInv
<1> QED BY <1>0, <1>1, <1>2, <1>3

\* A step that ends an upload without a commit or an answer.
LEMMA UploadLeft ==
  ASSUME IndInv, TypeOK', NEW h \in Handlers, Upload(h),
         \/ \E tell \in BOOLEAN : Leave(h, tell)
         \/ CreateFile(h) /\ pc'[h] = "release"
         \/ Preserve(h) /\ h \notin v2
         \/ Release(h)
  PROVE  IndInv'
<1> USE DEF config, fileVars, rateVars, peerVars, sessVars, taskVars, faultVars
<1>0. /\ UNCHANGED <<v2, uploads, client, inbox>> /\ SessInv(h)' /\ Shrinks(h)
      /\ \A g \in Handlers \ {h} : Still(g)
      /\ TypeOK /\ HandlerInv(h) /\ FileInv /\ Ids
  BY UploadFrame
<1>1. CASE \E tell \in BOOLEAN : Leave(h, tell)
  BY <1>0, <1>1, LeaveKeeps
<1>2. CASE CreateFile(h) /\ pc'[h] = "release"
  <2>1. /\ pc[h] = "create" /\ UNCHANGED <<target, commits, temp, job>>
        /\ outbox' = [outbox EXCEPT ![h] = IF client[h].st = "gone" THEN @
                                     ELSE Append(Append(@, ErrorMsg), ErrorMsg)]
    BY <1>0, <1>2 DEF CreateFile, Goto, TypeOK
  <2>2. temp'[h] = None
    BY <1>0, <2>1 DEF HandlerInv, JobInv, Writing
  <2>3. OutKeeps(h)
    <3>1. outbox[h] \in Seq(Message) /\ ErrorMsg.type # "ack"
      BY <1>0 DEF TypeOK, ErrorMsg
    <3>2. \/ outbox'[h] = outbox[h]
          \/ outbox'[h] = Append(Append(outbox[h], ErrorMsg), ErrorMsg)
      BY <1>0, <2>1 DEF TypeOK
    <3>3. CASE outbox'[h] = Append(Append(outbox[h], ErrorMsg), ErrorMsg)
      <4> DEFINE n == Len(outbox[h])
      <4>1. /\ n \in Nat /\ DOMAIN outbox[h] = 1..n /\ DOMAIN outbox'[h] = 1..(n + 2)
            /\ \A j \in 1..n : outbox'[h][j] = outbox[h][j]
            /\ outbox'[h][n + 1] = ErrorMsg /\ outbox'[h][n + 2] = ErrorMsg
        BY <3>1, <3>3, Messages
      <4>2. \A j \in DOMAIN outbox'[h] : j \in 1..n \/ outbox'[h][j] = ErrorMsg
        <5>1. \A j \in 1..(n + 2) : j \in 1..n \/ j = n + 1 \/ j = n + 2
          BY <4>1
        <5> QED BY <4>1, <5>1
      <4> QED BY <3>1, <4>1, <4>2 DEF OutKeeps, IsAck
    <3> QED BY <1>0, <3>2, <3>3, Answers
  <2>4. FileInv'
    BY <1>0, <2>1, FileKeeps
  <2> QED BY <1>0, <1>2, <2>1, <2>2, <2>3, <2>4, QuietStep DEF Receiving, Writing, Committing
<1>3. CASE Preserve(h) /\ h \notin v2 /\ ~\E tell \in BOOLEAN : Leave(h, tell)
  <2>1. /\ pc[h] = "preserve" /\ pc'[h] = "release"
        /\ UNCHANGED <<temp, commits, outbox, job>>
        /\ target' = [target EXCEPT !.owner = Preserved(h)]
    BY <1>0, <1>3 DEF Preserve, Goto, TypeOK, Fail
  <2>2. temp'[h] = None /\ target # None
    BY <1>0, <2>1 DEF HandlerInv, JobInv, FileInv, Writing
  <2>3. target' # None
    <3>1. target \in File
      BY <1>0, <2>2 DEF TypeOK
    <3>2. Preserved(h) \in Handlers \cup {"put", "other"}
      BY <3>1 DEF Preserved, File
    <3>3. target' \in File
      BY <2>1, <3>1, <3>2 DEF File
    <3> QED BY <3>3, NoneIsNothing
  <2>4. FileInv'
    BY <1>0, <2>1, <2>2, <2>3, FileKeeps
  <2>5. OutKeeps(h)
    BY <1>0, <2>1, Answers
  <2> QED BY <1>0, <2>1, <2>2, <2>4, <2>5, QuietStep DEF Receiving, Writing, Committing
<1>4. CASE Release(h)
  <2>1. /\ pc[h] = "release" /\ pc'[h] = "idle" /\ job'[h] = NoJob
        /\ UNCHANGED <<temp, target, commits, outbox>>
    BY <1>0, <1>4 DEF Release, Goto, TypeOK
  <2>2. temp'[h] = None /\ job'[h].u = 0
    BY <1>0, <2>1 DEF HandlerInv, JobInv, Writing, NoJob
  <2>3. FileInv' /\ OutKeeps(h)
    BY <1>0, <2>1, FileKeeps, Answers
  <2> QED BY <1>0, <2>1, <2>2, <2>3, QuietStep DEF Receiving, Writing, Committing
<1> QED BY <1>1, <1>2, <1>3, <1>4

\* The step from the file of the upload to the first acknowledgement.
LEMMA CreateKeeps ==
  ASSUME IndInv, TypeOK', NEW h \in Handlers, CreateFile(h), pc'[h] # "release"
  PROVE  IndInv'
<1> USE NoneAssumption
<1>0. /\ UNCHANGED <<v2, uploads, client, inbox>> /\ SessInv(h)'
      /\ \A g \in Handlers \ {h} : Still(g)
      /\ TypeOK /\ HandlerInv(h) /\ FileInv /\ Ids
  BY UploadFrame DEF Upload
<1>1. /\ pc[h] = "create" /\ pc'[h] = IF h \in v2 THEN "recv" ELSE "firstAck"
      /\ temp'[h] = <<>> /\ UNCHANGED <<outbox, job, target, commits, cur>>
  BY <1>0 DEF CreateFile, Goto, TypeOK, sessVars
<1>2. /\ Active(h) /\ Active(h)' /\ Way(h)' = Way(h)
      /\ \A k : /\ At(h, k)' = At(h, k) /\ IsChunk(h, k)' = IsChunk(h, k)
                /\ IsPut(h, k)' = IsPut(h, k) /\ IsAck(h, k)' = IsAck(h, k)
  BY <1>0, <1>1 DEF Active, Receiving, At, Way, IsChunk, IsPut, IsAck
<1>3. JobInv(h)'
  <2>1. job[h].u # 0 /\ job[h].u \notin commits /\ job[h].off = 0 /\ ~job[h].done
    BY <1>0, <1>1 DEF HandlerInv, JobInv, Receiving
  <2>2. uploads[job[h].u] \in Nat
    BY <1>0, <2>1 DEF TypeOK, Ids
  <2>3. <<>> # None /\ Len(<<>>) = 0
    <3>1. <<>> \in Seq(Nat \X Nat)
      OBVIOUS
    <3> QED BY <3>1, NoneIsNothing
  <2> QED BY <1>0, <1>1, <2>1, <2>2, <2>3 DEF JobInv, Receiving, Writing, Committing
<1>4. ChunkInv(h)' /\ ClientInv(h)'
  BY <1>0, <1>1, <1>2 DEF HandlerInv, ChunkInv, ClientInv
<1>5. AckInv(h)'
  BY <1>0, <1>1, <1>2 DEF HandlerInv, AckInv
<1>6. HandlerInv(h)'
  BY <1>0, <1>3, <1>4, <1>5 DEF HandlerInv
<1>7. Ids' /\ Grows /\ FileInv'
  BY <1>0, <1>1, IdsKeep, FileKeeps DEF Ids, Grows, TypeOK
<1> QED BY <1>0, <1>1, <1>6, <1>7, Assemble

\* What Write adds comes last.
LEMMA Wrote ==
  ASSUME TypeOK, TypeOK', NEW h \in Handlers, NEW m \in Message, Write(h, m)
  PROVE  \A j \in DOMAIN outbox'[h] :
           /\ j \in Nat
           /\ \/ j \in DOMAIN outbox[h] /\ outbox'[h][j] = outbox[h][j]
              \/ outbox'[h][j] = m /\ \A i \in DOMAIN outbox'[h] : i <= j
<1>1. outbox[h] \in Seq(Message) /\ outbox'[h] \in Seq(Message)
  BY DEF TypeOK
<1>2. outbox'[h] = outbox[h] \/ outbox'[h] = Append(outbox[h], m)
  BY DEF Write, TypeOK
<1>3. CASE outbox'[h] = Append(outbox[h], m)
  <2> DEFINE n == Len(outbox[h])
  <2>1. /\ n \in Nat /\ DOMAIN outbox[h] = 1..n /\ DOMAIN outbox'[h] = 1..(n + 1)
        /\ \A j \in 1..n : outbox'[h][j] = outbox[h][j]
        /\ outbox'[h][n + 1] = m
    BY <1>1, <1>3
  <2>2. \A j \in 1..(n + 1) : j \in Nat /\ (j \in 1..n \/ j = n + 1) /\ j <= n + 1
    BY <2>1
  <2> QED BY <2>1, <2>2
<1>4. CASE outbox'[h] = outbox[h]
  BY <1>1, <1>4
<1> QED BY <1>2, <1>3, <1>4

\* The first acknowledgement.
LEMMA FirstAckKeeps ==
  ASSUME IndInv, TypeOK', NEW h \in Handlers, FirstAck(h), ~Leave(h, FALSE)
  PROVE  IndInv'
<1> USE NoneAssumption
<1>0. /\ UNCHANGED <<v2, uploads, client, inbox>> /\ SessInv(h)'
      /\ \A g \in Handlers \ {h} : Still(g)
      /\ TypeOK /\ HandlerInv(h) /\ FileInv /\ Ids
  BY UploadFrame DEF Upload
<1>1. /\ pc[h] = "firstAck" /\ pc'[h] = "recv" /\ Write(h, Ack(0))
      /\ UNCHANGED <<job, target, temp, commits, cur>>
  BY <1>0 DEF FirstAck, Fail, Goto, TypeOK, sessVars, fileVars
<1>2. h \notin v2 /\ Ack(0) \in Message /\ Ack(0).off = 0
  BY <1>0, <1>1, Messages DEF HandlerInv, JobInv, Ack
<1>3. /\ Active(h) /\ Active(h)' /\ Way(h)' = Way(h)
      /\ \A k : /\ At(h, k)' = At(h, k) /\ IsChunk(h, k)' = IsChunk(h, k)
                /\ IsPut(h, k)' = IsPut(h, k)
  BY <1>0, <1>1 DEF Active, Receiving, At, Way, IsChunk, IsPut
<1>4. JobInv(h)'
  BY <1>0, <1>1, <1>2 DEF HandlerInv, JobInv, Receiving, Writing, Committing
<1>5. ChunkInv(h)'
  BY <1>0, <1>1, <1>3 DEF HandlerInv, ChunkInv
<1>6. client[h].u = job[h].u /\ job[h].u # 0
  BY <1>0, <1>1, <1>3 DEF HandlerInv, JobInv, ClientInv, Receiving
<1>7. ClientInv(h)'
  BY <1>0, <1>1, <1>3, <1>6 DEF HandlerInv, ClientInv
<1>8. AckInv(h)'
  <2> SUFFICES ASSUME client[h].st = "put" PROVE AckInv(h)'
    BY <1>0 DEF AckInv
  <2>1. /\ client[h].acked = None /\ client[h].sent = 0
        /\ \A j \in DOMAIN outbox[h] : ~IsAck(h, j)
    BY <1>0, <1>1, <1>2 DEF HandlerInv, AckInv
  <2>2. \A j \in DOMAIN outbox'[h] : IsAck(h, j)' =>
          j \in Nat /\ outbox'[h][j].off = 0 /\ \A i \in DOMAIN outbox'[h] : i <= j
    BY <1>0, <1>1, <1>2, <2>1, Wrote DEF IsAck
  <2>3. \A i, j \in DOMAIN outbox'[h] : IsAck(h, i)' /\ IsAck(h, j)' => i = j
    BY <2>2
  <2> QED BY <1>0, <1>1, <1>2, <2>1, <2>2, <2>3 DEF AckInv
<1>9. HandlerInv(h)'
  BY <1>0, <1>4, <1>5, <1>7, <1>8 DEF HandlerInv
<1>10. Ids' /\ Grows /\ FileInv'
  BY <1>0, <1>1, IdsKeep, FileKeeps DEF Ids, Grows, TypeOK
<1> QED BY <1>0, <1>1, <1>9, <1>10, Assemble

\* The end of a batch.
LEMMA BatchKeeps ==
  ASSUME IndInv, TypeOK', NEW h \in Handlers, BatchEnds(h)
  PROVE  IndInv'
<1>0. /\ UNCHANGED <<v2, uploads, client, inbox>> /\ SessInv(h)'
      /\ \A g \in Handlers \ {h} : Still(g)
      /\ TypeOK /\ HandlerInv(h) /\ FileInv /\ Ids
  BY UploadFrame DEF Upload
<1>1. /\ pc[h] = "batch" /\ pc'[h] = "ack"
      /\ UNCHANGED <<job, target, temp, commits, cur, outbox>>
  BY <1>0 DEF BatchEnds, Goto, TypeOK, sessVars, fileVars
<1>2. /\ Active(h) /\ Active(h)' /\ Way(h)' = Way(h)
      /\ \A k : /\ At(h, k)' = At(h, k) /\ IsChunk(h, k)' = IsChunk(h, k)
                /\ IsPut(h, k)' = IsPut(h, k) /\ IsAck(h, k)' = IsAck(h, k)
  BY <1>0, <1>1 DEF Active, Receiving, At, Way, IsChunk, IsPut, IsAck
<1>3. JobInv(h)'
  BY <1>0, <1>1 DEF HandlerInv, JobInv, Receiving, Writing, Committing
<1>4. ChunkInv(h)' /\ ClientInv(h)'
  BY <1>0, <1>1, <1>2 DEF HandlerInv, ChunkInv, ClientInv
<1>5. AckInv(h)'
  BY <1>0, <1>1, <1>2 DEF HandlerInv, AckInv
<1>6. HandlerInv(h)'
  BY <1>0, <1>3, <1>4, <1>5 DEF HandlerInv
<1>7. Ids' /\ Grows /\ FileInv'
  BY <1>0, <1>1, IdsKeep, FileKeeps DEF Ids, Grows, TypeOK
<1> QED BY <1>0, <1>1, <1>6, <1>7, Assemble

\* What chunks and puts on their way are made of.
LEMMA WayTyped ==
  ASSUME TypeOK, NEW h \in Handlers
  PROVE  /\ Way(h) \subseteq Nat
         /\ \A k \in Way(h) : At(h, k) \in Message \cup {None}
         /\ \A k : IsChunk(h, k) => At(h, k) \in Message /\ At(h, k).off \in Nat
                                   /\ At(h, k).data \in Pieces
<1>1. /\ inbox[h] \in Seq(Message) /\ Len(inbox[h]) \in Nat
      /\ cur[h] \in Message \cup {None}
  BY DEF TypeOK
<1>2. \A k \in 0..Len(inbox[h]) : k \in Nat /\ (k # 0 => inbox[h][k] \in Message)
  BY <1>1
<1>3. Way(h) \subseteq Nat /\ \A k \in Way(h) : At(h, k) \in Message \cup {None}
  BY <1>1, <1>2 DEF Way, At
<1>4. \A m \in Message : m.type = "chunk" => m.off \in Nat \cup {None} /\ m.data \in Pieces
  BY DEF Message
<1> QED BY <1>3, <1>4 DEF IsChunk

\* After the EOF no chunk is on its way.
LEMMA NoneLate ==
  ASSUME TypeOK, Ids, NEW h \in Handlers, HandlerInv(h), Active(h), job[h].done
  PROVE  \A k \in Way(h) : ~IsChunk(h, k)
<1> SUFFICES ASSUME NEW k \in Way(h), IsChunk(h, k) PROVE FALSE
  OBVIOUS
<1>1. /\ At(h, k).off <= uploads[client[h].u]
      /\ At(h, k).off > uploads[client[h].u]
      /\ client[h].u # 0
  BY DEF HandlerInv, ChunkInv
<1>2. At(h, k).off \in Nat /\ uploads[client[h].u] \in Nat
  BY <1>1, WayTyped DEF TypeOK, Ids
<1> QED BY <1>1, <1>2

\* The acknowledgement of version 1; that of the EOF finds nothing on its way.
LEMMA SendAckKeeps ==
  ASSUME IndInv, TypeOK', NEW h \in Handlers, SendAck(h), ~Leave(h, FALSE)
  PROVE  IndInv'
<1> USE NoneAssumption
<1>0. /\ UNCHANGED <<v2, uploads, client, inbox>> /\ SessInv(h)'
      /\ \A g \in Handlers \ {h} : Still(g)
      /\ TypeOK /\ HandlerInv(h) /\ FileInv /\ Ids
  BY UploadFrame DEF Upload
<1> DEFINE last == job[h].last
<1>1. /\ pc[h] = "ack" /\ pc'[h] = IF job[h].done THEN "rename" ELSE "recv"
      /\ Write(h, Ack(last)) /\ job' = [job EXCEPT ![h].n = 0]
      /\ UNCHANGED <<target, temp, commits, cur>>
  BY <1>0 DEF SendAck, Fail, Goto, TypeOK, sessVars, fileVars
<1>2. /\ h \notin v2 /\ last \in Nat /\ Ack(last) \in Message /\ Ack(last).off = last
      /\ job'[h].u = job[h].u /\ job'[h].off = job[h].off /\ job'[h].done = job[h].done
      /\ job'[h].last = last
      /\ job[h].u # 0 /\ job[h].u \notin commits
      /\ job[h].done => job[h].off = uploads[job[h].u]
      /\ ~job[h].done => last < uploads[job[h].u]
  <2>1. job[h] \in Job /\ job'[h] = [job[h] EXCEPT !.n = 0]
    BY <1>0, <1>1 DEF TypeOK
  <2>2. last \in Nat
    BY <2>1 DEF Job
  <2>3. Ack(last) \in Message /\ Ack(last).off = last
    BY <2>2, Messages DEF Ack
  <2> QED BY <1>0, <1>1, <2>1, <2>2, <2>3 DEF HandlerInv, JobInv, Job, Receiving, Writing
<1>3. /\ Active(h) /\ Way(h)' = Way(h) /\ (job[h].done => ~Active(h)')
      /\ client[h].u = job[h].u /\ uploads[job[h].u] \in Nat
      /\ \A k : /\ At(h, k)' = At(h, k) /\ IsChunk(h, k)' = IsChunk(h, k)
                /\ IsPut(h, k)' = IsPut(h, k)
  <2>1. Active(h) /\ (job[h].done => ~Active(h)')
    BY <1>0, <1>1, <1>2 DEF Active, Receiving
  <2>2. client[h].u = job[h].u
    BY <1>0, <2>1 DEF HandlerInv, ClientInv
  <2>3. uploads \in Seq(Nat)
    BY <1>0 DEF TypeOK
  <2>4. job[h].u \in 1..Len(uploads)
    BY <1>0, <1>2, <2>3 DEF Ids
  <2>5. uploads[job[h].u] \in Nat
    BY <2>3, <2>4
  <2> QED BY <1>0, <1>1, <2>1, <2>2, <2>5 DEF At, Way, IsChunk, IsPut
<1>4. JobInv(h)'
  BY <1>0, <1>1, <1>2 DEF HandlerInv, JobInv, Receiving, Writing, Committing
<1>5. ChunkInv(h)'
  BY <1>0, <1>1, <1>2, <1>3 DEF HandlerInv, ChunkInv
<1>6. ClientInv(h)'
  BY <1>0, <1>1, <1>2, <1>3 DEF HandlerInv, ClientInv
<1>7. AckInv(h)'
  <2> SUFFICES ASSUME client[h].st = "put" PROVE AckInv(h)'
    BY <1>0 DEF AckInv
  <2>1. client[h].acked # None
    BY <1>0, <1>1, <1>2 DEF HandlerInv, AckInv
  <2>2. \A j \in DOMAIN outbox'[h] : IsAck(h, j)' =>
          \/ IsAck(h, j) /\ outbox'[h][j] = outbox[h][j]
          \/ outbox'[h][j].off = last /\ \A i \in DOMAIN outbox'[h] : i <= j
    BY <1>0, <1>1, <1>2, Wrote DEF IsAck
  <2>3. \A j \in DOMAIN outbox[h] : IsAck(h, j) =>
          outbox[h][j].off # None /\ outbox[h][j].off # uploads[client[h].u]
    BY <1>0, <1>2, <1>3, <2>1 DEF HandlerInv, AckInv
  <2>4. \A j \in DOMAIN outbox'[h] : IsAck(h, j)' => outbox'[h][j].off # None
    BY <1>2, <2>2, <2>3 DEF IsAck
  <2>5. ASSUME NEW j \in DOMAIN outbox'[h], IsAck(h, j)', outbox'[h][j].off = uploads[client[h].u]
        PROVE  job[h].done /\ \A i \in DOMAIN outbox'[h] : IsAck(h, i)' => i <= j
    BY <1>2, <1>3, <2>2, <2>3, <2>5 DEF IsAck
  <2>6. job[h].done => /\ client[h].sent > uploads[client[h].u]
                       /\ \A k \in Way(h) : ~IsChunk(h, k)
    <3>1. job[h].done => client[h].sent > uploads[client[h].u]
      BY <1>0, <1>3 DEF HandlerInv, ClientInv
    <3> QED BY <1>0, <1>3, <3>1, NoneLate
  <2> QED BY <1>0, <1>1, <1>2, <1>3, <2>1, <2>4, <2>5, <2>6 DEF AckInv
<1>8. HandlerInv(h)'
  BY <1>0, <1>4, <1>5, <1>6, <1>7 DEF HandlerInv
<1>9. Ids' /\ FileInv'
  BY <1>0, <1>1, <1>2, IdsKeep, FileKeeps DEF Ids
<1>10. Grows
  BY <1>0, <1>1 DEF Grows, TypeOK
<1> QED BY <1>0, <1>1, <1>8, <1>9, <1>10, Assemble

\* The file has its owner, in version 2 before the final acknowledgement.
LEMMA PreserveKeeps ==
  ASSUME IndInv, TypeOK', NEW h \in Handlers, Preserve(h), h \in v2, ~Leave(h, TRUE)
  PROVE  IndInv'
<1>0. /\ UNCHANGED <<v2, uploads, client, inbox>> /\ SessInv(h)'
      /\ \A g \in Handlers \ {h} : Still(g)
      /\ TypeOK /\ HandlerInv(h) /\ FileInv /\ Ids
  BY UploadFrame DEF Upload
<1>1. /\ pc[h] = "preserve" /\ pc'[h] = "finalAck"
      /\ target' = [target EXCEPT !.owner = Preserved(h)]
      /\ UNCHANGED <<job, temp, commits, cur, outbox>>
  BY <1>0 DEF Preserve, Fail, Goto, TypeOK, sessVars, fileVars
<1>2. /\ Active(h) /\ Active(h)' /\ Way(h)' = Way(h)
      /\ \A k : /\ At(h, k)' = At(h, k) /\ IsChunk(h, k)' = IsChunk(h, k)
                /\ IsPut(h, k)' = IsPut(h, k) /\ IsAck(h, k)' = IsAck(h, k)
  BY <1>0, <1>1 DEF Active, Receiving, Committing, At, Way, IsChunk, IsPut, IsAck
<1>3. JobInv(h)'
  BY <1>0, <1>1 DEF HandlerInv, JobInv, Receiving, Writing, Committing
<1>4. ChunkInv(h)' /\ ClientInv(h)'
  BY <1>0, <1>1, <1>2 DEF HandlerInv, ChunkInv, ClientInv
<1>5. AckInv(h)'
  BY <1>0, <1>1, <1>2 DEF HandlerInv, AckInv
<1>6. HandlerInv(h)'
  BY <1>0, <1>3, <1>4, <1>5 DEF HandlerInv
<1>7. FileInv'
  <2>1. target \in File
    BY <1>0, <1>1 DEF HandlerInv, JobInv, FileInv, TypeOK
  <2>2. Preserved(h) \in Handlers \cup {"put", "other"}
    BY <2>1 DEF Preserved, File
  <2>3. target' \in File
    BY <1>1, <2>1, <2>2 DEF File
  <2> QED BY <1>0, <1>1, <2>1, <2>3, NoneIsNothing, FileKeeps
<1>8. Ids' /\ Grows
  BY <1>0, <1>1, IdsKeep DEF Ids, Grows, TypeOK
<1> QED BY <1>0, <1>1, <1>6, <1>7, <1>8, Assemble

\* The final acknowledgement of version 2, when the upload is committed.
LEMMA FinalAckKeeps ==
  ASSUME IndInv, TypeOK', NEW h \in Handlers, FinalAck(h), ~Leave(h, TRUE)
  PROVE  IndInv'
<1>0. /\ UNCHANGED <<v2, uploads, client, inbox>> /\ SessInv(h)'
      /\ \A g \in Handlers \ {h} : Still(g)
      /\ TypeOK /\ HandlerInv(h) /\ FileInv /\ Ids
  BY UploadFrame DEF Upload
<1>1. /\ pc[h] = "finalAck" /\ pc'[h] = "release" /\ Write(h, Ack(None))
      /\ UNCHANGED <<job, target, temp, commits, cur>>
  BY <1>0 DEF FinalAck, Fail, Goto, TypeOK, sessVars, fileVars
<1>2. /\ h \in v2 /\ Ack(None) \in Message /\ Ack(None).off = None
      /\ job[h].u \in commits /\ job[h].done
  BY <1>0, <1>1, Messages DEF HandlerInv, JobInv, Ack, Committing
<1>3. /\ Active(h) /\ ~Active(h)' /\ Way(h)' = Way(h) /\ client[h].u = job[h].u
      /\ \A k : /\ At(h, k)' = At(h, k) /\ IsChunk(h, k)' = IsChunk(h, k)
                /\ IsPut(h, k)' = IsPut(h, k)
  <2>1. Active(h) /\ ~Active(h)'
    BY <1>0, <1>1, <1>2 DEF Active, Receiving, Committing
  <2>2. client[h].u = job[h].u
    BY <1>0, <2>1 DEF HandlerInv, ClientInv
  <2> QED BY <1>0, <1>1, <2>1, <2>2 DEF At, Way, IsChunk, IsPut
<1>4. JobInv(h)'
  BY <1>0, <1>1 DEF HandlerInv, JobInv, Receiving, Writing, Committing
<1>5. ChunkInv(h)'
  BY <1>0, <1>1, <1>3 DEF HandlerInv, ChunkInv
<1>6. client[h].u # 0
  BY <1>0, <1>2, <1>3 DEF Ids
<1>7. ClientInv(h)'
  BY <1>0, <1>1, <1>3, <1>6 DEF HandlerInv, ClientInv
<1>8. AckInv(h)'
  <2> SUFFICES ASSUME client[h].st = "put" PROVE AckInv(h)'
    BY <1>0 DEF AckInv
  <2>1. \A j \in DOMAIN outbox[h] : ~IsAck(h, j)
    BY <1>0, <1>2, <1>3 DEF HandlerInv, AckInv
  <2>2. \A j \in DOMAIN outbox'[h] : IsAck(h, j)' =>
          outbox'[h][j].off = None /\ \A i \in DOMAIN outbox'[h] : i <= j
    BY <1>0, <1>1, <1>2, <2>1, Wrote DEF IsAck
  <2>3. client[h].sent > uploads[client[h].u]
    BY <1>0, <1>2, <1>3 DEF HandlerInv, ClientInv
  <2>4. \A k \in Way(h) : ~IsChunk(h, k)
    BY <1>0, <1>2, <1>3, NoneLate
  <2> QED BY <1>0, <1>1, <1>2, <1>3, <2>2, <2>3, <2>4 DEF AckInv
<1>9. HandlerInv(h)'
  BY <1>0, <1>4, <1>5, <1>7, <1>8 DEF HandlerInv
<1>10. Ids' /\ Grows /\ FileInv'
  BY <1>0, <1>1, IdsKeep, FileKeeps DEF Ids, Grows, TypeOK
<1> QED BY <1>0, <1>1, <1>9, <1>10, Assemble

\* What Rename puts in place is the upload, whole.
LEMMA RenameWhole ==
  ASSUME TypeOK, Ids, NEW h \in Handlers, HandlerInv(h), pc[h] = "rename"
  PROVE  /\ temp[h] = Content(job[h].u)
         /\ job[h].u \in 2..Len(uploads) /\ job[h].u \notin commits
<1> DEFINE u == job[h].u
<1>1. /\ job[h].u # 0 /\ job[h].u \notin commits /\ job[h].done /\ temp[h] # None
      /\ Len(temp[h]) = job[h].off /\ job[h].off = uploads[u]
      /\ \A k \in 1..job[h].off : temp[h][k] = <<u, k>>
  BY DEF HandlerInv, JobInv, Receiving, Writing, Committing
<1>2. temp[h] \in Seq(Nat \X Nat)
  BY <1>1 DEF TypeOK
<1>3. DOMAIN temp[h] = 1..uploads[u] /\ \A k \in 1..uploads[u] : temp[h][k] = <<u, k>>
  BY <1>1, <1>2
<1>4. temp[h] = [k \in 1..uploads[u] |-> <<u, k>>]
  <2>1. temp[h] = [k \in DOMAIN temp[h] |-> temp[h][k]]
    BY <1>2
  <2> QED BY <1>3, <2>1, Zenon
<1>5. u \in 2..Len(uploads)
  BY <1>1 DEF Ids
<1> QED BY <1>1, <1>4, <1>5 DEF Content

\* The commit: it concerns nobody else, since no two handlers have the same upload.
LEMMA RenameKeeps ==
  ASSUME IndInv, TypeOK', NEW h \in Handlers, Rename(h), ~Leave(h, TRUE)
  PROVE  IndInv'
<1> USE NoneAssumption
<1>0. /\ UNCHANGED <<v2, uploads, client, inbox>> /\ SessInv(h)'
      /\ \A g \in Handlers \ {h} : Still(g)
      /\ TypeOK /\ HandlerInv(h) /\ FileInv /\ Ids
  BY UploadFrame DEF Upload
<1>1. /\ pc[h] = "rename" /\ pc'[h] = "preserve"
      /\ target' = [data |-> temp[h], by |-> job[h].u, owner |-> h, regular |-> TRUE]
      /\ temp'[h] = None /\ commits' = commits \cup {job[h].u}
      /\ UNCHANGED <<job, cur, outbox>>
  BY <1>0 DEF Rename, Fail, Goto, TypeOK, sessVars, fileVars
<1>2. /\ Active(h)' = Active(h) /\ Way(h)' = Way(h) /\ (Active(h) <=> h \in v2)
      /\ \A k : /\ At(h, k)' = At(h, k) /\ IsChunk(h, k)' = IsChunk(h, k)
                /\ IsPut(h, k)' = IsPut(h, k) /\ IsAck(h, k)' = IsAck(h, k)
  BY <1>0, <1>1 DEF Active, Receiving, Committing, At, Way, IsChunk, IsPut, IsAck
<1>3. /\ temp[h] = Content(job[h].u)
      /\ job[h].u \in 2..Len(uploads) /\ job[h].u \notin commits
  BY <1>0, <1>1, RenameWhole
<1>4. JobInv(h)'
  BY <1>0, <1>1 DEF HandlerInv, JobInv, Receiving, Writing, Committing
<1>5. ChunkInv(h)'
  BY <1>0, <1>1, <1>2 DEF HandlerInv, ChunkInv
<1>6. ClientInv(h)'
  BY <1>0, <1>1, <1>2 DEF HandlerInv, ClientInv
<1>7. AckInv(h)'
  BY <1>0, <1>1, <1>2 DEF HandlerInv, AckInv
<1>8. HandlerInv(h)'
  BY <1>0, <1>4, <1>5, <1>6, <1>7 DEF HandlerInv
<1>9. FileInv'
  <2>1. target' \in File
    <3>1. temp[h] \in Seq(Nat \X Nat)
      BY <1>0, <1>1 DEF HandlerInv, JobInv, Writing, TypeOK
    <3>2. job[h].u \in Nat
      BY <1>3
    <3> QED BY <1>1, <3>1, <3>2 DEF File
  <2>2. target' # None
    BY <2>1, NoneIsNothing
  <2>3. target'.data = Content(job[h].u) /\ target'.by = job[h].u
    BY <1>1, <1>3
  <2> QED BY <1>0, <1>3, <2>2, <2>3 DEF FileInv, Content, TypeOK
<1>10. Ids'
  BY <1>0, <1>1, <1>3, IdsKeep DEF Ids
<1>11. Grows
  BY <1>0, <1>1 DEF Grows, TypeOK
<1> QED BY <1>0, <1>1, <1>3, <1>8, <1>9, <1>10, <1>11, Assemble

\* What it means for an upload that a message is in its place.
LEMMA Accepted ==
  ASSUME TypeOK, Ids, NEW h \in Handlers, HandlerInv(h), Receives(h), InPlace(h, cur[h])
  PROVE  LET u == job[h].u
             off == job[h].off
         IN /\ Active(h) /\ ~job[h].done
            /\ u # 0 /\ u \notin commits /\ client[h].u = u
            /\ off \in Nat /\ uploads[u] \in Nat /\ off <= uploads[u] /\ cur[h].off = off
            /\ cur[h].data = IF off < uploads[u] THEN <<u, off + 1>> ELSE None
            /\ pc[h] = IF h \in v2 THEN "recv" ELSE pc[h]
            /\ \A k \in Way(h) : IsChunk(h, k) /\ k > 0 => At(h, k).off > off
            /\ client[h].st = "put" => client[h].sent > off /\ client[h].sent \in Nat
<1> USE DEF HandlerInv
<1>1. pc[h] \in {"recv", "batch"} /\ sess[h] = "handoff" /\ cur[h] # None
  BY DEF Receives, Handed, SessInv
<1>2. Active(h) /\ job[h].u # 0 /\ job[h].u \notin commits
  BY <1>1 DEF Active, Receiving, JobInv
<1>3. client[h].u = job[h].u
  BY <1>2 DEF ClientInv
<1>4. job[h].off \in Nat /\ uploads[job[h].u] \in Nat /\ client[h].sent \in Nat
  <2>1. job[h] \in Job /\ client[h] \in Peer /\ job[h].u \in 1..Len(uploads)
    BY <1>2 DEF TypeOK, Ids
  <2>2. uploads \in Seq(Nat)
    BY DEF TypeOK
  <2>3. uploads[job[h].u] \in Nat
    BY <2>1, <2>2
  <2>4. job[h].off \in Nat
    BY <2>1 DEF Job
  <2>5. client[h].sent \in Nat
    BY <2>1 DEF Peer
  <2> QED BY <2>3, <2>4, <2>5
<1>5. /\ cur[h].type = "chunk" /\ cur[h].off = job[h].off
      /\ cur[h].off # None
  BY <1>4, NoneAssumption DEF InPlace
<1>6. 0 \in Way(h) /\ At(h, 0) = cur[h] /\ IsChunk(h, 0)
  BY <1>1, <1>5 DEF Way, At, IsChunk, TypeOK
<1>7. /\ cur[h].off <= uploads[client[h].u]
      /\ cur[h].data = IF cur[h].off < uploads[client[h].u]
                         THEN <<client[h].u, cur[h].off + 1>> ELSE None
      /\ job[h].done => cur[h].off > uploads[client[h].u]
      /\ client[h].st = "put" => cur[h].off < client[h].sent
  BY <1>2, <1>6 DEF ChunkInv
<1>8. \A k \in Way(h) : IsChunk(h, k) /\ k > 0 => At(h, k).off > job[h].off
  <2>1. \A k \in Way(h) : IsChunk(h, k) /\ 0 < k => At(h, 0).off < At(h, k).off
    BY <1>6 DEF ChunkInv
  <2>2. \A k \in Way(h) : k \in Nat /\ (IsChunk(h, k) => At(h, k).off \in Nat)
    BY WayTyped
  <2> QED BY <1>4, <1>5, <1>6, <2>1, <2>2
<1>9. ~job[h].done
  BY <1>3, <1>4, <1>5, <1>7
<1>10. h \in v2 => pc[h] = "recv"
  BY <1>1 DEF JobInv
<1> QED BY <1>2, <1>3, <1>4, <1>5, <1>7, <1>8, <1>9, <1>10

\* How the transfer goes on when it has taken a message in its place.
LEMMA AcceptKeeps ==
  ASSUME IndInv, TypeOK', NEW h \in Handlers, Upload(h),
         Receives(h), InPlace(h, cur[h]),
         UNCHANGED <<target, commits, outbox>>,
         pc'[h] = (IF h \notin v2 THEN "batch" ELSE IF job'[h].done THEN "rename" ELSE "recv"),
         job'[h].u = job[h].u, job'[h].last = job[h].off,
         \/ /\ cur[h].data # None /\ job'[h].off = job[h].off + 1 /\ ~job'[h].done
            /\ temp'[h] = Append(temp[h], cur[h].data)
         \/ /\ cur[h].data = None /\ job'[h].off = job[h].off /\ job'[h].done
            /\ temp'[h] = temp[h]
  PROVE  IndInv'
<1> USE NoneAssumption
<1> DEFINE u == job[h].u
<1> DEFINE off == job[h].off
<1>0. /\ UNCHANGED <<v2, uploads, client, inbox>> /\ SessInv(h)'
      /\ \A g \in Handlers \ {h} : Still(g)
      /\ TypeOK /\ HandlerInv(h) /\ FileInv /\ Ids
  BY UploadFrame
<1>1. /\ Active(h) /\ ~job[h].done
      /\ u # 0 /\ u \notin commits /\ client[h].u = u
      /\ off \in Nat /\ uploads[u] \in Nat /\ off <= uploads[u]
      /\ cur[h].data = IF off < uploads[u] THEN <<u, off + 1>> ELSE None
      /\ \A k \in Way(h) : IsChunk(h, k) /\ k > 0 => At(h, k).off > off
      /\ client[h].st = "put" => client[h].sent > off /\ client[h].sent \in Nat
  BY <1>0, Accepted
<1>2. cur'[h] = None
  BY <1>0 DEF Receives, Handed, TypeOK
<1>3. <<u, off + 1>> \in Nat \X Nat /\ <<u, off + 1>> # None
  <2>1. u \in Nat
    BY <1>0 DEF TypeOK, Job
  <2>2. off + 1 \in Nat
    BY <1>1
  <2> QED BY <2>1, <2>2, NoneIsNothing
<1>4. /\ cur[h].data = None => off = uploads[u]
      /\ cur[h].data # None => off < uploads[u] /\ cur[h].data = <<u, off + 1>>
  BY <1>1, <1>3
<1>5. /\ Way(h)' = Way(h)
      /\ \A k : IsChunk(h, k)' => k > 0 /\ At(h, k)' = At(h, k) /\ IsChunk(h, k)
      /\ \A k : IsPut(h, k)' = IsPut(h, k) /\ IsAck(h, k)' = IsAck(h, k)
  <2>1. Way(h)' = Way(h) /\ \A k \in Way(h) : k \in Nat
    BY <1>0, WayTyped DEF Way
  <2>2. At(h, 0)' = None /\ \A k : k # 0 => At(h, k)' = At(h, k)
    BY <1>0, <1>2 DEF At
  <2> QED BY <1>0, <2>1, <2>2 DEF IsChunk, IsPut, IsAck
<1>6. JobInv(h)'
  <2>1. /\ temp[h] # None /\ Len(temp[h]) = off
        /\ \A k \in 1..off : temp[h][k] = <<u, k>>
    BY <1>0 DEF HandlerInv, JobInv, Receives, Writing
  <2>2. temp[h] \in Seq(Nat \X Nat)
    BY <1>0, <2>1 DEF TypeOK
  <2>3. /\ temp'[h] # None /\ Len(temp'[h]) = job'[h].off
        /\ \A k \in 1..job'[h].off : temp'[h][k] = <<u, k>>
        /\ job'[h].off <= uploads[u] /\ (job'[h].done => job'[h].off = uploads[u])
        /\ ~job'[h].done => job'[h].last < uploads[u]
    <3>1. CASE cur[h].data = None
      BY <1>1, <1>4, <2>1, <3>1
    <3>2. CASE cur[h].data # None
      <4>1. off < uploads[u] /\ temp'[h] = Append(temp[h], <<u, off + 1>>)
        BY <1>1, <1>4, <3>2
      <4>3. /\ temp'[h] \in Seq(Nat \X Nat) /\ Len(temp'[h]) = off + 1
            /\ temp'[h][off + 1] = <<u, off + 1>>
            /\ \A k \in 1..off : temp'[h][k] = temp[h][k]
        BY <1>3, <2>1, <2>2, <4>1
      <4>4. \A k \in 1..(off + 1) : k \in 1..off \/ k = off + 1
        BY <1>1
      <4>5. temp'[h] # None
        BY <4>3, NoneIsNothing
      <4>6. job'[h].off = off + 1 /\ ~job'[h].done /\ job'[h].last = off
        BY <3>2
      <4>7. \A k \in 1..(off + 1) : temp'[h][k] = <<u, k>>
        BY <2>1, <4>3, <4>4
      <4>8. /\ off + 1 <= uploads[u] /\ off < uploads[u]
        BY <1>1, <4>1
      <4>9. Len(temp'[h]) = job'[h].off /\ job'[h].off <= uploads[u] /\ job'[h].last < uploads[u]
        BY <4>3, <4>6, <4>8
      <4>10. \A k \in 1..job'[h].off : temp'[h][k] = <<u, k>>
        BY <4>6, <4>7
      <4> QED BY <4>5, <4>6, <4>9, <4>10
    <3> QED BY <3>1, <3>2
  <2> QED BY <1>0, <1>1, <2>3 DEF HandlerInv, JobInv, Receiving, Writing, Committing
<1>7. job'[h].off \in Nat /\ (job'[h].done => off = uploads[u])
      /\ \A k \in Way(h) : IsChunk(h, k) /\ k > 0 =>
           /\ At(h, k).off \in Nat /\ At(h, k).off >= job'[h].off
           /\ job'[h].done => At(h, k).off > uploads[u]
  <2>1. job'[h].off \in Nat /\ (job'[h].done => off = uploads[u])
    BY <1>1, <1>4
  <2>2. \A k \in Way(h) : IsChunk(h, k) => At(h, k).off \in Nat
    BY <1>0, WayTyped
  <2> QED BY <1>1, <2>1, <2>2
<1>8. ChunkInv(h)'
  BY <1>0, <1>1, <1>5, <1>7 DEF HandlerInv, ChunkInv
<1>9. /\ job'[h].off <= client[h].sent \/ client[h].st # "put"
      /\ job'[h].done => client[h].sent > uploads[u] \/ client[h].st # "put"
  BY <1>1, <1>7
<1>10. ClientInv(h)'
  BY <1>0, <1>1, <1>5, <1>9 DEF HandlerInv, ClientInv
<1>11. AckInv(h)'
  <2> SUFFICES ASSUME client[h].st = "put" PROVE AckInv(h)'
    BY <1>0 DEF AckInv
  <2>1. h \notin v2 => client[h].acked # None
    BY <1>0, <1>1 DEF HandlerInv, AckInv
  <2>2. \A j \in DOMAIN outbox[h] : IsAck(h, j) =>
          h \notin v2 /\ outbox[h][j].off # None /\ outbox[h][j].off # uploads[u]
    BY <1>0, <1>1, <2>1 DEF HandlerInv, AckInv
  <2> QED BY <1>0, <1>1, <1>5, <2>1, <2>2 DEF AckInv
<1>12. HandlerInv(h)'
  BY <1>0, <1>6, <1>8, <1>10, <1>11 DEF HandlerInv
<1>13. Ids' /\ FileInv'
  BY <1>0, IdsKeep, FileKeeps DEF Ids
<1>14. Grows
  BY <1>0 DEF Grows, TypeOK
<1> QED BY <1>0, <1>12, <1>13, <1>14, Assemble

\* The steps of an upload.
LEMMA UploadKeeps == ASSUME IndInv, TypeOK', NEW h \in Handlers, Upload(h) PROVE IndInv'
<1>0. TypeOK /\ HandlerInv(h) /\ Ids
  BY DEF IndInv
<1>1. CASE \E tell \in BOOLEAN : Leave(h, tell)
  BY <1>1, UploadLeft
<1>2. CASE ~\E tell \in BOOLEAN : Leave(h, tell)
  <2>0. ~Leave(h, TRUE) /\ ~Leave(h, FALSE) /\ ~Fail(h, TRUE)
    BY <1>2 DEF Fail
  <2>1. CASE CreateFile(h)
    BY <2>1, UploadLeft, CreateKeeps
  <2>2. CASE FirstAck(h)
    BY <2>0, <2>2, FirstAckKeeps
  <2>3. CASE WriteChunk(h)
    <3> DEFINE j == [job[h] EXCEPT !.off = @ + 1, !.n = @ + 1, !.last = cur[h].off]
    <3>1. /\ Receives(h) /\ InPlace(h, cur[h]) /\ cur[h].data # None
          /\ temp' = [temp EXCEPT ![h] = Append(@, cur[h].data)]
          /\ AfterChunk(h, j)
          /\ UNCHANGED <<target, commits, outbox>>
      BY <2>0, <2>3 DEF WriteChunk
    <3>2. /\ j.off = job[h].off + 1 /\ j.u = job[h].u /\ j.done = job[h].done
          /\ j.last = job[h].off
      BY <1>0, <3>1 DEF TypeOK, Job, InPlace
    <3>3. ~job[h].done
      BY <1>0, <3>1, Accepted
    <3>4. job'[h] = j /\ temp'[h] = Append(temp[h], cur[h].data)
      BY <1>0, <3>1 DEF AfterChunk, TypeOK
    <3>5. pc'[h] = IF h \notin v2 THEN "batch" ELSE IF job'[h].done THEN "rename" ELSE "recv"
      BY <1>0, <3>1, <3>4 DEF AfterChunk, Goto, TypeOK
    <3> QED BY <3>1, <3>2, <3>3, <3>4, <3>5, AcceptKeeps
  <2>4. CASE EndOfFile(h)
    <3> DEFINE j == [job[h] EXCEPT !.n = @ + 1, !.last = cur[h].off, !.done = TRUE]
    <3>1. /\ Receives(h) /\ InPlace(h, cur[h]) /\ cur[h].data = None
          /\ AfterChunk(h, j)
          /\ UNCHANGED <<temp, target, commits, outbox>>
      BY <2>4 DEF EndOfFile, fileVars
    <3>2. /\ j.off = job[h].off /\ j.u = job[h].u /\ j.done
          /\ j.last = job[h].off
      BY <1>0, <3>1 DEF TypeOK, Job, InPlace
    <3>3. job'[h] = j
      BY <1>0, <3>1 DEF AfterChunk, TypeOK
    <3>4. pc'[h] = IF h \notin v2 THEN "batch" ELSE IF job'[h].done THEN "rename" ELSE "recv"
      BY <1>0, <3>1, <3>3 DEF AfterChunk, Goto, TypeOK
    <3> QED BY <3>1, <3>2, <3>3, <3>4, AcceptKeeps
  <2>5. CASE RejectChunk(h)
    BY <1>2, <2>5 DEF RejectChunk
  <2>6. CASE ChannelClosed(h)
    BY <1>2, <2>6 DEF ChannelClosed
  <2>7. CASE BatchEnds(h)
    BY <2>7, BatchKeeps
  <2>8. CASE SendAck(h)
    BY <2>0, <2>8, SendAckKeeps
  <2>9. CASE Rename(h)
    BY <2>0, <2>9, RenameKeeps
  <2>10. CASE Preserve(h)
    BY <2>0, <2>10, PreserveKeeps, UploadLeft
  <2>11. CASE FinalAck(h)
    BY <2>0, <2>11, FinalAckKeeps
  <2>12. CASE Release(h)
    BY <2>12, UploadLeft
  <2> QED BY <2>1, <2>2, <2>3, <2>4, <2>5, <2>6, <2>7, <2>8, <2>9, <2>10, <2>11, <2>12
         DEF Upload
<1> QED BY <1>1, <1>2

\* The session goroutine gives an upload to the transfer: nothing of an earlier
\* one is on its way.
LEMMA BeginKeeps == ASSUME IndInv, TypeOK', NEW h \in Handlers, BeginUpload(h) PROVE IndInv'
<1> USE NoneAssumption
<1> DEFINE m == inbox[h][1]
<1>0. /\ TypeOK /\ HandlerInv(h) /\ FileInv /\ Ids
      /\ \A g \in Handlers \ {h} : Still(g)
  BY OthersStill DEF IndInv, Session
<1>1. /\ Take(h, "put") /\ pc[h] = "idle" /\ pc'[h] = "create"
      /\ job' = [job EXCEPT ![h].u = m.u]
      /\ UNCHANGED <<v2, uploads, target, temp, commits, client, outbox, sess, cur>>
  BY <1>0 DEF BeginUpload, MayUpload, Take, Goto, TypeOK, config, fileVars, sessVars
<1>2. /\ sess[h] = "serve" /\ cur[h] = None
      /\ inbox[h] \in Seq(Message) /\ inbox[h] # <<>> /\ m.type = "put"
      /\ inbox'[h] = Tail(inbox[h])
  BY <1>0, <1>1 DEF Take, TypeOK, HandlerInv, SessInv
<1>3. /\ Len(inbox'[h]) = Len(inbox[h]) - 1 /\ Len(inbox[h]) \in Nat \ {0}
      /\ DOMAIN inbox[h] = 1..Len(inbox[h]) /\ DOMAIN inbox'[h] = 1..Len(inbox'[h])
      /\ \A k \in 1..Len(inbox'[h]) : inbox'[h][k] = inbox[h][k + 1]
  BY <1>2
<1>4. /\ m.u = client[h].u /\ client[h].u # 0
      /\ client[h].u \notin commits /\ client[h].u # job[h].u
      /\ \A l \in DOMAIN inbox[h] : IsPut(h, l) => l = 1
      /\ client[h].st = "put" =>
           client[h].acked = None /\ \A j \in DOMAIN outbox[h] : ~IsAck(h, j)
  <2>1. IsPut(h, 1)
    BY <1>2, <1>3 DEF IsPut
  <2> QED BY <1>0, <1>3, <2>1 DEF HandlerInv, ClientInv
<1>5. job'[h] = [NoJob EXCEPT !.u = client[h].u]
  BY <1>0, <1>1, <1>4 DEF HandlerInv, JobInv, TypeOK
<1>6. job'[h].u = client[h].u /\ job'[h].off = 0 /\ ~job'[h].done
  BY <1>5 DEF NoJob
<1>7. /\ \A k : IsChunk(h, k)' => k + 1 \in Way(h) /\ IsChunk(h, k + 1)
                                 /\ At(h, k)' = At(h, k + 1)
      /\ \A k \in DOMAIN inbox'[h] : ~IsPut(h, k)'
  <2>1. At(h, 0)' = None
    BY <1>1, <1>2 DEF At
  <2>2. \A k \in 0..Len(inbox'[h]) : k # 0 =>
          /\ k + 1 \in 0..Len(inbox[h]) /\ k + 1 # 0
          /\ inbox'[h][k] = inbox[h][k + 1]
    BY <1>3
  <2>3. \A k \in DOMAIN inbox'[h] : k + 1 \in DOMAIN inbox[h] /\ k + 1 # 1
                                   /\ inbox'[h][k] = inbox[h][k + 1]
    BY <1>3
  <2> QED BY <1>4, <2>1, <2>2, <2>3 DEF IsChunk, IsPut, At, Way
<1>8. \A j : IsAck(h, j)' = IsAck(h, j)
  BY <1>1 DEF IsAck
<1>9. JobInv(h)'
  BY <1>0, <1>1, <1>4, <1>6 DEF HandlerInv, JobInv, Receiving, Writing, Committing
<1>10. SessInv(h)'
  BY <1>0, <1>1 DEF HandlerInv, SessInv
<1>11. ChunkInv(h)'
  <2>1. \A k \in Way(h)' : IsChunk(h, k)' => At(h, k + 1).off \in Nat
    BY <1>0, <1>7, WayTyped
  <2>2. \A k, l \in Way(h)' : k < l => k + 1 < l + 1
    BY <1>3 DEF Way
  <2>3. \A k \in Way(h)' : IsChunk(h, k)' => At(h, k)'.off >= 0
    BY <1>7, <2>1
  <2>4. ASSUME NEW k \in Way(h)', IsChunk(h, k)'
        PROVE  LET n == At(h, k)'
                   u == client[h].u
               IN /\ u # 0 /\ n.off <= uploads[u]
                  /\ n.data = IF n.off < uploads[u] THEN <<u, n.off + 1>> ELSE None
                  /\ client[h].st = "put" => n.off < client[h].sent
    BY <1>0, <1>7, <2>4 DEF HandlerInv, ChunkInv
  <2>5. \A k, l \in Way(h)' : IsChunk(h, k)' /\ IsChunk(h, l)' /\ k < l
                              => At(h, k)'.off < At(h, l)'.off
    BY <1>0, <1>7, <2>2 DEF HandlerInv, ChunkInv
  <2> QED BY <1>1, <1>6, <2>3, <2>4, <2>5 DEF ChunkInv
<1>12. ClientInv(h)'
  <2>1. client[h].sent \in Nat
    BY <1>0 DEF TypeOK, Peer
  <2> QED BY <1>0, <1>1, <1>4, <1>6, <1>7, <1>8, <2>1 DEF HandlerInv, ClientInv
<1>13. AckInv(h)'
  BY <1>0, <1>1, <1>4, <1>8 DEF HandlerInv, AckInv
<1>14. HandlerInv(h)'
  BY <1>9, <1>10, <1>11, <1>12, <1>13 DEF HandlerInv
<1>15. Ids' /\ FileInv'
  BY <1>0, <1>1, <1>6, IdsKeep, FileKeeps DEF Ids
<1>16. Grows
  BY <1>0, <1>1 DEF Grows, TypeOK
<1> QED BY <1>0, <1>1, <1>14, <1>15, <1>16, Assemble

\* No chunk and no put is added to what is on its way to the transfer.
InKeeps(h) ==
    /\ \A k : IsChunk(h, k)' => IsChunk(h, k) /\ At(h, k)' = At(h, k)
    /\ \A k : IsPut(h, k)' => IsPut(h, k) /\ inbox'[h][k] = inbox[h][k]

\* What is on its way to the client is a part of what was, maybe one place nearer
\* to it.
OutShrinks(h) ==
    \E d \in {0, 1} : \A j \in DOMAIN outbox'[h] :
        j \in Nat /\ j + d \in DOMAIN outbox[h] /\ outbox'[h][j] = outbox[h][j + d]

\* Whatever a client does that has no upload, or has it no more.
LEMMA ClientKeeps ==
  ASSUME IndInv, TypeOK', NEW h \in Handlers, \A g \in Handlers \ {h} : Still(g),
         UNCHANGED <<v2, uploads, commits, target, temp, pc, job, sess, cur>>,
         InKeeps(h), OutShrinks(h),
         \/ client'[h] = client[h]
         \/ client'[h].st \in {"quit", "gone"} /\ client'[h].u = client[h].u
         \/ /\ client[h].st \in {"idle", "get"} /\ client'[h].st \in {"idle", "get"}
            /\ client'[h].u = 0
  PROVE  IndInv'
<1> USE NoneAssumption
<1>0. TypeOK /\ HandlerInv(h) /\ FileInv /\ Ids
  BY DEF IndInv
<1>1. client'[h].u = client[h].u
  BY <1>0 DEF HandlerInv, ClientInv
<1>2. client'[h].st = "put" => client'[h] = client[h]
  OBVIOUS
<1>3. PICK d \in {0, 1} : \A j \in DOMAIN outbox'[h] :
        j \in Nat /\ j + d \in DOMAIN outbox[h] /\ outbox'[h][j] = outbox[h][j + d]
  BY DEF OutShrinks
<1>4. \A j \in DOMAIN outbox'[h] : IsAck(h, j)' =>
        /\ j \in Nat /\ j + d \in DOMAIN outbox[h] /\ IsAck(h, j + d)
        /\ outbox'[h][j] = outbox[h][j + d]
  BY <1>3 DEF IsAck
<1>5. Active(h)' = Active(h)
  BY DEF Active
<1>6. JobInv(h)' /\ SessInv(h)'
  BY <1>0 DEF HandlerInv, JobInv, SessInv
<1>7. ChunkInv(h)'
  <2>1. \A k : IsChunk(h, k)' => k \in Way(h)
    BY DEF InKeeps, IsChunk
  <2>2. ASSUME NEW k \in Way(h)', IsChunk(h, k)'
        PROVE  LET n == At(h, k)'
                   u == client[h].u
               IN /\ u # 0 /\ n.off <= uploads[u]
                  /\ n.data = IF n.off < uploads[u] THEN <<u, n.off + 1>> ELSE None
                  /\ Active(h) => n.off >= job[h].off /\ (job[h].done => n.off > uploads[u])
                  /\ client[h].st = "put" => n.off < client[h].sent
    BY <1>0, <2>1, <2>2 DEF HandlerInv, ChunkInv, InKeeps
  <2>3. \A k, l \in Way(h)' : IsChunk(h, k)' /\ IsChunk(h, l)' /\ k < l
                              => At(h, k)'.off < At(h, l)'.off
    BY <1>0, <2>1 DEF HandlerInv, ChunkInv, InKeeps
  <2> QED BY <1>1, <1>2, <1>5, <2>2, <2>3 DEF ChunkInv
<1>8. ClientInv(h)'
  <2>1. \A k : IsPut(h, k)' => k \in DOMAIN inbox[h]
    BY DEF InKeeps, IsPut
  <2>2. ASSUME NEW k \in DOMAIN inbox'[h], IsPut(h, k)'
        PROVE  /\ inbox'[h][k].u = client[h].u /\ client[h].u # 0
               /\ client[h].u \notin commits /\ client[h].u # job[h].u
               /\ ~Active(h)
               /\ \A l \in DOMAIN inbox'[h] : IsPut(h, l)' => l = k
               /\ client[h].st = "put" =>
                    client[h].acked = None /\ \A j \in DOMAIN outbox'[h] : ~IsAck(h, j)'
    BY <1>0, <1>4, <2>1, <2>2 DEF HandlerInv, ClientInv, InKeeps
  <2>3. client'[h].st \in {"idle", "get"} =>
          client[h].u = 0 /\ \A j \in DOMAIN outbox'[h] : ~IsAck(h, j)'
    BY <1>0, <1>4 DEF HandlerInv, ClientInv
  <2>4. /\ client'[h].st = "put" => client[h].u # 0
        /\ Active(h) => client[h].u = job[h].u
        /\ client'[h].st = "put" /\ Active(h) =>
             /\ job[h].off <= client[h].sent
             /\ job[h].done => client[h].sent > uploads[client[h].u]
    BY <1>0, <1>2 DEF HandlerInv, ClientInv
  <2> QED BY <1>1, <1>2, <1>5, <2>2, <2>3, <2>4 DEF ClientInv
<1>9. AckInv(h)'
  <2> SUFFICES ASSUME client'[h].st = "put" PROVE AckInv(h)'
    BY DEF AckInv
  <2>1. client'[h] = client[h]
    BY <1>2
  <2>2. h \notin v2 =>
          /\ \A j \in DOMAIN outbox'[h] : IsAck(h, j)' => outbox'[h][j].off # None
          /\ client[h].acked = None =>
               /\ client[h].sent = 0 /\ pc[h] \notin {"batch", "ack"}
               /\ \A j \in DOMAIN outbox'[h] : IsAck(h, j)' =>
                    /\ pc[h] \notin {"create", "firstAck"}
                    /\ \A i \in DOMAIN outbox'[h] : IsAck(h, i)' => i = j
          /\ client[h].acked # None => pc[h] \notin {"create", "firstAck"}
    BY <1>0, <1>4, <2>1 DEF HandlerInv, AckInv
  <2>3. ASSUME NEW j \in DOMAIN outbox'[h], IsAck(h, j)',
               h \in v2 \/ (client[h].acked # None
                             /\ outbox'[h][j].off = uploads[client[h].u])
        PROVE  /\ ~Active(h) /\ client[h].sent > uploads[client[h].u]
               /\ \A k \in Way(h) : ~IsChunk(h, k)
               /\ \A i \in DOMAIN outbox'[h] : IsAck(h, i)' => i <= j
               /\ h \in v2 => outbox'[h][j].off = None /\ client[h].u \in commits
    BY <1>0, <1>4, <2>1, <2>3 DEF HandlerInv, AckInv
  <2>4. (\A k \in Way(h) : ~IsChunk(h, k)) => \A k \in Way(h)' : ~IsChunk(h, k)'
    BY DEF InKeeps, IsChunk
  <2> QED BY <1>5, <2>1, <2>2, <2>3, <2>4 DEF AckInv
<1>10. HandlerInv(h)'
  BY <1>6, <1>7, <1>8, <1>9 DEF HandlerInv
<1>11. Ids' /\ FileInv'
  BY <1>0, <1>1, IdsKeep, FileKeeps DEF Ids
<1>12. Grows
  BY <1>0 DEF Grows, TypeOK
<1> QED BY <1>10, <1>11, <1>12, Assemble

\* What Send adds comes behind all that is on its way.
LEMMA Sent ==
  ASSUME TypeOK, TypeOK', NEW h \in Handlers, NEW m \in Message, Send(h, m), cur'[h] = cur[h]
  PROVE  LET n == Len(inbox[h]) + 1
         IN /\ n \in Nat /\ n # 0 /\ DOMAIN inbox[h] = 1..(n - 1) /\ DOMAIN inbox'[h] = 1..n
            /\ Way(h) = 0..(n - 1) /\ Way(h)' = 0..n
            /\ \A k \in Way(h) : k < n
            /\ \A k \in Way(h)' : k \in Way(h) \/ k = n
            /\ inbox'[h][n] = m /\ \A k : k = n => At(h, k)' = m
            /\ \A k \in Way(h) : At(h, k)' = At(h, k)
            /\ \A k \in DOMAIN inbox[h] : inbox'[h][k] = inbox[h][k]
<1> DEFINE n == Len(inbox[h]) + 1
<1>1. inbox[h] \in Seq(Message) /\ inbox'[h] = Append(inbox[h], m)
  BY DEF TypeOK, Send
<1>2. /\ n \in Nat /\ n # 0 /\ Len(inbox'[h]) = n
      /\ DOMAIN inbox[h] = 1..(n - 1) /\ DOMAIN inbox'[h] = 1..n
      /\ inbox'[h][n] = m
      /\ \A k \in DOMAIN inbox[h] : inbox'[h][k] = inbox[h][k]
  BY <1>1
<1>3. Way(h) = 0..(n - 1) /\ Way(h)' = 0..n
  BY <1>1, <1>2 DEF Way
<1>4. /\ \A k \in 0..(n - 1) : k < n /\ (k # 0 => k \in 1..(n - 1))
      /\ \A k \in 0..n : k \in 0..(n - 1) \/ k = n
  BY <1>2
<1>5. \A k : k = n => At(h, k)' = m
  BY <1>2 DEF At
<1>6. \A k \in Way(h) : At(h, k)' = At(h, k)
  BY <1>2, <1>3, <1>4 DEF At
<1> QED BY <1>2, <1>3, <1>4, <1>5, <1>6

\* Messages that are neither a put nor a chunk with an offset.
LEMMA Others ==
  ASSUME TypeOK, TypeOK', NEW h \in Handlers, cur'[h] = cur[h],
         \/ inbox'[h] = inbox[h]
         \/ \E m \in Message : /\ Send(h, m) /\ m.type # "put"
                               /\ m.type = "chunk" => m.off = None
  PROVE  InKeeps(h)
<1>1. CASE inbox'[h] = inbox[h]
  BY <1>1 DEF InKeeps, IsChunk, IsPut, At, Way
<1>2. ASSUME NEW m \in Message, Send(h, m), m.type # "put", m.type = "chunk" => m.off = None
      PROVE  InKeeps(h)
  <2> DEFINE n == Len(inbox[h]) + 1
  <2>1. /\ n # 0 /\ inbox'[h][n] = m /\ \A k : k = n => At(h, k)' = m
        /\ \A k \in Way(h)' : k \in Way(h) \/ k = n
        /\ \A k \in Way(h) : At(h, k)' = At(h, k)
        /\ \A k \in DOMAIN inbox[h] : inbox'[h][k] = inbox[h][k]
    BY <1>2, Sent
  <2>2. \A k \in DOMAIN inbox'[h] : k \in DOMAIN inbox[h] \/ k = n
    <3>1. DOMAIN inbox[h] = 1..(n - 1) /\ DOMAIN inbox'[h] = 1..n /\ n \in Nat
      BY <1>2, Sent
    <3> QED BY <3>1
  <2>3. ASSUME NEW k, IsChunk(h, k)' PROVE IsChunk(h, k) /\ At(h, k)' = At(h, k)
    BY <1>2, <2>1, <2>3 DEF IsChunk
  <2>4. ASSUME NEW k, IsPut(h, k)' PROVE IsPut(h, k) /\ inbox'[h][k] = inbox[h][k]
    BY <1>2, <2>1, <2>2, <2>4 DEF IsPut
  <2> QED BY <2>3, <2>4 DEF InKeeps
<1> QED BY <1>1, <1>2

\* The client has taken a message, or none, or is not to be told anything more.
LEMMA Told ==
  ASSUME TypeOK, NEW h \in Handlers,
         \/ outbox'[h] = outbox[h]
         \/ outbox[h] # <<>> /\ outbox'[h] = Tail(outbox[h])
         \/ outbox'[h] = <<>>
  PROVE  OutShrinks(h)
<1>1. outbox[h] \in Seq(Message)
  BY DEF TypeOK
<1>2. CASE outbox'[h] = outbox[h]
  <2>1. \A j \in DOMAIN outbox[h] : j \in Nat /\ j + 0 = j
    BY <1>1
  <2> QED BY <1>2, <2>1 DEF OutShrinks
<1>3. CASE outbox[h] # <<>> /\ outbox'[h] = Tail(outbox[h])
  <2>1. \A j \in DOMAIN outbox'[h] :
          j \in Nat /\ j + 1 \in DOMAIN outbox[h] /\ outbox'[h][j] = outbox[h][j + 1]
    BY <1>1, <1>3
  <2> QED BY <2>1 DEF OutShrinks
<1>4. CASE outbox'[h] = <<>>
  BY <1>4 DEF OutShrinks
<1> QED BY <1>2, <1>3, <1>4

\* A client that asks for a file, gives up, sends what nobody expects, or leaves.
LEMMA AsideKeeps ==
  ASSUME IndInv, TypeOK', NEW h \in Handlers, Get(h) \/ GiveUp(h) \/ Stray(h) \/ Vanish(h)
  PROVE  IndInv'
<1> USE DEF config, fileVars, rateVars, sessVars, taskVars, faultVars, rest
<1>0. /\ TypeOK /\ HandlerInv(h)
      /\ \A g \in Handlers \ {h} : Still(g)
  BY OthersStill DEF IndInv
<1>1. /\ UNCHANGED <<v2, uploads, commits, target, temp, pc, job, sess, cur>>
      /\ outbox'[h] \in {outbox[h], <<>>}
  BY <1>0 DEF Get, GiveUp, Stray, Vanish, TypeOK
<1>2. OutShrinks(h)
  BY <1>0, <1>1, Told
<1>3. CASE Get(h)
  <2>1. \E m \in Message : Send(h, m) /\ m.type = "get"
    <3>1. PICK p \in Places : Send(h, [type |-> "get", place |-> p])
      BY <1>3 DEF Get, Places
    <3>2. [type |-> "get", place |-> p] \in Message
      BY DEF Message
    <3> QED BY <3>1, <3>2
  <2>2. InKeeps(h)
    BY <1>0, <1>1, <2>1, Others
  <2>3. client'[h] = [NoClient EXCEPT !.st = "get"] /\ client[h].st = "idle"
    BY <1>0, <1>3 DEF Get, TypeOK
  <2>4. client'[h].st = "get" /\ client'[h].u = 0
    BY <2>3 DEF NoClient
  <2> QED BY <1>0, <1>1, <1>2, <2>2, <2>3, <2>4, ClientKeeps
<1>4. CASE GiveUp(h)
  <2>1. InKeeps(h)
    BY <1>0, <1>1, <1>4, Others, Messages DEF GiveUp, ErrorMsg
  <2>2. client'[h] = [NoClient EXCEPT !.st = "quit", !.u = client[h].u]
    BY <1>0, <1>4 DEF GiveUp, TypeOK
  <2>3. client'[h].st = "quit" /\ client'[h].u = client[h].u
    BY <2>2 DEF NoClient
  <2> QED BY <1>0, <1>1, <1>2, <2>1, <2>3, ClientKeeps
<1>5. CASE Stray(h)
  <2>1. /\ Ack(None) \in Message /\ Ack(None).type = "ack"
        /\ Chunk(None, None) \in Message /\ Chunk(None, None).type = "chunk"
        /\ Chunk(None, None).off = None
        /\ [Ack(None) EXCEPT !.type = "other"] \in Message
        /\ [Ack(None) EXCEPT !.type = "other"].type = "other"
    BY Messages DEF Ack, Chunk, Pieces
  <2>2. InKeeps(h)
    BY <1>0, <1>1, <1>5, <2>1, Others DEF Stray
  <2>3. client' = client
    BY <1>5 DEF Stray
  <2> QED BY <1>0, <1>1, <1>2, <2>2, <2>3, ClientKeeps
<1>6. CASE Vanish(h)
  <2>1. PICK k \in 0..Len(inbox[h]) : inbox' = [inbox EXCEPT ![h] = SubSeq(@, 1, k)]
    BY <1>6 DEF Vanish
  <2>2. /\ inbox[h] \in Seq(Message) /\ inbox'[h] = SubSeq(inbox[h], 1, k)
        /\ Len(inbox[h]) \in Nat
    BY <1>0, <2>1 DEF TypeOK
  <2>3. /\ inbox'[h] \in Seq(Message) /\ Len(inbox'[h]) = k
        /\ \A i \in 1..k : inbox'[h][i] = inbox[h][i]
    BY <2>2, Cut
  <2>4. /\ DOMAIN inbox'[h] = 1..k /\ DOMAIN inbox[h] = 1..Len(inbox[h])
        /\ Way(h)' = 0..k /\ k \in Nat
    BY <2>2, <2>3 DEF Way
  <2>5. /\ \A i \in 1..k : i \in 1..Len(inbox[h])
        /\ \A i \in 0..k : i \in 0..Len(inbox[h]) /\ (i # 0 => i \in 1..k)
    BY <2>2
  <2>6. InKeeps(h)
    BY <1>1, <2>3, <2>4, <2>5 DEF InKeeps, IsChunk, IsPut, At, Way
  <2>7. client'[h] = [NoClient EXCEPT !.st = "gone", !.u = client[h].u]
    BY <1>0, <1>6 DEF Vanish, TypeOK
  <2>8. client'[h].st = "gone" /\ client'[h].u = client[h].u
    BY <2>7 DEF NoClient
  <2> QED BY <1>0, <1>1, <1>2, <2>6, <2>8, ClientKeeps
<1> QED BY <1>3, <1>4, <1>5, <1>6

\* The client of an upload takes an acknowledgement.  If that is the last, the
\* upload is over on both sides and nothing of it is left between them.
LEMMA ConfirmKeeps ==
  ASSUME IndInv, TypeOK', NEW h \in Handlers, Receive(h),
         client[h].st = "put", Head(outbox[h]).type = "ack"
  PROVE  IndInv'
<1> USE NoneAssumption
<1> DEFINE c == client[h]
<1> DEFINE m == outbox[h][1]
<1> DEFINE size == uploads[c.u]
<1> DEFINE whole == c.sent > size /\ m.off \in {None, size}
<1>0. /\ TypeOK /\ HandlerInv(h) /\ FileInv /\ Ids
      /\ \A g \in Handlers \ {h} : Still(g)
  BY OthersStill DEF IndInv, Client
<1>1. /\ UNCHANGED <<v2, uploads, commits, target, temp, pc, job, sess, cur, inbox>>
      /\ outbox[h] # <<>> /\ outbox[h] \in Seq(Message) /\ outbox'[h] = Tail(outbox[h])
      /\ m = Head(outbox[h]) /\ m.type = "ack"
      /\ client'[h] = After(h, m)
  BY <1>0 DEF Receive, TypeOK, rest, config, fileVars, sessVars, taskVars
<1>2. client'[h] = IF whole THEN NoClient ELSE [c EXCEPT !.acked = m.off]
  BY <1>1 DEF After
<1>3. /\ c \in Peer /\ c.u # 0 /\ c.u \in 2..Len(uploads) /\ size \in Nat /\ c.sent \in Nat
  <2>1. c \in Peer /\ c.u # 0
    BY <1>0 DEF TypeOK, HandlerInv, ClientInv
  <2>2. c.u \in 2..Len(uploads)
    BY <1>0, <2>1 DEF Ids
  <2>3. size \in Nat
    <3>1. uploads \in Seq(Nat)
      BY <1>0 DEF TypeOK
    <3> QED BY <2>2, <3>1
  <2>4. c.sent \in Nat
    BY <2>1 DEF Peer
  <2> QED BY <2>1, <2>2, <2>3, <2>4
<1>4. /\ 1 \in DOMAIN outbox[h] /\ IsAck(h, 1)
      /\ \A j \in DOMAIN outbox'[h] : /\ j \in Nat /\ j # 0 /\ j + 1 \in DOMAIN outbox[h]
                                      /\ outbox'[h][j] = outbox[h][j + 1]
                                      /\ IsAck(h, j)' => IsAck(h, j + 1)
  <2>1. 1 \in DOMAIN outbox[h] /\ IsAck(h, 1)
    BY <1>1 DEF IsAck
  <2>2. \A j \in DOMAIN outbox'[h] : /\ j \in Nat /\ j # 0 /\ j + 1 \in DOMAIN outbox[h]
                                     /\ outbox'[h][j] = outbox[h][j + 1]
    BY <1>1
  <2> QED BY <2>1, <2>2 DEF IsAck
<1>5. /\ Active(h)' = Active(h) /\ Way(h)' = Way(h)
      /\ \A k : /\ At(h, k)' = At(h, k) /\ IsChunk(h, k)' = IsChunk(h, k)
                /\ IsPut(h, k)' = IsPut(h, k)
  BY <1>1 DEF Active, Way, At, IsChunk, IsPut
<1>6. \A k \in DOMAIN inbox[h] : ~IsPut(h, k)
  BY <1>0, <1>4 DEF HandlerInv, ClientInv
<1>7. JobInv(h)' /\ SessInv(h)'
  BY <1>0, <1>1 DEF HandlerInv, JobInv, SessInv
<1>8. Ids' /\ FileInv' /\ Grows
  <2>1. client'[h].u \in {0, c.u}
    BY <1>2, <1>3 DEF NoClient, Peer
  <2>2. Ids' /\ FileInv'
    BY <1>0, <1>1, <2>1, IdsKeep, FileKeeps DEF Ids
  <2> QED BY <1>0, <1>1, <2>2 DEF Grows, TypeOK
<1>9. CASE whole
  <2>1. h \notin v2 => m.off = size /\ c.acked # None
    <3>1. h \notin v2 => m.off # None /\ (c.acked = None => c.sent = 0)
      BY <1>0, <1>4 DEF HandlerInv, AckInv
    <3> QED BY <1>3, <1>9, <3>1
  <2>2. /\ ~Active(h) /\ \A k \in Way(h) : ~IsChunk(h, k)
        /\ \A i \in DOMAIN outbox[h] : IsAck(h, i) => i <= 1
    BY <1>0, <1>4, <2>1 DEF HandlerInv, AckInv
  <2>3. \A j \in DOMAIN outbox'[h] : ~IsAck(h, j)'
    <3>1. \A j \in DOMAIN outbox'[h] : ~(j + 1 <= 1)
      BY <1>4
    <3> QED BY <1>4, <2>2, <3>1
  <2>4. client'[h].st = "idle" /\ client'[h].u = 0
    BY <1>2, <1>9 DEF NoClient
  <2>5. ChunkInv(h)' /\ ClientInv(h)' /\ AckInv(h)'
    BY <1>1, <1>5, <1>6, <2>2, <2>3, <2>4 DEF ChunkInv, ClientInv, AckInv
  <2>6. HandlerInv(h)'
    BY <1>7, <2>5 DEF HandlerInv
  <2> QED BY <1>0, <1>1, <1>8, <2>6, Assemble
<1>10. CASE ~whole
  <2>1. /\ client'[h].st = "put" /\ client'[h].u = c.u /\ client'[h].sent = c.sent
        /\ client'[h].acked = m.off
    BY <1>2, <1>3, <1>10 DEF Peer
  <2>2. ChunkInv(h)'
    BY <1>0, <1>1, <1>5, <2>1 DEF HandlerInv, ChunkInv
  <2>3. ClientInv(h)'
    BY <1>0, <1>1, <1>5, <1>6, <2>1 DEF HandlerInv, ClientInv
  <2>4. h \notin v2 =>
          /\ m.off # None /\ pc[h] \notin {"create", "firstAck"}
          /\ \A j \in DOMAIN outbox[h] : IsAck(h, j) => outbox[h][j].off # None
    BY <1>0, <1>4 DEF HandlerInv, AckInv
  <2>5. \A j \in DOMAIN outbox'[h] : IsAck(h, j)' => h \notin v2 /\ c.acked # None
    <3>1. ASSUME NEW j \in DOMAIN outbox'[h], IsAck(h, j)', h \in v2 PROVE FALSE
      <4>1. c.sent > size /\ m.off = None
        BY <1>0, <1>4, <3>1 DEF HandlerInv, AckInv
      <4> QED BY <1>10, <4>1
    <3>2. ASSUME NEW j \in DOMAIN outbox'[h], IsAck(h, j)', h \notin v2, c.acked = None
          PROVE  FALSE
      <4>1. j + 1 = 1
        BY <1>0, <1>4, <3>2 DEF HandlerInv, AckInv
      <4> QED BY <1>4, <3>2, <4>1
    <3> QED BY <3>1, <3>2
  <2>6. ASSUME NEW j \in DOMAIN outbox'[h], IsAck(h, j)', outbox'[h][j].off = size
        PROVE  /\ ~Active(h) /\ c.sent > size
               /\ \A k \in Way(h) : ~IsChunk(h, k)
               /\ \A i \in DOMAIN outbox'[h] : IsAck(h, i)' => i <= j
    <3>1. /\ ~Active(h) /\ c.sent > size
          /\ \A k \in Way(h) : ~IsChunk(h, k)
          /\ \A i \in DOMAIN outbox[h] : IsAck(h, i) => i <= j + 1
      BY <1>0, <1>4, <2>5, <2>6 DEF HandlerInv, AckInv
    <3>2. \A i \in DOMAIN outbox'[h] : IsAck(h, i)' => i + 1 <= j + 1
      BY <1>4, <3>1
    <3> QED BY <1>4, <3>1, <3>2
  <2>7. AckInv(h)'
    BY <1>1, <1>4, <1>5, <2>1, <2>4, <2>5, <2>6 DEF AckInv
  <2>8. HandlerInv(h)'
    BY <1>7, <2>2, <2>3, <2>7 DEF HandlerInv
  <2> QED BY <1>0, <1>1, <1>8, <2>8, Assemble
<1> QED BY <1>9, <1>10

\* The client reads what it is sent.
LEMMA ReceiveKeeps == ASSUME IndInv, TypeOK', NEW h \in Handlers, Receive(h) PROVE IndInv'
<1> DEFINE c == client[h]
<1> DEFINE m == Head(outbox[h])
<1>0. /\ TypeOK /\ HandlerInv(h)
      /\ \A g \in Handlers \ {h} : Still(g)
  BY OthersStill DEF IndInv, Client
<1>1. /\ UNCHANGED <<v2, uploads, commits, target, temp, pc, job, sess, cur>>
      /\ outbox[h] # <<>> /\ outbox[h] \in Seq(Message) /\ outbox'[h] = Tail(outbox[h])
      /\ m \in Message /\ client'[h] = After(h, m)
      /\ \/ inbox' = inbox
         \/ m.type = "chunk" /\ Send(h, Ack(m.off))
  BY <1>0 DEF Receive, TypeOK, rest, config, fileVars, sessVars, taskVars
<1>2. OutShrinks(h)
  BY <1>0, <1>1, Told
<1>3. InKeeps(h)
  <2>1. m.type = "chunk" => Ack(m.off) \in Message /\ Ack(m.off).type = "ack"
    <3>1. m.type = "chunk" => m.off \in Nat \cup {None}
      BY <1>1 DEF Message
    <3> QED BY <3>1, Messages DEF Ack
  <2> QED BY <1>0, <1>1, <2>1, Others
<1>4. c \in Peer /\ c.u \in Nat /\ (c.st = "get" => c.u = 0)
  BY <1>0 DEF TypeOK, Peer, HandlerInv, ClientInv
<1>5. CASE ~(c.st = "put" /\ m.type = "ack")
  <2>1. \/ client'[h] = c
        \/ client'[h] = [NoClient EXCEPT !.st = "quit", !.u = c.u]
        \/ c.st = "get" /\ client'[h] \in {NoClient, [c EXCEPT !.got = Append(@, m.data)]}
    BY <1>1, <1>5 DEF After
  <2>2. /\ NoClient.st = "idle" /\ NoClient.u = 0
        /\ [NoClient EXCEPT !.st = "quit", !.u = c.u].st = "quit"
        /\ [NoClient EXCEPT !.st = "quit", !.u = c.u].u = c.u
    BY DEF NoClient
  <2>3. /\ [c EXCEPT !.got = Append(@, m.data)].st = c.st
        /\ [c EXCEPT !.got = Append(@, m.data)].u = c.u
    BY <1>4 DEF Peer
  <2> QED BY <1>0, <1>1, <1>2, <1>3, <1>4, <2>1, <2>2, <2>3, ClientKeeps
<1> QED BY <1>5, ConfirmKeeps

\* The client sends the next chunk of its upload.
LEMMA SendChunkKeeps ==
  ASSUME IndInv, TypeOK', NEW h \in Handlers, SendChunk(h)
  PROVE  IndInv'
<1> USE NoneAssumption
<1> DEFINE c == client[h]
<1> DEFINE size == uploads[c.u]
<1> DEFINE m == Chunk(c.sent, IF c.sent < size THEN <<c.u, c.sent + 1>> ELSE None)
<1> DEFINE n == Len(inbox[h]) + 1
<1>0. /\ TypeOK /\ HandlerInv(h) /\ FileInv /\ Ids
      /\ \A g \in Handlers \ {h} : Still(g)
  BY OthersStill DEF IndInv, Client
<1>1. /\ UNCHANGED <<v2, uploads, commits, target, temp, pc, job, sess, cur, outbox>>
      /\ c.st = "put" /\ c.sent <= size /\ (h \notin v2 => c.acked # None)
      /\ Send(h, m)
      /\ client' = [client EXCEPT ![h].sent = @ + 1]
  BY DEF SendChunk, MaySend, rest, config, fileVars, sessVars, taskVars
<1>2. /\ c \in Peer /\ c.u # 0 /\ size \in Nat /\ c.sent \in Nat
      /\ client'[h].st = "put" /\ client'[h].u = c.u /\ client'[h].acked = c.acked
      /\ client'[h].sent = c.sent + 1
  <2>1. c \in Peer /\ c.u # 0
    BY <1>0, <1>1 DEF TypeOK, HandlerInv, ClientInv
  <2>2. c.u \in 2..Len(uploads)
    BY <1>0, <2>1 DEF Ids
  <2>3. size \in Nat
    <3>1. uploads \in Seq(Nat)
      BY <1>0 DEF TypeOK
    <3> QED BY <2>2, <3>1
  <2>4. c.sent \in Nat
    BY <2>1 DEF Peer
  <2>5. client'[h] = [c EXCEPT !.sent = @ + 1]
    BY <1>0, <1>1 DEF TypeOK
  <2> QED BY <1>1, <2>1, <2>3, <2>4, <2>5 DEF Peer
<1>3. /\ m \in Message /\ m.type = "chunk" /\ m.off = c.sent
      /\ m.data = IF c.sent < size THEN <<c.u, c.sent + 1>> ELSE None
  <2>1. c.u \in Nat /\ c.sent + 1 \in Nat
    BY <1>2 DEF Peer
  <2>2. (IF c.sent < size THEN <<c.u, c.sent + 1>> ELSE None) \in Pieces
    BY <2>1 DEF Pieces
  <2> QED BY <1>2, <2>2, Messages DEF Chunk
<1>4. /\ n \in Nat /\ n # 0 /\ DOMAIN inbox[h] = 1..(n - 1) /\ DOMAIN inbox'[h] = 1..n
      /\ Way(h)' = 0..n
      /\ \A k \in Way(h) : k < n /\ At(h, k)' = At(h, k)
      /\ \A k \in Way(h)' : k \in Way(h) \/ k = n
      /\ inbox'[h][n] = m /\ \A k : k = n => At(h, k)' = m
      /\ \A k \in DOMAIN inbox[h] : inbox'[h][k] = inbox[h][k]
  BY <1>0, <1>1, <1>3, Sent
<1>5. /\ Active(h)' = Active(h)
      /\ \A j : IsAck(h, j)' = IsAck(h, j)
      /\ \A k : IsPut(h, k)' => k \in DOMAIN inbox[h] /\ IsPut(h, k) /\ inbox'[h][k] = inbox[h][k]
      /\ \A k \in Way(h)' : IsChunk(h, k)' =>
           (k \in Way(h) /\ IsChunk(h, k) /\ k < n /\ At(h, k)' = At(h, k)) \/ k = n
  <2>1. \A k \in DOMAIN inbox'[h] : k \in DOMAIN inbox[h] \/ k = n
    BY <1>4
  <2>2. \A k : IsPut(h, k)' => k \in DOMAIN inbox[h] /\ IsPut(h, k) /\ inbox'[h][k] = inbox[h][k]
    BY <1>3, <1>4, <2>1 DEF IsPut
  <2>3. \A k \in Way(h)' : IsChunk(h, k)' =>
          (k \in Way(h) /\ IsChunk(h, k) /\ k < n /\ At(h, k)' = At(h, k)) \/ k = n
    BY <1>4 DEF IsChunk
  <2> QED BY <1>1, <2>2, <2>3 DEF Active, IsAck
<1>6. JobInv(h)' /\ SessInv(h)'
  BY <1>0, <1>1 DEF HandlerInv, JobInv, SessInv
<1>7. /\ Active(h) => job[h].off <= c.sent /\ ~job[h].done
      /\ job[h].off \in Nat
  <2>1. Active(h) => job[h].off <= c.sent /\ (job[h].done => c.sent > size)
    BY <1>0, <1>1 DEF HandlerInv, ClientInv
  <2>2. job[h].off \in Nat
    BY <1>0 DEF TypeOK, Job
  <2> QED BY <1>1, <1>2, <2>1, <2>2
<1>8. ChunkInv(h)'
  <2>1. ASSUME NEW k \in Way(h)', IsChunk(h, k)'
        PROVE  LET a == At(h, k)'
               IN /\ a.off <= size
                  /\ a.data = IF a.off < size THEN <<c.u, a.off + 1>> ELSE None
                  /\ Active(h) => a.off >= job[h].off /\ (job[h].done => a.off > size)
                  /\ a.off < c.sent + 1
    <3>1. CASE k = n
      <4>1. At(h, k)'.off = c.sent /\ At(h, k)'.data = m.data
        BY <1>3, <1>4, <3>1
      <4>2. c.sent < c.sent + 1
        BY <1>2
      <4> QED BY <1>1, <1>2, <1>3, <1>7, <4>1, <4>2
    <3>2. CASE k # n
      <4>1. k \in Way(h) /\ IsChunk(h, k) /\ At(h, k)' = At(h, k)
        BY <1>5, <2>1, <3>2
      <4>2. At(h, k).off \in Nat
        BY <1>0, <4>1, WayTyped
      <4>3. At(h, k).off < c.sent
        BY <1>0, <1>1, <4>1 DEF HandlerInv, ChunkInv
      <4>4. At(h, k).off < c.sent + 1
        BY <1>2, <4>2, <4>3
      <4> QED BY <1>0, <4>1, <4>4 DEF HandlerInv, ChunkInv
    <3> QED BY <3>1, <3>2
  <2>2. ASSUME NEW k \in Way(h)', NEW l \in Way(h)', IsChunk(h, k)', IsChunk(h, l)', k < l
        PROVE  At(h, k)'.off < At(h, l)'.off
    <3>1. k \in Nat /\ l \in Nat /\ k # n
      BY <1>4, <2>2
    <3>2. k \in Way(h) /\ IsChunk(h, k) /\ At(h, k)' = At(h, k)
      BY <1>5, <2>2, <3>1
    <3>3. CASE l = n
      BY <1>0, <1>1, <1>3, <1>4, <3>2, <3>3 DEF HandlerInv, ChunkInv
    <3>4. CASE l # n
      <4>1. l \in Way(h) /\ IsChunk(h, l) /\ At(h, l)' = At(h, l)
        BY <1>5, <2>2, <3>4
      <4> QED BY <1>0, <2>2, <3>2, <4>1 DEF HandlerInv, ChunkInv
    <3> QED BY <3>3, <3>4
  <2> QED BY <1>1, <1>2, <1>5, <2>1, <2>2 DEF ChunkInv
<1>9. ClientInv(h)'
  <2>1. /\ job[h].off <= c.sent + 1 \/ ~Active(h)
        /\ job[h].done => ~Active(h)
    BY <1>2, <1>7
  <2>2. ASSUME NEW k \in DOMAIN inbox'[h], IsPut(h, k)'
        PROVE  /\ inbox'[h][k].u = c.u /\ c.u # 0
               /\ c.u \notin commits /\ c.u # job[h].u
               /\ ~Active(h)
               /\ \A l \in DOMAIN inbox'[h] : IsPut(h, l)' => l = k
               /\ c.acked = None /\ \A j \in DOMAIN outbox[h] : ~IsAck(h, j)
    BY <1>0, <1>1, <1>5, <2>2 DEF HandlerInv, ClientInv
  <2>3. Active(h) => c.u = job[h].u
    BY <1>0 DEF HandlerInv, ClientInv
  <2> QED BY <1>1, <1>2, <1>5, <2>1, <2>2, <2>3 DEF ClientInv
<1>10. AckInv(h)'
  <2>1. \A j \in DOMAIN outbox[h] : IsAck(h, j) => h \notin v2 /\ outbox[h][j].off # size
    <3>1. ASSUME NEW j \in DOMAIN outbox[h], IsAck(h, j), h \in v2 \/ outbox[h][j].off = size
          PROVE  c.sent > size
      BY <1>0, <1>1, <3>1 DEF HandlerInv, AckInv
    <3> QED BY <1>1, <1>2, <3>1
  <2>2. h \notin v2 =>
          /\ \A j \in DOMAIN outbox[h] : IsAck(h, j) => outbox[h][j].off # None
          /\ pc[h] \notin {"create", "firstAck"}
    BY <1>0, <1>1 DEF HandlerInv, AckInv
  <2> QED BY <1>1, <1>2, <1>5, <2>1, <2>2 DEF AckInv
<1>11. HandlerInv(h)'
  BY <1>6, <1>8, <1>9, <1>10 DEF HandlerInv
<1>12. Ids' /\ FileInv'
  BY <1>0, <1>1, <1>2, IdsKeep, FileKeeps DEF Ids
<1>13. Grows
  BY <1>0, <1>1 DEF Grows, TypeOK
<1> QED BY <1>0, <1>1, <1>11, <1>12, <1>13, Assemble

\* A client asks for an upload: a new one, when nothing of another is left.
LEMMA PutKeeps == ASSUME IndInv, TypeOK', NEW h \in Handlers, Put(h) PROVE IndInv'
<1> USE NoneAssumption
<1> DEFINE new == Len(uploads) + 1
<1> DEFINE n == Len(inbox[h]) + 1
<1>0. /\ TypeOK /\ HandlerInv(h) /\ FileInv /\ Ids
      /\ \A g \in Handlers \ {h} : Still(g)
  BY OthersStill DEF IndInv
<1>1. /\ UNCHANGED <<v2, commits, target, temp, pc, job, sess, cur, outbox>>
      /\ client[h].st = "idle" /\ client'[h] = [NoClient EXCEPT !.st = "put", !.u = new]
  BY <1>0 DEF Put, rest, config, fileVars, sessVars, taskVars, TypeOK
<1>2. PICK s \in UploadSizes, p \in Places :
        /\ uploads' = Append(uploads, s)
        /\ Send(h, [type |-> "put", u |-> new, place |-> p])
  BY DEF Put, Places
<1>3. /\ Len(uploads) \in Nat /\ Len(uploads) >= 1 /\ Len(uploads') = new /\ new \in Nat
      /\ DOMAIN uploads = 1..Len(uploads)
      /\ \A u \in 1..Len(uploads) : uploads'[u] = uploads[u]
  <2>1. uploads \in Seq(Nat) /\ s \in Nat
    BY <1>0, BoundAssumption DEF TypeOK
  <2>2. Len(uploads) >= 1
    BY <1>0 DEF Ids
  <2> QED BY <1>2, <2>1, <2>2
<1> DEFINE m == [type |-> "put", u |-> new, place |-> p]
<1>4. m \in Message
  BY <1>3 DEF Message
<1>5. /\ n \in Nat /\ n # 0 /\ DOMAIN inbox[h] = 1..(n - 1) /\ DOMAIN inbox'[h] = 1..n
      /\ \A k \in Way(h) : At(h, k)' = At(h, k)
      /\ \A k \in Way(h)' : k \in Way(h) \/ k = n
      /\ inbox'[h][n] = m /\ \A k : k = n => At(h, k)' = m
      /\ \A k \in DOMAIN inbox[h] : inbox'[h][k] = inbox[h][k]
  BY <1>0, <1>1, <1>2, <1>4, Sent
<1>6. /\ client'[h].st = "put" /\ client'[h].u = new
      /\ client'[h].sent = 0 /\ client'[h].acked = None
  BY <1>1 DEF NoClient
<1>7. /\ client[h].u = 0
      /\ \A j \in DOMAIN outbox[h] : ~IsAck(h, j)
  BY <1>0, <1>1 DEF HandlerInv, ClientInv
<1>8. ~Active(h) /\ ~Active(h)'
  <2>1. Active(h) => job[h].u # 0
    BY <1>0 DEF Active, HandlerInv, JobInv, Ids, Receiving, Committing
  <2>2. ~Active(h)
    BY <1>0, <1>7, <2>1 DEF HandlerInv, ClientInv
  <2> QED BY <1>1, <2>2 DEF Active
<1>9. \A k : ~IsChunk(h, k)'
  <2>1. \A k : ~IsChunk(h, k)
    BY <1>0, <1>7 DEF HandlerInv, ChunkInv, IsChunk
  <2> QED BY <1>5, <2>1 DEF IsChunk
<1>10. \A k \in DOMAIN inbox'[h] : IsPut(h, k)' => k = n
  <2>1. \A k \in DOMAIN inbox[h] : ~IsPut(h, k)
    BY <1>0, <1>7 DEF HandlerInv, ClientInv
  <2>2. \A k \in 1..n : k \in 1..(n - 1) \/ k = n
    BY <1>5
  <2> QED BY <1>5, <2>1, <2>2 DEF IsPut
<1>11. job[h].u # new /\ new \notin commits /\ new # 0
  BY <1>0, <1>3 DEF Ids
<1>12. JobInv(h)'
  <2>1. job[h].u # 0 => uploads'[job[h].u] = uploads[job[h].u]
    BY <1>0, <1>3 DEF Ids
  <2>2. pc[h] \in Writing \cup {"batch", "ack"} => job[h].u # 0
    BY <1>0 DEF HandlerInv, JobInv, Receiving, Writing
  <2> QED BY <1>0, <1>1, <2>1, <2>2 DEF HandlerInv, JobInv, Writing
<1>13. SessInv(h)'
  BY <1>0, <1>1 DEF HandlerInv, SessInv
<1>14. ChunkInv(h)'
  BY <1>9 DEF ChunkInv
<1>15. \A j : IsAck(h, j)' = IsAck(h, j)
  BY <1>1 DEF IsAck
<1>16. ClientInv(h)'
  BY <1>1, <1>5, <1>6, <1>7, <1>8, <1>10, <1>11, <1>15 DEF ClientInv
<1>17. AckInv(h)'
  BY <1>1, <1>6, <1>7, <1>8, <1>15 DEF AckInv, Active, Receiving
<1>18. HandlerInv(h)'
  BY <1>12, <1>13, <1>14, <1>16, <1>17 DEF HandlerInv
<1>19. Ids'
  <2>1. \A k : k \in 2..Len(uploads) => k \in 2..new /\ k # new
    BY <1>3
  <2>2. new \in 2..new
    BY <1>3
  <2>3. \A g \in Handlers : job'[g] = job[g] /\ (g # h => client'[g] = client[g])
    BY <1>0, <1>1 DEF Still
  <2>4. /\ Len(uploads') >= 1 /\ commits' \subseteq 2..Len(uploads')
        /\ \A g \in Handlers : /\ client'[g].u \in {0} \cup 2..Len(uploads')
                               /\ job'[g].u \in {0} \cup 2..Len(uploads')
    <3>1. /\ \A k : k \in 2..Len(uploads) => k \in 2..Len(uploads')
          /\ new \in 2..Len(uploads') /\ Len(uploads') >= 1
      BY <1>3, <2>1, <2>2
    <3>2. commits' \subseteq 2..Len(uploads')
      BY <1>0, <1>1, <3>1 DEF Ids
    <3>3. ASSUME NEW g \in Handlers
          PROVE  /\ client'[g].u \in {0} \cup 2..Len(uploads')
                 /\ job'[g].u \in {0} \cup 2..Len(uploads')
      <4>1. /\ client[g].u \in {0} \cup 2..Len(uploads)
            /\ job[g].u \in {0} \cup 2..Len(uploads)
        BY <1>0 DEF Ids
      <4> QED BY <1>6, <2>3, <3>1, <4>1
    <3> QED BY <3>1, <3>2, <3>3
  <2>5. \A g \in Handlers : client[g].u # new /\ job[g].u # new
    BY <1>0, <1>3, <2>1 DEF Ids
  <2>6. ASSUME NEW f \in Handlers, NEW g \in Handlers, f # g
        PROVE  /\ client'[g].u # 0 => client'[g].u # client'[f].u /\ client'[g].u # job'[f].u
               /\ job'[g].u # 0 => job'[g].u # job'[f].u
    BY <1>0, <1>6, <2>3, <2>5, <2>6 DEF Ids
  <2> QED BY <2>4, <2>6 DEF Ids
<1>20. FileInv'
  <2>1. target # None => /\ target.by \in 1..Len(uploads')
                         /\ uploads'[target.by] = uploads[target.by]
    BY <1>0, <1>3 DEF FileInv
  <2> QED BY <1>0, <1>1, <2>1 DEF FileInv, Content
<1>21. Grows
  BY <1>0, <1>1, <1>3 DEF Grows, TypeOK
<1> QED BY <1>0, <1>1, <1>18, <1>19, <1>20, <1>21, Assemble

\* At the start nobody has an upload and nothing is on its way.
LEMMA InitInv == ASSUME Init PROVE IndInv
<1> USE NoneAssumption
<1>1. PICK n \in FileSizes, o \in {"put", "other"}, r \in BOOLEAN :
        /\ uploads = <<n>>
        /\ target \in {None, [data |-> [k \in 1..n |-> <<1, k>>], by |-> 1,
                              owner |-> o, regular |-> r]}
  BY DEF Init
<1>2. /\ n \in Nat /\ uploads \in Seq(Nat) /\ Len(uploads) = 1 /\ uploads[1] = n
  BY <1>1, BoundAssumption
<1>3. /\ [k \in 1..n |-> <<1, k>>] \in Seq(Nat \X Nat)
      /\ [k \in 1..n |-> <<1, k>>] = Content(1)
  BY <1>2 DEF Content
<1>4. target # None => target \in File /\ target.by = 1 /\ target.data = Content(1)
  <2>1. \A d \in Seq(Nat \X Nat) :
          LET f == [data |-> d, by |-> 1, owner |-> o, regular |-> r]
          IN f \in File /\ f.by = 1 /\ f.data = d
    BY DEF File
  <2>2. target # None => target = [data |-> Content(1), by |-> 1, owner |-> o, regular |-> r]
    BY <1>1, <1>3, Zenon
  <2> QED BY <1>3, <2>1, <2>2
<1>5. <<>> \in Seq(Message) /\ NoJob \in Job /\ NoClient \in Peer
  <2>1. <<>> \in Seq(Message)
    OBVIOUS
  <2> QED BY <2>1, NoneTyped
<1>6. requests \in Nat /\ faults \in Nat
  BY BoundAssumption DEF Init
<1>7. TypeOK
  <2>1. /\ limits \in LimitChoices /\ v2 \subseteq Handlers /\ uploads \in Seq(Nat)
        /\ target \in File \cup {None} /\ temp \in [Handlers -> Seq(Nat \X Nat) \cup {None}]
        /\ leftover \subseteq Handlers /\ commits \subseteq Nat
        /\ counted \subseteq Directions /\ over \subseteq Directions
    BY <1>2, <1>4 DEF Init
  <2>2. /\ client \in [Handlers -> Peer] /\ job \in [Handlers -> Job]
        /\ inbox \in [Handlers -> Seq(Message)] /\ outbox \in [Handlers -> Seq(Message)]
    BY <1>5 DEF Init
  <2>3. /\ sess \in [Handlers -> {"serve", "handoff", "closed"}]
        /\ cur \in [Handlers -> Message \cup {None}] /\ pc \in [Handlers -> Stages]
        /\ failed \in BOOLEAN
    BY DEF Init, Stages
  <2> QED BY <1>6, <2>1, <2>2, <2>3 DEF TypeOK
<1>8. ASSUME NEW h \in Handlers PROVE HandlerInv(h)
  <2>1. /\ client[h] = NoClient /\ inbox[h] = <<>> /\ outbox[h] = <<>> /\ cur[h] = None
        /\ sess[h] \in {"serve", "closed"} /\ pc[h] = "idle" /\ job[h] = NoJob
        /\ temp[h] = None
    BY DEF Init
  <2>2. /\ Way(h) = {0} /\ At(h, 0) = None /\ DOMAIN inbox[h] = {} /\ DOMAIN outbox[h] = {}
    BY <2>1 DEF Way, At
  <2>3. \A k : ~IsChunk(h, k) /\ ~IsPut(h, k) /\ ~IsAck(h, k)
    BY <2>2 DEF IsChunk, IsPut, IsAck
  <2>4. JobInv(h) /\ SessInv(h)
    BY <2>1 DEF JobInv, SessInv, Receiving, Writing, Committing
  <2>5. ChunkInv(h)
    BY <2>3 DEF ChunkInv
  <2>6. ClientInv(h) /\ AckInv(h)
    BY <2>1, <2>3 DEF ClientInv, AckInv, NoClient, Active, Receiving, Committing
  <2> QED BY <2>4, <2>5, <2>6 DEF HandlerInv
<1>9. Ids
  BY <1>2 DEF Init, Ids, NoClient, NoJob
<1>10. FileInv
  BY <1>2, <1>4 DEF Init, FileInv
<1> QED BY <1>7, <1>8, <1>9, <1>10 DEF IndInv

\* A step that changes nothing changes nothing of this.
LEMMA StutterKeeps == ASSUME IndInv, UNCHANGED vars PROVE IndInv'
<1>1. TypeOK'
  BY DEF IndInv, TypeOK, vars
<1>2. Grows /\ \A g \in Handlers : Still(g)
  BY DEF Grows, Still, IndInv, TypeOK, vars
<1>3. ASSUME NEW g \in Handlers PROVE HandlerInv(g)'
  BY <1>2, StillKeeps DEF IndInv, vars
<1>4. Ids' /\ FileInv'
  BY DEF IndInv, Ids, FileInv, Content, vars
<1> QED BY <1>1, <1>3, <1>4 DEF IndInv

\* Every step keeps the invariant.
LEMMA NextInv == ASSUME IndInv, [Next]_vars PROVE IndInv'
<1>1. CASE UNCHANGED vars
  BY <1>1, StutterKeeps
<1>2. CASE Next
  <2>1. TypeOK'
    BY <1>2, TypeStep
  <2>2. CASE UpdateCounters
    BY <2>1, <2>2, CountersKeep
  <2>3. ASSUME NEW h \in Handlers, Session(h) \/ Close(h) PROVE IndInv'
    BY <2>1, <2>3, BeginKeeps, SessionKeeps DEF Session
  <2>4. ASSUME NEW h \in Handlers, Upload(h) \/ Download(h) PROVE IndInv'
    BY <2>1, <2>4, UploadKeeps, DownloadKeeps
  <2>5. ASSUME NEW h \in Handlers,
               Client(h) \/ Put(h) \/ Get(h) \/ GiveUp(h) \/ Stray(h) \/ Vanish(h)
        PROVE  IndInv'
    BY <2>1, <2>5, SendChunkKeeps, ReceiveKeeps, PutKeeps, AsideKeeps DEF Client
  <2> QED BY <1>2, <2>2, <2>3, <2>4, <2>5 DEF Next
<1> QED BY <1>1, <1>2

\* The invariant holds in every state of every behaviour.
THEOREM Invariance == Spec => []IndInv
BY InitInv, NextInv, PTL DEF Spec

\* Every variable keeps its type; in particular no blank offset of a message ever
\* becomes the offset of a transfer (waitAck, writeChunk).
THEOREM TypeCorrect == Spec => []TypeOK
<1>1. IndInv => TypeOK
  BY DEF IndInv
<1> QED BY <1>1, Invariance, PTL

\* Whatever ends an upload removes its temporary file (the deferred Remove of
\* FileUploadHandler, and Rename).
THEOREM TempRemovedHolds == Spec => []TempRemoved
<1>1. IndInv => TempRemoved
  BY DEF IndInv, HandlerInv, JobInv, TempRemoved, Writing
<1> QED BY <1>1, Invariance, PTL

\* The file is one upload, whole (writeFile, Rename).
THEOREM TargetIsWholeHolds == Spec => []TargetIsWhole
<1>1. IndInv => TargetIsWhole
  BY DEF IndInv, FileInv, TargetIsWhole
<1> QED BY <1>1, Invariance, PTL

\* A client of version 2 is told that its upload is done when it is, and not
\* before (FileUploadHandler: the final acknowledgement follows Rename).
THEOREM FinalAckIsTrueHolds == Spec => []FinalAckIsTrue
<1>1. ASSUME IndInv PROVE FinalAckIsTrue
  <2> SUFFICES ASSUME NEW h \in v2, client[h].st = "put",
                      NEW k \in DOMAIN outbox[h], outbox[h][k].type = "ack"
               PROVE  client[h].u \in commits
    BY DEF FinalAckIsTrue
  <2>1. h \in Handlers /\ IsAck(h, k)
    BY <1>1 DEF IndInv, TypeOK, IsAck
  <2> QED BY <1>1, <2>1 DEF IndInv, HandlerInv, AckInv
<1> QED BY <1>1, Invariance, PTL

-----------------------------------------------------------------------------
\* The file of the transfers starts as one of AtomicFile.
LEMMA AtomicInit == Init => Atomic!Init
<1> SUFFICES ASSUME Init PROVE Atomic!Init
  OBVIOUS
<1>1. PICK n \in FileSizes, o \in {"put", "other"}, r \in BOOLEAN :
        /\ uploads = <<n>>
        /\ target \in {None, [data |-> [k \in 1..n |-> <<1, k>>], by |-> 1,
                              owner |-> o, regular |-> r]}
  BY DEF Init
<1>2. uploads[1] = n /\ commits = {}
  BY <1>1 DEF Init
<1>3. target # None => target.data = [k \in 1..uploads[1] |-> <<1, k>>]
  <2>1. \A d : [data |-> d, by |-> 1, owner |-> o, regular |-> r].data = d
    OBVIOUS
  <2> QED BY <1>1, <1>2, <2>1, Zenon
<1> QED BY <1>1, <1>2, <1>3 DEF Atomic!Init, Atomic!Whole

\* A step that writes no content changes nothing of it.
LEMMA AtomicStutter ==
  ASSUME TypeOK, TypeOK', UNCHANGED <<uploads, commits>>,
         \/ target' = target
         \/ target # None /\ \E o : target' = [target EXCEPT !.owner = o] /\ target' # None
  PROVE  UNCHANGED Atomic!fileVars
<1>1. CASE target' = target
  BY <1>1 DEF Atomic!fileVars
<1>2. CASE target # None /\ \E o : target' = [target EXCEPT !.owner = o] /\ target' # None
  <2>1. target'.data = target.data /\ target' # None
    BY <1>2 DEF TypeOK, File
  <2> QED BY <1>2, <2>1 DEF Atomic!fileVars
<1> QED BY <1>1, <1>2

\* Rename commits an upload; its failure changes nothing of the file.
LEMMA AtomicRename ==
  ASSUME IndInv, NEW h \in Handlers, Rename(h)
  PROVE  Atomic!Commit \/ UNCHANGED Atomic!fileVars
<1>0. TypeOK /\ HandlerInv(h) /\ Ids
  BY DEF IndInv
<1>1. uploads' = uploads /\ pc[h] = "rename"
  BY DEF Rename, peerVars
<1>2. CASE Fail(h, TRUE)
  BY <1>1, <1>2 DEF Fail, Leave, Atomic!fileVars
<1>3. CASE ~Fail(h, TRUE)
  <2>1. /\ target' = [data |-> temp[h], by |-> job[h].u, owner |-> h, regular |-> TRUE]
        /\ commits' = commits \cup {job[h].u}
    BY <1>3 DEF Rename
  <2>2. /\ temp[h] = Content(job[h].u)
        /\ job[h].u \in 2..Len(uploads) /\ job[h].u \notin commits
    BY <1>0, <1>1, RenameWhole
  <2>3. target' # None
    <3>1. temp[h] \in Seq(Nat \X Nat)
      BY <1>0, <1>1 DEF HandlerInv, JobInv, Writing, TypeOK
    <3>2. job[h].u \in Nat
      BY <2>2
    <3>3. target' \in File
      BY <2>1, <3>1, <3>2 DEF File
    <3> QED BY <3>3, NoneIsNothing
  <2>4. target'.data = temp[h]
    BY <2>1
  <2> QED BY <1>1, <2>1, <2>2, <2>3, <2>4 DEF Atomic!Commit, Atomic!Whole, Content
<1> QED BY <1>2, <1>3

\* Every other step asks for an upload or leaves the content of the file alone.
LEMMA AtomicNext ==
  ASSUME IndInv, IndInv', [Next]_vars
  PROVE  [Atomic!Next]_(Atomic!fileVars)
<1> USE DEF config, fileVars, rateVars, peerVars, sessVars, taskVars, faultVars, rest
<1>0. TypeOK /\ TypeOK'
  BY DEF IndInv
<1>1. CASE UNCHANGED vars
  BY <1>1 DEF vars, Atomic!fileVars
<1>2. CASE UpdateCounters
  BY <1>2 DEF UpdateCounters, Atomic!fileVars
<1>3. ASSUME NEW h \in Handlers, Session(h) \/ Close(h) PROVE UNCHANGED Atomic!fileVars
  BY <1>3 DEF Session, Close, TimeOut, Interrupt, EndSession, BeginUpload, RefuseUpload,
              BeginDownload, RefuseDownload, Answer, OfferMessage, NoTransferInProgress,
              Atomic!fileVars
<1>4. ASSUME NEW h \in Handlers, Download(h) PROVE UNCHANGED Atomic!fileVars
  BY <1>4 DEF Download, CopyChunk, CopyEnds, TakeAck, RejectAck, SendEof, Fail, Leave,
              Atomic!fileVars
<1>5. ASSUME NEW h \in Handlers, Upload(h), ~Rename(h) PROVE UNCHANGED Atomic!fileVars
  <2>1. UNCHANGED <<uploads, commits>>
    BY <1>5, UploadFrame DEF Upload, CreateFile, FirstAck, WriteChunk, EndOfFile, RejectChunk,
           ChannelClosed, BatchEnds, SendAck, Preserve, FinalAck, Release, Fail, Leave, AfterChunk
  <2>2. CASE target' = target
    BY <1>0, <2>1, <2>2, AtomicStutter
  <2>3. CASE target' # target
    <3>1. pc[h] = "preserve" /\ \E o : target' = [target EXCEPT !.owner = o]
      BY <1>5, <2>3 DEF Upload, CreateFile, FirstAck, WriteChunk, EndOfFile, RejectChunk,
           ChannelClosed, BatchEnds, SendAck, Preserve, FinalAck, Release, Fail, Leave, AfterChunk
    <3>2. target # None /\ target' # None
      BY <2>1, <3>1 DEF IndInv, HandlerInv, JobInv, FileInv
    <3> QED BY <1>0, <2>1, <3>1, <3>2, AtomicStutter
  <2> QED BY <2>2, <2>3
<1>6. ASSUME NEW h \in Handlers, Put(h) PROVE Atomic!Ask
  BY <1>6 DEF Put, Atomic!Ask
<1>7. ASSUME NEW h \in Handlers, Client(h) \/ Get(h) \/ GiveUp(h) \/ Stray(h) \/ Vanish(h)
      PROVE  UNCHANGED Atomic!fileVars
  BY <1>7 DEF Client, SendChunk, Receive, Get, GiveUp, Stray, Vanish, Atomic!fileVars
<1> QED BY <1>1, <1>2, <1>3, <1>4, <1>5, <1>6, <1>7, AtomicRename DEF Next, Atomic!Next

\* File transfer implements AtomicFile: whatever clients and sessions do and
\* whatever fails, the file is only ever replaced by a whole upload, at once and
\* once per upload (FileUploadHandler).
THEOREM ImplementsAtomicFile == Spec => FileIsAtomic
BY AtomicInit, AtomicNext, Invariance, PTL DEF Spec, FileIsAtomic, Atomic!Spec

=============================================================================
