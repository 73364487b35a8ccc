-------------------------- MODULE FileAnswerProofs --------------------------
(***************************************************************************)
(* What a client may conclude from the last acknowledgement of its upload, *)
(* for any handlers, windows, sizes and bounds, and that it never waits    *)
(* for a transfer that waits for it.  Version 2 acknowledges after the     *)
(* commit; version 1 does with the EOF, and the first argument is about    *)
(* what can still happen to the upload while that message is on its way.   *)
(* The second one says of each transfer how far it has come, and where the *)
(* message is that will take it further.                                   *)
(***************************************************************************)
EXTENDS FileTransferProofs

\* The acknowledgement of everything the client has sent.
Final(h, j) == IsAck(h, j) /\ outbox[h][j].off = uploads[client[h].u]

\* While one of version 1 is on its way the upload is committed, about to be, or
\* followed by an error.
SettledInv(h) ==
    client[h].st = "put" /\ h \notin v2 /\ client[h].acked # None =>
        \A j \in DOMAIN outbox[h] :
            Final(h, j) => client[h].u \in commits \/ Unsettled(h, client[h].u)

AnswerInv == \A h \in Handlers : SettledInv(h)

\* The step that takes upload u of h for done.
Settles(h) ==
    client[h].st = "put" /\ client'[h].st = "idle"
      => client[h].u \in commits \/ (h \notin v2 /\ Unsettled(h, client[h].u))

-----------------------------------------------------------------------------
\* What is written for a client that is there comes after what is on its way.
LEMMA Appended ==
  ASSUME TypeOK, NEW h \in Handlers, NEW m \in Message, Write(h, m), client[h].st # "gone"
  PROVE  /\ \A j \in DOMAIN outbox[h] : j \in DOMAIN outbox'[h] /\ outbox'[h][j] = outbox[h][j]
         /\ \E j \in DOMAIN outbox'[h] : outbox'[h][j] = m
<1>1. outbox[h] \in Seq(Message) /\ outbox'[h] = Append(outbox[h], m)
  BY DEF Write, TypeOK
<1> DEFINE n == Len(outbox[h])
<1>2. /\ n \in Nat /\ DOMAIN outbox[h] = 1..n /\ DOMAIN outbox'[h] = 1..(n + 1)
      /\ \A j \in 1..n : outbox'[h][j] = outbox[h][j]
      /\ outbox'[h][n + 1] = m
  BY <1>1
<1>3. n + 1 \in 1..(n + 1) /\ \A j \in 1..n : j \in 1..(n + 1)
  BY <1>2
<1> QED BY <1>2, <1>3

\* A step that adds no acknowledgement, and does not leave an upload that is to be
\* renamed without a commit or an error.
LEMMA QuietSettled ==
  ASSUME TypeOK, NEW h \in Handlers, SettledInv(h), UNCHANGED <<v2, uploads>>,
         client'[h].st = "put" => /\ client[h].st = "put" /\ client'[h].u = client[h].u
                                  /\ client'[h].acked = client[h].acked,
         commits \subseteq commits',
         \/ outbox'[h] = outbox[h]
         \/ \E m \in Message : Write(h, m) /\ m.type # "ack",
         pc[h] = "rename" => \/ pc'[h] = "rename" /\ job'[h].u = job[h].u
                             \/ job[h].u \in commits'
                             \/ Write(h, ErrorMsg)
  PROVE  SettledInv(h)'
<1> DEFINE u == client[h].u
<1> SUFFICES ASSUME client'[h].st = "put", h \notin v2, client'[h].acked # None,
                    NEW j \in DOMAIN outbox'[h], Final(h, j)'
             PROVE  client'[h].u \in commits' \/ Unsettled(h, client[h].u)'
  BY DEF SettledInv
<1>1. client[h].st = "put" /\ client[h].acked # None /\ client'[h].u = u
  OBVIOUS
<1>2. OutKeeps(h)
  BY Answers
<1>3. j \in DOMAIN outbox[h] /\ Final(h, j)
  BY <1>1, <1>2 DEF OutKeeps, Final, IsAck
<1>4. u \in commits \/ Unsettled(h, u)
  BY <1>1, <1>3 DEF SettledInv
<1>5. \A k \in DOMAIN outbox[h] : k \in DOMAIN outbox'[h] /\ outbox'[h][k] = outbox[h][k]
  BY <1>1, Appended
<1>6. ASSUME NEW k \in DOMAIN outbox[h], outbox[h][k].type = "error"
      PROVE  Unsettled(h, client[h].u)'
  BY <1>5, <1>6 DEF Unsettled
<1>7. ASSUME pc[h] = "rename", job[h].u = u
      PROVE  client'[h].u \in commits' \/ Unsettled(h, client[h].u)'
  <2>1. Write(h, ErrorMsg) => Unsettled(h, client[h].u)'
    BY <1>1, Appended, Messages DEF Unsettled, ErrorMsg
  <2> QED BY <1>1, <1>7, <2>1 DEF Unsettled
<1> QED BY <1>1, <1>4, <1>6, <1>7 DEF Unsettled

\* No upload of this client is acknowledged yet, or it has none.
LEMMA NoAnswer ==
  ASSUME NEW h \in Handlers,
         client'[h].st = "put" /\ h \notin v2' => client'[h].acked = None
  PROVE  SettledInv(h)'
BY DEF SettledInv

-----------------------------------------------------------------------------
\* The steps of the session goroutine.
LEMMA SessionSettled ==
  ASSUME IndInv, NEW h \in Handlers, SettledInv(h), Session(h) \/ Close(h)
  PROVE  SettledInv(h)'
<1> USE DEF config, fileVars, rateVars, peerVars, sessVars, taskVars, faultVars
<1>0. TypeOK /\ HandlerInv(h)
  BY DEF IndInv
<1>1. UNCHANGED <<v2, uploads, commits, client>>
  BY DEF Session, BeginUpload, RefuseUpload, BeginDownload, RefuseDownload, Answer,
         OfferMessage, NoTransferInProgress, Close, TimeOut, Interrupt, EndSession
<1>2. CASE BeginUpload(h)
  <2>1. inbox[h] \in Seq(Message) /\ inbox[h] # <<>> /\ Head(inbox[h]).type = "put"
    BY <1>0, <1>2 DEF BeginUpload, Take, TypeOK
  <2>2. IsPut(h, 1)
    BY <2>1 DEF IsPut
  <2>3. client[h].st = "put" => client[h].acked = None
    BY <1>0, <2>2 DEF HandlerInv, ClientInv, IsPut
  <2> QED BY <1>1, <2>3, NoAnswer
<1>3. CASE ~BeginUpload(h)
  <2>1. \/ outbox' = outbox
        \/ Write(h, ErrorMsg) \/ Write(h, InfoMsg)
    BY <1>3 DEF Session, RefuseUpload, BeginDownload, RefuseDownload, Answer, OfferMessage,
                NoTransferInProgress, Close, TimeOut, Interrupt, EndSession
  <2>2. outbox'[h] = outbox[h] \/ \E m \in Message : Write(h, m) /\ m.type # "ack"
    BY <2>1, Messages DEF ErrorMsg, InfoMsg
  <2>3. pc[h] = "rename" => UNCHANGED <<pc, job>>
    BY <1>3 DEF Session, RefuseUpload, BeginDownload, RefuseDownload, Answer, OfferMessage,
                NoTransferInProgress, Close, TimeOut, Interrupt, EndSession, MayDownload
  <2> QED BY <1>0, <1>1, <2>2, <2>3, QuietSettled
<1> QED BY <1>2, <1>3

\* The acknowledgement of version 1.  It is final only when the EOF has come, and
\* then the file is renamed next.
LEMMA SendAckSettled ==
  ASSUME IndInv, TypeOK', NEW h \in Handlers, SendAck(h), ~Leave(h, FALSE)
  PROVE  SettledInv(h)'
<1> USE NoneAssumption
<1> DEFINE last == job[h].last
<1>0. /\ UNCHANGED <<v2, uploads, client>>
      /\ TypeOK /\ HandlerInv(h) /\ Ids
  BY UploadFrame DEF Upload
<1>1. /\ pc[h] = "ack" /\ pc'[h] = IF job[h].done THEN "rename" ELSE "recv"
      /\ Write(h, Ack(last)) /\ job' = [job EXCEPT ![h].n = 0]
  BY <1>0 DEF SendAck, Fail, Goto, TypeOK
<1>2. /\ h \notin v2 /\ job[h].u # 0 /\ Active(h)
      /\ ~job[h].done => last < uploads[job[h].u]
  BY <1>0, <1>1 DEF HandlerInv, JobInv, Receiving, Active
<1>3. client[h].u = job[h].u
  BY <1>0, <1>2 DEF HandlerInv, ClientInv
<1>4. /\ last \in Nat /\ uploads[job[h].u] \in Nat /\ job'[h].u = job[h].u
  <2>1. job[h] \in Job /\ job'[h] = [job[h] EXCEPT !.n = 0]
    BY <1>0, <1>1 DEF TypeOK
  <2>2. last \in Nat /\ job'[h].u = job[h].u
    BY <2>1 DEF Job
  <2>3. uploads[job[h].u] \in Nat
    BY <1>0, <1>2 DEF TypeOK, Ids
  <2> QED BY <2>2, <2>3
<1>5. Ack(last) \in Message /\ Ack(last).off = last /\ Ack(last).type = "ack"
  BY <1>4, Messages DEF Ack
<1> SUFFICES ASSUME client[h].st = "put", client[h].acked # None,
                    NEW j \in DOMAIN outbox'[h], Final(h, j)'
             PROVE  Unsettled(h, client[h].u)'
  BY <1>0 DEF SettledInv
<1>6. outbox'[h][j].off = uploads[client[h].u] /\ outbox'[h][j].type = "ack"
  BY <1>0 DEF Final, IsAck
<1>7. ~(j \in DOMAIN outbox[h] /\ outbox'[h][j] = outbox[h][j])
  BY <1>0, <1>2, <1>6 DEF HandlerInv, AckInv, IsAck
<1>8. outbox'[h][j] = Ack(last)
  BY <1>0, <1>1, <1>5, <1>7, Wrote
<1>9. job[h].done
  BY <1>2, <1>3, <1>4, <1>5, <1>6, <1>8
<1> QED BY <1>0, <1>1, <1>3, <1>4, <1>9 DEF Unsettled

\* A transfer that is left tells the client, unless it has had its answer.
LEMMA LeaveSettled ==
  ASSUME TypeOK, NEW h \in Handlers, SettledInv(h), UNCHANGED <<v2, uploads, client>>,
         NEW tell \in BOOLEAN, Leave(h, tell), pc[h] = "rename" => tell
  PROVE  SettledInv(h)'
<1>1. /\ IF tell THEN Write(h, ErrorMsg) ELSE outbox' = outbox
      /\ commits' = commits
  BY DEF Leave
<1>2. outbox'[h] = outbox[h] \/ \E m \in Message : Write(h, m) /\ m.type # "ack"
  BY <1>1, Messages DEF ErrorMsg
<1> QED BY <1>1, <1>2, QuietSettled

\* The steps of an upload.
LEMMA UploadSettled ==
  ASSUME IndInv, TypeOK', NEW h \in Handlers, SettledInv(h), Upload(h)
  PROVE  SettledInv(h)'
<1> USE DEF config, fileVars, rateVars, peerVars, sessVars, taskVars, faultVars
<1>0. /\ UNCHANGED <<v2, uploads, client>>
      /\ TypeOK /\ HandlerInv(h) /\ Ids
  BY UploadFrame
<1>1. CASE pc[h] \in {"create", "firstAck"}
  <2>1. client[h].st = "put" /\ h \notin v2 => client[h].acked = None
    BY <1>0, <1>1 DEF HandlerInv, AckInv
  <2> QED BY <1>0, <2>1, NoAnswer
<1>2. CASE WriteChunk(h) \/ EndOfFile(h) \/ BatchEnds(h) \/ Release(h)
  <2>1. CASE WriteChunk(h) /\ Leave(h, TRUE)
    BY <1>0, <2>1, LeaveSettled
  <2>2. CASE ~(WriteChunk(h) /\ Leave(h, TRUE))
    <3>1. UNCHANGED <<outbox, commits>> /\ pc[h] # "rename"
      BY <1>2, <2>2 DEF WriteChunk, EndOfFile, BatchEnds, Release, Receives, Fail
    <3> QED BY <1>0, <3>1, QuietSettled
  <2> QED BY <2>1, <2>2
<1>3. CASE RejectChunk(h) \/ ChannelClosed(h)
  <2>1. pc[h] # "rename" /\ \E tell \in BOOLEAN : Leave(h, tell)
    BY <1>3 DEF RejectChunk, ChannelClosed, Receives
  <2> QED BY <1>0, <2>1, LeaveSettled
<1>4. CASE SendAck(h)
  <2>1. CASE Leave(h, FALSE)
    <3>1. pc[h] # "rename"
      BY <1>4 DEF SendAck
    <3> QED BY <1>0, <2>1, <3>1, LeaveSettled
  <2> QED BY <1>4, <2>1, SendAckSettled
<1>5. CASE Rename(h)
  <2>1. CASE Leave(h, TRUE)
    BY <1>0, <2>1, LeaveSettled
  <2>2. CASE ~Leave(h, TRUE)
    <3>1. commits' = commits \cup {job[h].u} /\ outbox' = outbox
      BY <1>5, <2>2 DEF Rename, Fail
    <3> QED BY <1>0, <3>1, QuietSettled
  <2> QED BY <2>1, <2>2
<1>6. CASE Preserve(h) \/ FinalAck(h)
  <2>1. CASE Leave(h, TRUE)
    BY <1>0, <2>1, LeaveSettled
  <2>2. CASE FinalAck(h)
    <3>1. h \in v2
      BY <1>0, <2>2 DEF HandlerInv, JobInv, FinalAck
    <3> QED BY <1>0, <3>1, NoAnswer
  <2>3. CASE Preserve(h) /\ ~Leave(h, TRUE)
    <3>1. UNCHANGED <<outbox, commits>> /\ pc[h] # "rename"
      BY <2>3 DEF Preserve, Fail
    <3> QED BY <1>0, <3>1, QuietSettled
  <2> QED BY <1>6, <2>1, <2>2, <2>3
<1>7. CreateFile(h) \/ FirstAck(h) => pc[h] \in {"create", "firstAck"}
  BY DEF CreateFile, FirstAck
<1> QED BY <1>1, <1>2, <1>3, <1>4, <1>5, <1>6, <1>7 DEF Upload

\* The steps of a download.
LEMMA DownloadSettled ==
  ASSUME IndInv, NEW h \in Handlers, SettledInv(h), Download(h)
  PROVE  SettledInv(h)'
<1> USE DEF config, fileVars, rateVars, peerVars, sessVars, taskVars, faultVars
<1>0. TypeOK
  BY DEF IndInv
<1>1. /\ UNCHANGED <<v2, uploads, commits, client>>
      /\ pc[h] \in {"copy", "wait", "lastAck", "eof"}
  BY DEF Download, CopyChunk, CopyEnds, TakeAck, RejectAck, SendEof, Fail, Leave
<1>2. CASE \E tell \in BOOLEAN : Leave(h, tell)
  BY <1>0, <1>1, <1>2, LeaveSettled
<1>3. CASE ~\E tell \in BOOLEAN : Leave(h, tell)
  <2>0. ~Leave(h, TRUE) /\ ~Leave(h, FALSE)
    BY <1>3
  <2>1. CASE outbox' = outbox
    BY <1>0, <1>1, <2>1, QuietSettled
  <2>2. CASE CopyChunk(h)
    <3>1. /\ Write(h, Chunk(job[h].off, job[h].data[job[h].off + 1]))
          /\ job[h].off < Len(job[h].data)
      BY <2>0, <2>2 DEF CopyChunk, Fail
    <3>2. job[h].off \in Nat /\ job[h].data \in Seq(Nat \X Nat)
      BY <1>0 DEF TypeOK, Job
    <3>3. job[h].data[job[h].off + 1] \in Pieces
      BY <3>1, <3>2 DEF Pieces
    <3> DEFINE m == Chunk(job[h].off, job[h].data[job[h].off + 1])
    <3>4. m \in Message
      BY <3>2, <3>3, Messages
    <3>5. m.type # "ack" /\ Write(h, m)
      BY <3>1 DEF Chunk
    <3> HIDE DEF m
    <3> QED BY <1>0, <1>1, <3>4, <3>5, QuietSettled
  <2>3. CASE SendEof(h)
    <3>1. Write(h, Chunk(job[h].off, None)) /\ None \in Pieces
      BY <2>0, <2>3 DEF SendEof, Fail, Pieces
    <3>2. job[h].off \in Nat
      BY <1>0 DEF TypeOK, Job
    <3> DEFINE m == Chunk(job[h].off, None)
    <3>3. m \in Message
      BY <3>1, <3>2, Messages
    <3>4. m.type # "ack" /\ Write(h, m)
      BY <3>1 DEF Chunk
    <3> HIDE DEF m
    <3> QED BY <1>0, <1>1, <3>3, <3>4, QuietSettled
  <2>4. CopyChunk(h) \/ SendEof(h) \/ outbox' = outbox
    BY <2>0 DEF Download, CopyEnds, TakeAck, RejectAck
  <2> QED BY <2>1, <2>2, <2>3, <2>4
<1> QED BY <1>2, <1>3

-----------------------------------------------------------------------------
\* The client takes a message that is no error; the error that may follow stays.
LEMMA TailSettled ==
  ASSUME TypeOK, NEW h \in Handlers, SettledInv(h),
         UNCHANGED <<v2, uploads, commits, pc, job>>,
         outbox[h] # <<>>, outbox'[h] = Tail(outbox[h]), Head(outbox[h]).type # "error",
         client'[h].st = "put" /\ h \notin v2 /\ client'[h].acked # None =>
             \/ /\ client[h].st = "put" /\ client'[h].u = client[h].u
                /\ client[h].acked # None
             \/ \A j \in DOMAIN outbox'[h] : ~IsAck(h, j)'
  PROVE  SettledInv(h)'
<1> DEFINE u == client[h].u
<1>1. /\ \A j \in DOMAIN outbox'[h] : j + 1 \in DOMAIN outbox[h]
                                      /\ outbox'[h][j] = outbox[h][j + 1]
      /\ \A k \in DOMAIN outbox[h] : outbox[h][k].type = "error" =>
           \E j \in DOMAIN outbox'[h] : outbox'[h][j].type = "error"
  <2>1. outbox[h] \in Seq(Message)
    BY DEF TypeOK
  <2>2. \A j \in DOMAIN outbox'[h] : j + 1 \in DOMAIN outbox[h]
                                     /\ outbox'[h][j] = outbox[h][j + 1]
    BY <2>1
  <2>3. ASSUME NEW k \in DOMAIN outbox[h], outbox[h][k].type = "error"
        PROVE  \E j \in DOMAIN outbox'[h] : outbox'[h][j].type = "error"
    <3>1. k # 1 /\ k \in Nat /\ k \in 1..Len(outbox[h])
      BY <2>1, <2>3
    <3>2. k - 1 \in DOMAIN outbox'[h] /\ outbox'[h][k - 1] = outbox[h][k]
      BY <2>1, <3>1
    <3> QED BY <2>3, <3>2
  <2> QED BY <2>2, <2>3
<1> SUFFICES ASSUME client'[h].st = "put", h \notin v2, client'[h].acked # None,
                    NEW j \in DOMAIN outbox'[h], Final(h, j)'
             PROVE  client'[h].u \in commits' \/ Unsettled(h, client[h].u)'
  BY DEF SettledInv
<1>2. client[h].st = "put" /\ client'[h].u = u /\ client[h].acked # None
  BY DEF Final
<1>3. j + 1 \in DOMAIN outbox[h] /\ Final(h, j + 1)
  BY <1>1, <1>2 DEF Final, IsAck
<1>4. u \in commits \/ Unsettled(h, u)
  BY <1>2, <1>3 DEF SettledInv
<1> QED BY <1>1, <1>2, <1>4 DEF Unsettled

\* The client reads what it is sent, and takes its upload for done only then.
LEMMA ReceiveSettled ==
  ASSUME IndInv, NEW h \in Handlers, SettledInv(h), Receive(h)
  PROVE  SettledInv(h)' /\ Settles(h)
<1> USE NoneAssumption
<1> DEFINE c == client[h]
<1> DEFINE m == outbox[h][1]
<1> DEFINE size == uploads[c.u]
<1> DEFINE whole == c.sent > size /\ m.off \in {None, size}
<1>0. TypeOK /\ HandlerInv(h) /\ Ids
  BY DEF IndInv
<1>1. /\ UNCHANGED <<v2, uploads, commits, pc, job>>
      /\ outbox[h] # <<>> /\ outbox[h] \in Seq(Message) /\ outbox'[h] = Tail(outbox[h])
      /\ m = Head(outbox[h]) /\ 1 \in DOMAIN outbox[h]
      /\ client'[h] = After(h, m)
  BY <1>0 DEF Receive, TypeOK, rest, config, fileVars, taskVars
<1>2. CASE c.st # "put"
  <2>1. client'[h].st # "put"
    <3>1. \/ client'[h] = c
          \/ client'[h] = [NoClient EXCEPT !.st = "quit", !.u = c.u]
          \/ c.st = "get" /\ client'[h] \in {NoClient, [c EXCEPT !.got = Append(@, m.data)]}
      BY <1>1, <1>2 DEF After
    <3>2. /\ NoClient.st = "idle"
          /\ [NoClient EXCEPT !.st = "quit", !.u = c.u].st = "quit"
      BY DEF NoClient
    <3>3. [c EXCEPT !.got = Append(@, m.data)].st = c.st
      BY <1>0 DEF TypeOK, Peer
    <3> QED BY <1>2, <3>1, <3>2, <3>3
  <2> QED BY <1>2, <2>1, NoAnswer DEF Settles
<1>3. CASE c.st = "put" /\ m.type = "error"
  <2>1. client'[h] = [NoClient EXCEPT !.st = "quit", !.u = c.u]
    BY <1>1, <1>3 DEF After
  <2>2. client'[h].st = "quit"
    BY <2>1 DEF NoClient
  <2> QED BY <2>2, NoAnswer DEF Settles
<1>4. CASE c.st = "put" /\ m.type \notin {"ack", "error"}
  <2>1. client'[h] = c
    BY <1>1, <1>4 DEF After
  <2>2. SettledInv(h)'
    BY <1>0, <1>1, <1>4, <2>1, TailSettled
  <2> QED BY <1>4, <2>1, <2>2 DEF Settles
<1>5. CASE c.st = "put" /\ m.type = "ack"
  <2>1. client'[h] = IF whole THEN NoClient ELSE [c EXCEPT !.acked = m.off]
    BY <1>1, <1>5 DEF After
  <2>2. IsAck(h, 1)
    BY <1>1, <1>5 DEF IsAck
  <2>3. /\ c \in Peer /\ size \in Nat /\ c.sent \in Nat
    <3>1. c \in Peer /\ c.u # 0
      BY <1>0, <1>5 DEF TypeOK, HandlerInv, ClientInv
    <3>2. size \in Nat
      BY <1>0, <3>1 DEF TypeOK, Ids
    <3> QED BY <3>1, <3>2 DEF Peer
  <2>4. CASE whole
    <3>1. client'[h].st = "idle"
      BY <2>1, <2>4 DEF NoClient
    <3>2. h \in v2 => c.u \in commits
      BY <1>0, <1>1, <1>5, <2>2 DEF HandlerInv, AckInv
    <3>3. h \notin v2 => m.off = size /\ c.acked # None
      <4>1. h \notin v2 => m.off # None /\ (c.acked = None => c.sent = 0)
        BY <1>0, <1>1, <1>5, <2>2 DEF HandlerInv, AckInv
      <4> QED BY <2>3, <2>4, <4>1
    <3>4. h \notin v2 => c.u \in commits \/ Unsettled(h, c.u)
      BY <1>1, <1>5, <2>2, <3>3 DEF SettledInv, Final
    <3> QED BY <3>1, <3>2, <3>4, NoAnswer DEF Settles
  <2>5. CASE ~whole
    <3>1. client'[h].st = "put" /\ client'[h].u = c.u
      BY <1>5, <2>1, <2>3, <2>5 DEF Peer
    <3>2. ASSUME h \notin v2, c.acked = None, NEW j \in DOMAIN outbox'[h]
          PROVE  ~IsAck(h, j)'
      <4>1. /\ j \in Nat \ {0} /\ j + 1 \in DOMAIN outbox[h]
            /\ outbox'[h][j] = outbox[h][j + 1]
        BY <1>1, <3>2
      <4>2. \A i \in DOMAIN outbox[h] : IsAck(h, i) => i = 1
        BY <1>0, <1>1, <1>5, <2>2, <3>2 DEF HandlerInv, AckInv
      <4> QED BY <4>1, <4>2 DEF IsAck
    <3>3. SettledInv(h)'
      BY <1>0, <1>1, <1>5, <3>1, <3>2, TailSettled
    <3> QED BY <3>1, <3>3 DEF Settles
  <2> QED BY <2>4, <2>5
<1> QED BY <1>2, <1>3, <1>4, <1>5

\* The other steps of the client.
LEMMA ClientSettled ==
  ASSUME IndInv, NEW h \in Handlers, SettledInv(h),
         SendChunk(h) \/ Put(h) \/ Get(h) \/ GiveUp(h) \/ Stray(h) \/ Vanish(h)
  PROVE  SettledInv(h)' /\ Settles(h)
<1> USE DEF config, fileVars, rateVars, sessVars, taskVars, faultVars, rest
<1>0. TypeOK
  BY DEF IndInv
<1>1. CASE SendChunk(h)
  <2>1. /\ UNCHANGED <<v2, uploads, commits, pc, job, outbox>>
        /\ client' = [client EXCEPT ![h].sent = @ + 1]
    BY <1>1 DEF SendChunk
  <2>2. client'[h].st = client[h].st /\ client'[h].u = client[h].u
        /\ client'[h].acked = client[h].acked
    BY <1>0, <2>1 DEF TypeOK, Peer
  <2>3. SettledInv(h)'
    BY <1>0, <2>1, <2>2, QuietSettled
  <2> QED BY <2>2, <2>3 DEF Settles
<1>2. CASE Stray(h)
  <2>1. UNCHANGED <<v2, uploads, commits, pc, job, outbox, client>>
    BY <1>2 DEF Stray
  <2>2. SettledInv(h)'
    BY <1>0, <2>1, QuietSettled
  <2> QED BY <2>1, <2>2 DEF Settles
<1>3. CASE Put(h)
  <2>1. client'[h] = [NoClient EXCEPT !.st = "put", !.u = Len(uploads) + 1]
    BY <1>0, <1>3 DEF Put, TypeOK
  <2>2. client'[h].st = "put" /\ client'[h].acked = None
    BY <2>1 DEF NoClient
  <2> QED BY <2>2, NoAnswer DEF Settles
<1>4. CASE Get(h) \/ GiveUp(h) \/ Vanish(h)
  <2>1. client'[h] \in {[NoClient EXCEPT !.st = "get"],
                       [NoClient EXCEPT !.st = "quit", !.u = client[h].u],
                       [NoClient EXCEPT !.st = "gone", !.u = client[h].u]}
    BY <1>0, <1>4 DEF Get, GiveUp, Vanish, TypeOK
  <2>2. client'[h].st \in {"get", "quit", "gone"}
    BY <2>1 DEF NoClient
  <2> QED BY <2>2, NoAnswer DEF Settles
<1> QED BY <1>1, <1>2, <1>3, <1>4

\* Uploads are only added, and stay committed.
LEMMA StepGrows ==
  ASSUME IndInv, NEW h \in Handlers,
         \/ Session(h) \/ Close(h) \/ Upload(h) \/ Download(h) \/ Client(h)
         \/ Put(h) \/ Get(h) \/ GiveUp(h) \/ Stray(h) \/ Vanish(h)
  PROVE  commits \subseteq commits' /\ \A u \in 1..Len(uploads) : uploads'[u] = uploads[u]
<1> USE DEF config, fileVars, peerVars, rest
<1>0. uploads \in Seq(Nat)
  BY DEF IndInv, TypeOK
<1>1. CASE Upload(h)
  <2>1. uploads' = uploads
    BY <1>1, UploadFrame
  <2>2. commits \subseteq commits'
    BY <1>1 DEF Upload, CreateFile, FirstAck, WriteChunk, EndOfFile, RejectChunk,
                ChannelClosed, BatchEnds, SendAck, Rename, Preserve, FinalAck, Release,
                Fail, Leave
  <2> QED BY <2>1, <2>2
<1>2. CASE Session(h) \/ Close(h) \/ Download(h)
  BY <1>2 DEF Session, BeginUpload, RefuseUpload, BeginDownload, RefuseDownload, Answer,
              OfferMessage, NoTransferInProgress,
              Close, TimeOut, Interrupt, EndSession, Download, CopyChunk, CopyEnds,
              TakeAck, RejectAck, SendEof, Fail, Leave
<1>3. CASE Client(h) \/ Get(h) \/ GiveUp(h) \/ Stray(h) \/ Vanish(h)
  BY <1>3 DEF Client, SendChunk, Receive, Get, GiveUp, Stray, Vanish
<1>4. CASE Put(h)
  <2>1. commits' = commits /\ \E n \in UploadSizes : uploads' = Append(uploads, n)
    BY <1>4 DEF Put
  <2> QED BY <1>0, <2>1, BoundAssumption
<1> QED BY <1>1, <1>2, <1>3, <1>4

-----------------------------------------------------------------------------
LEMMA InitSettled == ASSUME Init PROVE AnswerInv
BY DEF Init, AnswerInv, SettledInv, NoClient

\* Every step keeps the invariant, and settles what it takes for done.
LEMMA NextSettled ==
  ASSUME IndInv, IndInv', AnswerInv, [Next]_vars
  PROVE  AnswerInv' /\ \A h \in Handlers : Settles(h)
<1>0. TypeOK /\ TypeOK' /\ Ids
  BY DEF IndInv
<1>1. CASE UNCHANGED vars \/ UpdateCounters
  <2>1. UNCHANGED <<v2, uploads, commits, client, outbox, pc, job>>
    BY <1>1 DEF vars, UpdateCounters, config, fileVars, peerVars, taskVars
  <2> QED BY <2>1 DEF AnswerInv, SettledInv, Final, IsAck, Unsettled, Settles
<1>2. ASSUME NEW h \in Handlers,
             \/ Session(h) \/ Close(h) \/ Upload(h) \/ Download(h) \/ Client(h)
             \/ Put(h) \/ Get(h) \/ GiveUp(h) \/ Stray(h) \/ Vanish(h)
      PROVE  AnswerInv' /\ \A g \in Handlers : Settles(g)
  <2>1. SettledInv(h)
    BY DEF AnswerInv
  <2>2. SettledInv(h)' /\ Settles(h)
    <3>1. CASE Session(h) \/ Close(h) \/ Upload(h) \/ Download(h)
      <4>1. SettledInv(h)'
        BY <1>0, <2>1, <3>1, SessionSettled, UploadSettled, DownloadSettled
      <4>2. client' = client
        <5>1. Upload(h) => client' = client
          BY UploadFrame
        <5>2. Session(h) \/ Close(h) \/ Download(h) => client' = client
          BY DEF Session, BeginUpload, RefuseUpload, BeginDownload, RefuseDownload, Answer,
                 OfferMessage, NoTransferInProgress,
                 Close, TimeOut, Interrupt, EndSession, Download, CopyChunk, CopyEnds,
                 TakeAck, RejectAck, SendEof, peerVars
        <5> QED BY <3>1, <5>1, <5>2
      <4> QED BY <4>1, <4>2 DEF Settles
    <3>2. CASE Receive(h)
      BY <2>1, <3>2, ReceiveSettled
    <3>3. CASE SendChunk(h) \/ Put(h) \/ Get(h) \/ GiveUp(h) \/ Stray(h) \/ Vanish(h)
      BY <2>1, <3>3, ClientSettled
    <3> QED BY <1>2, <3>1, <3>2, <3>3 DEF Client
  <2>3. v2' = v2 /\ \A g \in Handlers \ {h} : Still(g)
    BY <1>0, <1>2, OthersStill
  <2>4. commits \subseteq commits' /\ \A u \in 1..Len(uploads) : uploads'[u] = uploads[u]
    BY <1>0, <1>2, StepGrows DEF Grows
  <2>5. ASSUME NEW g \in Handlers, g # h PROVE SettledInv(g)' /\ Settles(g)
    <3>1. UNCHANGED <<client[g], outbox[g], pc[g], job[g]>>
      BY <2>3, <2>5 DEF Still
    <3>2. SettledInv(g)
      BY DEF AnswerInv
    <3>3. client[g].st = "put" => uploads'[client[g].u] = uploads[client[g].u]
      <4>1. client[g].st = "put" => client[g].u \in 2..Len(uploads)
        BY DEF IndInv, HandlerInv, ClientInv, Ids
      <4>2. 2..Len(uploads) \subseteq 1..Len(uploads)
        BY <1>0 DEF TypeOK
      <4> QED BY <2>4, <4>1, <4>2
    <3> QED BY <2>3, <2>4, <3>1, <3>2, <3>3
            DEF SettledInv, Final, IsAck, Unsettled, Settles
  <2> QED BY <2>2, <2>5 DEF AnswerInv
<1> QED BY <1>1, <1>2 DEF Next

THEOREM AnswerInvariance == Spec => []AnswerInv
<1>1. IndInv /\ IndInv' /\ AnswerInv /\ [Next]_vars => AnswerInv'
  BY NextSettled
<1> QED BY <1>1, InitSettled, Invariance, PTL DEF Spec

\* A client takes its upload for done only when it is committed, or, in version 1,
\* about to be and the client told if it is not: version 1 acknowledges the EOF before Rename and
\* answers its failure, version 2 acknowledges after it (FileUploadHandler).
THEOREM DoneIsSettledHolds == Spec => DoneIsSettled
<1>1. ASSUME IndInv, IndInv', AnswerInv, [Next]_vars
      PROVE  [\A h \in Handlers :
                client[h].st = "put" /\ client'[h].st = "idle" =>
                    client[h].u \in commits
                      \/ (h \notin v2 /\ Unsettled(h, client[h].u))]_client
  BY <1>1, NextSettled DEF Settles
<1> QED BY <1>1, Invariance, AnswerInvariance, PTL DEF Spec, DoneIsSettled

-----------------------------------------------------------------------------
(* NoMutualWait: what moves the request of a client as long as nothing     *)
(* fails.                                                                  *)

\* What is said of the progress of a request holds until something fails.
\* The session of a client with a request is open, and it sends no nonsense.
OrderlyInv(h) ==
    /\ client[h].st \in {"put", "get"} => sess[h] # "closed"
    /\ cur[h] # None => cur[h].type \notin {"error", "other"}
    /\ \A k \in DOMAIN inbox[h] : inbox[h][k].type \notin {"error", "other"}

\* How many messages are on their way to the transfer of h.
Coming(h) == Len(inbox[h]) + (IF sess[h] = "handoff" THEN 1 ELSE 0)

\* Something on its way to the client of an upload, or of a download, ends its
\* request.
EndsPut(h, m) == \/ m.type = "error"
                 \/ /\ m.type = "ack" /\ client[h].sent > uploads[client[h].u]
                    /\ m.off \in {None, uploads[client[h].u]}
EndsGet(m) == m.type = "error" \/ (m.type = "chunk" /\ m.data = None)
PutAnswered(h) == \E j \in DOMAIN outbox[h] : EndsPut(h, outbox[h][j])
GetAnswered(h) == \E j \in DOMAIN outbox[h] : EndsGet(outbox[h][j])

\* The request has not been read, and all chunks sent are behind it.
PutAsked(h) == \E k \in DOMAIN inbox[h] : IsPut(h, k) /\ client[h].sent = Len(inbox[h]) - k
GetAsked(h) == \E k \in DOMAIN inbox[h] : inbox[h][k].type = "get"

\* The offset in the acknowledgement of all chunks before off.
Before(off) == IF off = 0 THEN 0 ELSE off - 1

\* An upload has what the client has sent, but for what is on its way; in version 1
\* the last thing the client hears is how far it has come.
PutGoesOn(h) ==
    /\ Active(h)
    /\ client[h].sent = job[h].off + (IF job[h].done THEN 1 ELSE 0) + Coming(h)
    /\ pc[h] \in {"create", "firstAck"} => job[h].off = 0
    /\ pc[h] \in {"batch", "ack"} =>
         job[h].off = job[h].last + (IF job[h].done THEN 0 ELSE 1)
    /\ pc[h] = "recv" /\ h \notin v2 =>
         IF outbox[h] = <<>> THEN client[h].acked = Before(job[h].off)
         ELSE /\ outbox[h][Len(outbox[h])].type = "ack"
              /\ outbox[h][Len(outbox[h])].off = Before(job[h].off)

\* Where the last chunk of a download is: on its way to the client, or its
\* acknowledgement on its way to the transfer, or read.
LastChunk(h, off) ==
    IF outbox[h] # <<>> THEN /\ outbox[h][Len(outbox[h])].type = "chunk"
                             /\ outbox[h][Len(outbox[h])].off = off
    ELSE IF inbox[h] # <<>> THEN /\ inbox[h][Len(inbox[h])].type = "ack"
                                 /\ inbox[h][Len(inbox[h])].off = off
    ELSE IF sess[h] = "handoff" THEN cur[h].type = "ack" /\ cur[h].off = off
    ELSE job[h].ack = off

GetGoesOn(h) ==
    /\ pc[h] \in {"copy", "wait", "eof"}
    /\ h \notin v2 /\ job[h].off > 0 => LastChunk(h, job[h].off - 1)
    /\ pc[h] = "wait" => h \notin v2 /\ job[h].off >= job[h].ack + ACKSlidingWindowRecv

PutMoves(h) == client[h].st = "put" => PutAsked(h) \/ PutAnswered(h) \/ PutGoesOn(h)
GetMoves(h) == client[h].st = "get" => GetAsked(h) \/ GetAnswered(h) \/ GetGoesOn(h)

MovesInv(h) == OrderlyInv(h) /\ PutMoves(h) /\ GetMoves(h)
WaitInv == ~failed => \A h \in Handlers : MovesInv(h)

\* A sequence without its first element, and with one more.
LEMMA Front ==
  ASSUME NEW S, NEW s \in Seq(S), s # <<>>
  PROVE  /\ Len(s) \in Nat \ {0} /\ 1 \in DOMAIN s /\ Head(s) = s[1]
         /\ Len(Tail(s)) = Len(s) - 1
         /\ \A k \in DOMAIN s : k # 1 => /\ k - 1 \in DOMAIN Tail(s) /\ Tail(s)[k - 1] = s[k]
                                         /\ Len(Tail(s)) - (k - 1) = Len(s) - k
         /\ \A k \in DOMAIN Tail(s) : k + 1 \in DOMAIN s /\ Tail(s)[k] = s[k + 1]
         /\ IF Tail(s) = <<>> THEN s[Len(s)] = s[1]
                              ELSE Tail(s)[Len(Tail(s))] = s[Len(s)]
<1>1. /\ Len(s) \in Nat \ {0} /\ 1 \in DOMAIN s /\ Head(s) = s[1]
      /\ Len(Tail(s)) = Len(s) - 1
  OBVIOUS
<1>2. \A k \in DOMAIN Tail(s) : k + 1 \in DOMAIN s /\ Tail(s)[k] = s[k + 1]
  OBVIOUS
<1>3. \A k \in DOMAIN s : k # 1 => /\ k - 1 \in DOMAIN Tail(s) /\ Tail(s)[k - 1] = s[k]
                                   /\ Len(Tail(s)) - (k - 1) = Len(s) - k
  OBVIOUS
<1>4. Tail(s) = <<>> => Len(s) = 1
  <2>1. Tail(s) = <<>> => Len(Tail(s)) = Len(<<>>)
    BY Zenon
  <2>2. Len(<<>>) = 0
    OBVIOUS
  <2> QED BY <1>1, <2>1, <2>2
<1>5. Tail(s) # <<>> => Len(s) \in DOMAIN s /\ Len(s) # 1
  OBVIOUS
<1>6. Tail(s) # <<>> => Tail(s)[Len(Tail(s))] = s[Len(s)]
  BY <1>1, <1>3, <1>5
<1> QED BY <1>1, <1>2, <1>3, <1>4, <1>6

LEMMA Back ==
  ASSUME NEW S, NEW s \in Seq(S), NEW m \in S
  PROVE  /\ Len(s) \in Nat /\ Append(s, m) # <<>>
         /\ Len(Append(s, m)) = Len(s) + 1 /\ Len(s) + 1 \in DOMAIN Append(s, m)
         /\ Append(s, m)[Len(s) + 1] = m
         /\ \A k \in DOMAIN s : k \in Nat /\ k \in DOMAIN Append(s, m) /\ Append(s, m)[k] = s[k]
         /\ \A k \in DOMAIN Append(s, m) : k \in DOMAIN s \/ k = Len(s) + 1
OBVIOUS

\* The client sends no nonsense, and the session only passes on what it sends.
LEMMA StaysOrderly ==
  ASSUME TypeOK, NEW h \in Handlers, OrderlyInv(h),
         client'[h].st \in {"put", "get"} => sess'[h] # "closed",
         \/ cur'[h] \in {cur[h], None}
         \/ inbox[h] # <<>> /\ cur'[h] = Head(inbox[h]),
         \/ inbox'[h] = inbox[h]
         \/ inbox[h] # <<>> /\ inbox'[h] = Tail(inbox[h])
         \/ \E m \in Message : m.type \notin {"error", "other"}
                               /\ inbox'[h] = Append(inbox[h], m)
  PROVE  OrderlyInv(h)'
<1>0. inbox[h] \in Seq(Message)
  BY DEF TypeOK
<1>1. \A k \in DOMAIN inbox[h] : inbox[h][k].type \notin {"error", "other"}
  BY DEF OrderlyInv
<1>2. cur'[h] # None => cur'[h].type \notin {"error", "other"}
  BY <1>0, <1>1, Front DEF OrderlyInv
<1>3. \A k \in DOMAIN inbox'[h] : inbox'[h][k].type \notin {"error", "other"}
  <2>1. CASE inbox[h] # <<>> /\ inbox'[h] = Tail(inbox[h])
    BY <1>0, <1>1, <2>1, Front
  <2>2. ASSUME NEW m \in Message, m.type \notin {"error", "other"},
               inbox'[h] = Append(inbox[h], m)
        PROVE  \A k \in DOMAIN inbox'[h] : inbox'[h][k].type \notin {"error", "other"}
    BY <1>0, <1>1, <2>2, Back
  <2> QED BY <1>1, <2>1, <2>2
<1> QED BY <1>2, <1>3 DEF OrderlyInv

\* A request that has not been read stays where it is, or comes nearer.
LEMMA StaysAsked ==
  ASSUME TypeOK, NEW h \in Handlers, client'[h] = client[h],
         \/ inbox'[h] = inbox[h]
         \/ inbox[h] # <<>> /\ inbox'[h] = Tail(inbox[h])
  PROVE  /\ PutAsked(h) /\ (inbox'[h] # inbox[h] => inbox[h][1].type # "put") => PutAsked(h)'
         /\ GetAsked(h) /\ (inbox'[h] # inbox[h] => inbox[h][1].type # "get") => GetAsked(h)'
<1>0. inbox[h] \in Seq(Message)
  BY DEF TypeOK
<1>1. CASE inbox'[h] = inbox[h]
  BY <1>1 DEF PutAsked, GetAsked, IsPut
<1>2. CASE inbox'[h] # inbox[h]
  <2>0. inbox[h] # <<>> /\ inbox'[h] = Tail(inbox[h])
    BY <1>2
  <2>1. ASSUME PutAsked(h), inbox[h][1].type # "put" PROVE PutAsked(h)'
    <3>1. PICK k \in DOMAIN inbox[h] : IsPut(h, k) /\ client[h].sent = Len(inbox[h]) - k
      BY <2>1 DEF PutAsked
    <3>2. k # 1
      BY <2>1, <3>1 DEF IsPut
    <3>3. /\ k - 1 \in DOMAIN inbox'[h] /\ inbox'[h][k - 1] = inbox[h][k]
          /\ Len(inbox'[h]) - (k - 1) = Len(inbox[h]) - k
      BY <1>0, <2>0, <3>1, <3>2, Front
    <3> QED BY <3>1, <3>3 DEF PutAsked, IsPut
  <2>2. ASSUME GetAsked(h), inbox[h][1].type # "get" PROVE GetAsked(h)'
    <3>1. PICK k \in DOMAIN inbox[h] : inbox[h][k].type = "get"
      BY <2>2 DEF GetAsked
    <3>2. k - 1 \in DOMAIN inbox'[h] /\ inbox'[h][k - 1] = inbox[h][k]
      BY <1>0, <2>0, <2>2, <3>1, Front
    <3> QED BY <3>1, <3>2 DEF GetAsked
  <2> QED BY <1>2, <2>1, <2>2
<1> QED BY <1>1, <1>2

\* An answer on its way stays there while the client does not read.
LEMMA StaysAnswered ==
  ASSUME TypeOK, NEW h \in Handlers, client[h].st \in {"put", "get"},
         client'[h].sent >= client[h].sent, client'[h].u = client[h].u,
         uploads'[client[h].u] = uploads[client[h].u],
         client[h].st = "put" => uploads[client[h].u] \in Nat /\ client'[h].sent \in Nat,
         outbox'[h] = outbox[h] \/ \E m \in Message : Write(h, m)
  PROVE  /\ client[h].st = "put" /\ PutAnswered(h) => PutAnswered(h)'
         /\ GetAnswered(h) => GetAnswered(h)'
<1>0. \A j \in DOMAIN outbox[h] : j \in DOMAIN outbox'[h] /\ outbox'[h][j] = outbox[h][j]
  BY Appended
<1>1. GetAnswered(h) => GetAnswered(h)'
  BY <1>0 DEF GetAnswered, EndsGet
<1>2. ASSUME client[h].st = "put", PutAnswered(h) PROVE PutAnswered(h)'
  <2>1. PICK j \in DOMAIN outbox[h] : EndsPut(h, outbox[h][j])
    BY <1>2 DEF PutAnswered
  <2>2. client[h].sent \in Nat
    BY DEF TypeOK, Peer
  <2>3. client[h].sent > uploads[client[h].u] => client'[h].sent > uploads'[client'[h].u]
    BY <1>2, <2>2
  <2> QED BY <1>0, <2>1, <2>3 DEF PutAnswered, EndsPut
<1> QED BY <1>1, <1>2

\* An error is an answer to any request.
LEMMA ErrorAnswers ==
  ASSUME TypeOK, NEW h \in Handlers, client[h].st \in {"put", "get"}, Write(h, ErrorMsg)
  PROVE  PutAnswered(h)' /\ GetAnswered(h)'
<1>1. \E j \in DOMAIN outbox'[h] : outbox'[h][j] = ErrorMsg
  BY Appended, Messages
<1> QED BY <1>1 DEF PutAnswered, GetAnswered, EndsPut, EndsGet, ErrorMsg

\* What a client has uploaded is a number of chunks.
LEMMA PutTyped ==
  ASSUME IndInv, NEW h \in Handlers, client[h].st = "put"
  PROVE  /\ client[h].u \in 1..Len(uploads) /\ uploads[client[h].u] \in Nat
         /\ client[h].sent \in Nat /\ client[h] \in Peer
<1>1. client[h] \in Peer /\ client[h].u # 0
  BY DEF IndInv, TypeOK, HandlerInv, ClientInv
<1>2. client[h].u \in 2..Len(uploads) /\ uploads \in Seq(Nat)
  BY <1>1 DEF IndInv, TypeOK, Ids
<1> QED BY <1>1, <1>2 DEF Peer

-----------------------------------------------------------------------------
\* The session goroutine tells the client, begins what it asks for, or passes on
\* what belongs to the transfer.
LEMMA AskedSession ==
  ASSUME IndInv, NEW h \in Handlers, MovesInv(h), ~failed', client[h].st \in {"put", "get"},
         Session(h)
  PROVE  MovesInv(h)'
<1> USE NoneAssumption DEF config, fileVars, rateVars, peerVars, sessVars, taskVars, faultVars
<1> DEFINE m == inbox[h][1]
<1>0. /\ TypeOK /\ HandlerInv(h) /\ OrderlyInv(h) /\ PutMoves(h) /\ GetMoves(h)
      /\ inbox[h] \in Seq(Message) /\ outbox[h] \in Seq(Message)
  BY DEF IndInv, MovesInv, TypeOK
<1>1. UNCHANGED <<v2, uploads, client>>
  BY DEF Session, BeginUpload, RefuseUpload, BeginDownload, RefuseDownload, Answer,
         OfferMessage, NoTransferInProgress
<1>2. \/ inbox' = inbox /\ Handed(h)
      \/ /\ inbox[h] # <<>> /\ inbox'[h] = Tail(inbox[h]) /\ m = Head(inbox[h])
         /\ sess[h] = "serve"
  BY <1>0, Front DEF Session, BeginUpload, RefuseUpload, BeginDownload, RefuseDownload, Answer,
         OfferMessage, NoTransferInProgress, Take, TypeOK
<1>3. OrderlyInv(h)'
  <2>1. sess'[h] # "closed"
    BY <1>0 DEF Session, BeginUpload, RefuseUpload, BeginDownload, RefuseDownload, Answer,
         OfferMessage, NoTransferInProgress, Handed, TypeOK, OrderlyInv
  <2>2. cur'[h] \in {cur[h], None} \/ (inbox[h] # <<>> /\ cur'[h] = Head(inbox[h]))
    BY <1>0 DEF Session, BeginUpload, RefuseUpload, BeginDownload, RefuseDownload, Answer,
         OfferMessage, NoTransferInProgress, Take, Handed, TypeOK
  <2> QED BY <1>0, <1>2, <2>1, <2>2, StaysOrderly
<1>4. /\ client[h].st = "put" => uploads[client[h].u] \in Nat /\ client[h].sent \in Nat
      /\ client'[h].sent >= client[h].sent
  <2>1. client[h].sent \in Nat
    BY <1>0 DEF TypeOK, Peer
  <2> QED BY <1>1, <2>1, PutTyped
<1>5. CASE Write(h, ErrorMsg)
  <2>1. PutAnswered(h)' /\ GetAnswered(h)'
    BY <1>0, <1>5, ErrorAnswers
  <2> QED BY <1>3, <2>1 DEF MovesInv, PutMoves, GetMoves
<1>6. CASE BeginUpload(h)
  <2>1. /\ m.type = "put" /\ pc[h] = "idle" /\ pc'[h] = "create" /\ sess'[h] = "serve"
        /\ outbox' = outbox /\ job' = [job EXCEPT ![h].u = m.u]
        /\ inbox[h] # <<>> /\ inbox'[h] = Tail(inbox[h])
    BY <1>0, <1>2, <1>6 DEF BeginUpload, Take, MayUpload, Goto, TypeOK, Handed
  <2>2. job'[h].off = 0 /\ job'[h].done = FALSE
    <3>1. job[h] = NoJob /\ job'[h] = [job[h] EXCEPT !.u = m.u]
      BY <1>0, <2>1 DEF HandlerInv, JobInv, TypeOK
    <3> QED BY <3>1 DEF NoJob
  <2>3. ~Active(h) /\ Active(h)' /\ ~GetGoesOn(h)
    BY <2>1 DEF Active, Receiving, Committing, GetGoesOn
  <2>4. PutMoves(h)'
    <3>1. CASE PutAsked(h)
      <4>1. PICK k \in DOMAIN inbox[h] : IsPut(h, k) /\ client[h].sent = Len(inbox[h]) - k
        BY <3>1 DEF PutAsked
      <4>2. 1 \in DOMAIN inbox[h] /\ IsPut(h, 1)
        BY <1>0, <2>1, Front DEF IsPut
      <4>3. k = 1
        BY <1>0, <4>1, <4>2 DEF HandlerInv, ClientInv
      <4>4. client'[h].sent = Len(inbox'[h]) /\ Len(inbox'[h]) \in Nat
        BY <1>0, <1>1, <2>1, <4>1, <4>3, Front
      <4>5. PutGoesOn(h)'
        BY <2>1, <2>2, <2>3, <4>4 DEF PutGoesOn, Coming
      <4> QED BY <4>5 DEF PutMoves
    <3>2. client[h].st = "put" /\ PutAnswered(h) => PutAnswered(h)'
      BY <1>0, <1>1, <1>4, <2>1, StaysAnswered
    <3> QED BY <1>0, <1>1, <2>3, <3>1, <3>2 DEF PutMoves, PutGoesOn
  <2>5. GetMoves(h)'
    <3>1. GetAsked(h) => GetAsked(h)'
      BY <1>0, <1>1, <2>1, StaysAsked
    <3>2. GetAnswered(h) => GetAnswered(h)'
      BY <1>0, <1>1, <1>4, <2>1, StaysAnswered
    <3> QED BY <1>0, <1>1, <2>3, <3>1, <3>2 DEF GetMoves
  <2> QED BY <1>3, <2>4, <2>5 DEF MovesInv
<1>7. CASE BeginDownload(h)
  <2>1. /\ m.type = "get" /\ pc[h] = "idle" /\ pc'[h] = "copy"
        /\ outbox' = outbox
        /\ inbox[h] # <<>> /\ inbox'[h] = Tail(inbox[h])
    BY <1>0, <1>2, <1>7 DEF BeginDownload, Take, MayDownload, Goto, TypeOK, Handed
  <2>2. job'[h].off = 0
    <3>1. job[h] = NoJob /\ job'[h] = [job[h] EXCEPT !.data = target.data]
      BY <1>0, <1>7, <2>1 DEF BeginDownload, HandlerInv, JobInv, TypeOK
    <3> QED BY <3>1 DEF NoJob
  <2>3. GetGoesOn(h)'
    BY <2>1, <2>2 DEF GetGoesOn
  <2>4. PutMoves(h)'
    <3>1. PutAsked(h) => PutAsked(h)'
      BY <1>0, <1>1, <2>1, StaysAsked
    <3>2. client[h].st = "put" /\ PutAnswered(h) => PutAnswered(h)'
      BY <1>0, <1>1, <1>4, <2>1, StaysAnswered
    <3>3. ~PutGoesOn(h)
      BY <2>1 DEF Active, Receiving, Committing, PutGoesOn
    <3> QED BY <1>0, <1>1, <3>1, <3>2, <3>3 DEF PutMoves
  <2> QED BY <1>3, <2>3, <2>4 DEF MovesInv, GetMoves
<1>8. CASE OfferMessage(h)
  <2>1. /\ m.type \notin {"put", "get"} /\ UNCHANGED <<outbox, pc, job>>
        /\ inbox[h] # <<>> /\ inbox'[h] = Tail(inbox[h])
        /\ sess[h] = "serve" /\ sess'[h] = "handoff" /\ cur'[h] = m
    BY <1>0, <1>2, <1>8 DEF OfferMessage, Take, TypeOK, Handed
  <2>2. /\ PutAsked(h) => PutAsked(h)'
        /\ GetAsked(h) => GetAsked(h)'
    BY <1>0, <1>1, <2>1, StaysAsked
  <2>3. /\ client[h].st = "put" /\ PutAnswered(h) => PutAnswered(h)'
        /\ GetAnswered(h) => GetAnswered(h)'
    BY <1>0, <1>1, <1>4, <2>1, StaysAnswered
  <2>4. PutGoesOn(h) => PutGoesOn(h)'
    <3>1. Coming(h)' = Coming(h) /\ Active(h)' = Active(h)
      BY <1>0, <1>1, <2>1, Front DEF Coming, Active
    <3> QED BY <1>1, <2>1, <3>1 DEF PutGoesOn
  <2>5. GetGoesOn(h) => GetGoesOn(h)'
    <3>1. ASSUME NEW off \in Nat, LastChunk(h, off) PROVE LastChunk(h, off)'
      <4>1. IF inbox'[h] = <<>> THEN inbox[h][Len(inbox[h])] = m
            ELSE inbox'[h][Len(inbox'[h])] = inbox[h][Len(inbox[h])]
        BY <1>0, <2>1, Front
      <4> QED BY <2>1, <3>1, <4>1 DEF LastChunk
    <3>2. job[h].off > 0 => job[h].off - 1 \in Nat
      BY <1>0 DEF TypeOK, Job
    <3>3. h \notin v2 /\ job[h].off > 0 /\ LastChunk(h, job[h].off - 1)
            => LastChunk(h, job[h].off - 1)'
      BY <2>1, <3>1, <3>2 DEF LastChunk
    <3> QED BY <1>1, <2>1, <3>3 DEF GetGoesOn
  <2>6. PutMoves(h)' /\ GetMoves(h)'
    BY <1>0, <1>1, <2>2, <2>3, <2>4, <2>5 DEF PutMoves, GetMoves
  <2> QED BY <1>3, <2>6 DEF MovesInv
<1>9. ~Answer(h)
  BY <1>0, Front DEF Answer, Take, OrderlyInv
<1>10. NoTransferInProgress(h) => Write(h, ErrorMsg)
  BY <1>0 DEF NoTransferInProgress, Handed, OrderlyInv, HandlerInv, SessInv
<1>11. RefuseUpload(h) \/ RefuseDownload(h) => Write(h, ErrorMsg)
  BY DEF RefuseUpload, RefuseDownload
<1> QED BY <1>5, <1>6, <1>7, <1>8, <1>9, <1>10, <1>11 DEF Session

\* A client without a request has nothing to wait for.
LEMMA IdleMoves ==
  ASSUME NEW h \in Handlers, client'[h].st \notin {"put", "get"}, OrderlyInv(h)'
  PROVE  MovesInv(h)'
BY DEF MovesInv, PutMoves, GetMoves

-----------------------------------------------------------------------------
\* A step of a transfer that leaves the request where it is, or answers it.
LEMMA StaysMoving ==
  ASSUME IndInv, NEW h \in Handlers, MovesInv(h), OrderlyInv(h)',
         client[h].st \in {"put", "get"}, UNCHANGED <<uploads, client, inbox>>,
         outbox'[h] = outbox[h] \/ \E m \in Message : Write(h, m),
         client[h].st = "put" /\ PutGoesOn(h) => PutGoesOn(h)' \/ PutAnswered(h)',
         client[h].st = "get" /\ GetGoesOn(h) => GetGoesOn(h)' \/ GetAnswered(h)'
  PROVE  MovesInv(h)'
<1>0. TypeOK /\ PutMoves(h) /\ GetMoves(h)
  BY DEF IndInv, MovesInv
<1>1. PutAsked(h) => PutAsked(h)'
  BY <1>0, StaysAsked
<1>2. GetAsked(h) => GetAsked(h)'
  BY <1>0, StaysAsked
<1>3. /\ client[h].st = "put" /\ PutAnswered(h) => PutAnswered(h)'
      /\ GetAnswered(h) => GetAnswered(h)'
  <2>1. client[h].sent \in Nat
    BY <1>0 DEF TypeOK, Peer
  <2> QED BY <1>0, <2>1, PutTyped, StaysAnswered
<1>4. PutMoves(h)'
  BY <1>0, <1>1, <1>3 DEF PutMoves
<1>5. GetMoves(h)'
  BY <1>0, <1>2, <1>3 DEF GetMoves
<1> QED BY <1>4, <1>5 DEF MovesInv

\* A transfer that takes a message off the channel.
LEMMA Took ==
  ASSUME TypeOK, NEW h \in Handlers, Handed(h), inbox' = inbox
  PROVE  /\ sess[h] = "handoff" /\ sess'[h] = "serve" /\ cur'[h] = None
         /\ Len(inbox[h]) \in Nat
         /\ Coming(h) = Len(inbox[h]) + 1 /\ Coming(h)' = Len(inbox[h])
BY DEF Handed, TypeOK, Coming

\* A message that an upload writes to its file, or its EOF.
LEMMA ReceivedMoves ==
  ASSUME IndInv, NEW h \in Handlers, client[h].st = "put", PutGoesOn(h),
         WriteChunk(h) \/ EndOfFile(h), ~failed'
  PROVE  PutGoesOn(h)' \/ PutAnswered(h)'
<1> USE DEF config, fileVars, rateVars, peerVars, sessVars, taskVars, faultVars
<1> DEFINE j == job[h]
<1>0. /\ TypeOK /\ HandlerInv(h) /\ UNCHANGED <<v2, uploads, client, inbox>>
  BY UploadFrame DEF Upload
<1>1. CASE Leave(h, TRUE)
  BY <1>0, <1>1, ErrorAnswers DEF Leave
<1>2. CASE ~Leave(h, TRUE)
  <2>1. /\ Receives(h) /\ InPlace(h, cur[h]) /\ UNCHANGED outbox
        /\ \/ AfterChunk(h, [j EXCEPT !.off = @ + 1, !.n = @ + 1, !.last = cur[h].off])
           \/ AfterChunk(h, [j EXCEPT !.n = @ + 1, !.last = cur[h].off, !.done = TRUE])
    BY <1>2 DEF WriteChunk, EndOfFile, Fail
  <2>2. j \in Job /\ j.off \in Nat /\ j.last \in Nat /\ cur[h].off = j.off
        /\ client[h].sent \in Nat
    BY <1>0, <2>1 DEF TypeOK, Job, Peer, InPlace
  <2>3. Handed(h) /\ cur[h] # None /\ cur[h].type = "chunk" /\ pc[h] \in {"recv", "batch"}
    BY <1>0, <2>1 DEF Receives, InPlace, HandlerInv, SessInv, Handed
  <2>4. ~j.done
    <3>1. 0 \in Way(h) /\ IsChunk(h, 0) /\ At(h, 0) = cur[h]
      BY <1>0, <2>2, <2>3, NoneAssumption DEF Way, IsChunk, At, TypeOK
    <3>2. client[h].u \in Nat /\ uploads[client[h].u] \in Nat
      BY PutTyped
    <3>3. Active(h) => cur[h].off <= uploads[client[h].u]
                       /\ (j.done => cur[h].off > uploads[client[h].u])
      BY <1>0, <3>1 DEF HandlerInv, ChunkInv
    <3> QED BY <2>2, <3>2, <3>3 DEF PutGoesOn
  <2>5. job'[h].last = j.off
        /\ \/ job'[h].off = j.off + 1 /\ job'[h].done = FALSE
           \/ job'[h].off = j.off /\ job'[h].done = TRUE
    <3>1. job' = [job EXCEPT ![h] = [j EXCEPT !.off = @ + 1, !.n = @ + 1, !.last = j.off]]
            => job'[h].off = j.off + 1 /\ job'[h].done = FALSE /\ job'[h].last = j.off
      <4>1. [j EXCEPT !.off = @ + 1, !.n = @ + 1, !.last = j.off]
              = [[[j EXCEPT !.off = j.off + 1] EXCEPT !.n = j.n + 1] EXCEPT !.last = j.off]
        OBVIOUS
      <4> QED BY <1>0, <2>2, <2>4, <4>1 DEF TypeOK, Job
    <3>2. job' = [job EXCEPT ![h] = [j EXCEPT !.n = @ + 1, !.last = j.off, !.done = TRUE]]
            => job'[h].off = j.off /\ job'[h].done = TRUE /\ job'[h].last = j.off
      <4>1. [j EXCEPT !.n = @ + 1, !.last = j.off, !.done = TRUE]
              = [[[j EXCEPT !.n = j.n + 1] EXCEPT !.last = j.off] EXCEPT !.done = TRUE]
        OBVIOUS
      <4> QED BY <1>0, <2>2, <4>1 DEF TypeOK, Job
    <3> QED BY <2>1, <2>2, <3>1, <3>2 DEF AfterChunk
  <2>6. /\ h \notin v2 => pc'[h] = "batch"
        /\ h \in v2 => pc'[h] = IF job'[h].done THEN "rename" ELSE "recv"
    BY <1>0, <2>1 DEF AfterChunk, Goto, TypeOK
  <2>7. Active(h)'
    BY <1>0, <2>5, <2>6 DEF Active, Receiving, Committing
  <2>8. client[h].sent = job'[h].off + (IF job'[h].done THEN 1 ELSE 0) + Coming(h)'
    <3>1. client[h].sent = j.off + Len(inbox[h]) + 1 /\ Coming(h)' = Len(inbox[h])
          /\ Len(inbox[h]) \in Nat
      <4>1. /\ Len(inbox[h]) \in Nat
            /\ Coming(h) = Len(inbox[h]) + 1 /\ Coming(h)' = Len(inbox[h])
        BY <1>0, <2>3, Took
      <4>2. client[h].sent = j.off + (IF j.done THEN 1 ELSE 0) + Coming(h)
        BY DEF PutGoesOn
      <4> QED BY <2>2, <2>4, <4>1, <4>2
    <3> QED BY <2>2, <2>5, <3>1
  <2>9. pc'[h] \in {"batch", "ack"} =>
          job'[h].off = job'[h].last + (IF job'[h].done THEN 0 ELSE 1)
    BY <2>2, <2>5
  <2>10. pc'[h] \notin {"create", "firstAck"} /\ ~(pc'[h] = "recv" /\ h \notin v2)
    BY <2>5, <2>6
  <2>11. PutGoesOn(h)'
    BY <1>0, <2>7, <2>8, <2>9, <2>10 DEF PutGoesOn
  <2> QED BY <2>11
<1> QED BY <1>1, <1>2

\* The acknowledgements of version 1, and the one of version 2.
LEMMA AcknowledgedMoves ==
  ASSUME IndInv, NEW h \in Handlers, client[h].st = "put", PutGoesOn(h),
         FirstAck(h) \/ SendAck(h) \/ FinalAck(h), ~failed'
  PROVE  PutGoesOn(h)' \/ PutAnswered(h)'
<1> USE DEF config, fileVars, rateVars, peerVars, sessVars, taskVars, faultVars
<1> DEFINE j == job[h]
<1>0. /\ TypeOK /\ HandlerInv(h) /\ UNCHANGED <<v2, uploads, client, inbox, sess>>
      /\ outbox[h] \in Seq(Message)
  BY UploadFrame DEF Upload, FirstAck, SendAck, FinalAck, TypeOK
<1>1. j \in Job /\ j.off \in Nat /\ j.last \in Nat
  BY <1>0 DEF TypeOK, Job
<1>2. Active(h) /\ client[h].u = j.u
      /\ (j.done => client[h].sent > uploads[client[h].u])
  BY <1>0 DEF PutGoesOn, HandlerInv, ClientInv
<1>3. CASE FirstAck(h)
  <2>1. /\ pc[h] = "firstAck" /\ pc'[h] = "recv" /\ job' = job /\ Write(h, Ack(0))
    BY <1>0, <1>3 DEF FirstAck, Fail, Fault, Goto, TypeOK
  <2>2. j.off = 0
    BY <2>1 DEF PutGoesOn
  <2>3. outbox'[h] = Append(outbox[h], Ack(0)) /\ Ack(0) \in Message
    BY <1>0, <2>1, Messages DEF Write, TypeOK
  <2>4. outbox'[h] # <<>> /\ outbox'[h][Len(outbox'[h])] = Ack(0)
    BY <1>0, <2>3, Back
  <2>5. Active(h)' /\ Coming(h)' = Coming(h) /\ Before(job'[h].off) = 0
    BY <1>0, <2>1, <2>2 DEF Active, Receiving, Coming, Before
  <2>6. PutGoesOn(h)'
    BY <1>0, <2>1, <2>2, <2>4, <2>5 DEF PutGoesOn, Ack
  <2> QED BY <2>6
<1>4. CASE SendAck(h)
  <2>1. /\ pc[h] = "ack" /\ pc'[h] = IF j.done THEN "rename" ELSE "recv"
        /\ job' = [job EXCEPT ![h].n = 0] /\ Write(h, Ack(j.last))
    BY <1>0, <1>4 DEF SendAck, Fail, Fault, Goto, TypeOK
  <2>2. job'[h].off = j.off /\ job'[h].done = j.done /\ h \notin v2
        /\ j.off = j.last + (IF j.done THEN 0 ELSE 1)
    <3>1. job'[h] = [j EXCEPT !.n = 0]
      BY <1>0, <2>1 DEF TypeOK
    <3> QED BY <1>0, <1>1, <2>1, <3>1 DEF Job, HandlerInv, JobInv, PutGoesOn
  <2>3. /\ outbox'[h] = Append(outbox[h], Ack(j.last)) /\ Ack(j.last) \in Message
        /\ Ack(j.last).type = "ack" /\ Ack(j.last).off = j.last
    BY <1>0, <1>1, <2>1, Messages DEF Write, TypeOK, Ack
  <2>4. /\ outbox'[h] # <<>> /\ outbox'[h][Len(outbox'[h])] = Ack(j.last)
        /\ Len(outbox'[h]) \in DOMAIN outbox'[h]
    BY <1>0, <2>3, Back
  <2>5. CASE j.done
    <3>1. j.off = uploads[j.u]
      BY <1>0, <2>1, <2>5 DEF HandlerInv, JobInv, Writing
    <3>2. j.last = uploads'[client'[h].u]
      BY <1>0, <1>1, <1>2, <2>2, <2>5, <3>1
    <3>3. client'[h].sent > uploads'[client'[h].u]
      BY <1>0, <1>2, <2>5
    <3> QED BY <2>3, <2>4, <3>2, <3>3 DEF PutAnswered, EndsPut
  <2>6. CASE ~j.done
    <3>1. Before(job'[h].off) = j.last
      BY <1>1, <2>2, <2>6 DEF Before
    <3>2. pc'[h] = "recv" /\ Active(h)' /\ Coming(h)' = Coming(h)
      BY <1>0, <2>1, <2>6 DEF Active, Receiving, Coming
    <3>3. PutGoesOn(h)'
      BY <1>0, <2>2, <2>3, <2>4, <3>1, <3>2 DEF PutGoesOn
    <3> QED BY <3>3
  <2> QED BY <2>5, <2>6
<1>5. CASE FinalAck(h)
  <2>1. CASE Leave(h, TRUE)
    BY <1>0, <2>1, ErrorAnswers DEF Leave
  <2>2. CASE ~Leave(h, TRUE)
    <3>1. pc[h] = "finalAck" /\ Write(h, Ack(None))
      BY <1>5, <2>2 DEF FinalAck, Fail
    <3>2. j.done
      BY <1>0, <3>1 DEF HandlerInv, JobInv, Committing
    <3>3. Ack(None) \in Message /\ Ack(None).type = "ack" /\ Ack(None).off = None
      BY Messages DEF Ack
    <3>4. PICK i \in DOMAIN outbox'[h] : outbox'[h][i] = Ack(None)
      BY <1>0, <3>1, <3>3, Appended
    <3>5. client'[h].sent > uploads'[client'[h].u]
      BY <1>0, <1>2, <3>2
    <3> QED BY <3>3, <3>4, <3>5 DEF PutAnswered, EndsPut
  <2> QED BY <2>1, <2>2
<1> QED BY <1>3, <1>4, <1>5

\* The steps of an upload.
LEMMA AskedUpload ==
  ASSUME IndInv, NEW h \in Handlers, MovesInv(h), ~failed', client[h].st \in {"put", "get"},
         Upload(h)
  PROVE  MovesInv(h)'
<1> USE NoneAssumption DEF config, fileVars, rateVars, peerVars, sessVars, taskVars, faultVars
<1> DEFINE j == job[h]
<1>0. /\ TypeOK /\ HandlerInv(h) /\ OrderlyInv(h) /\ UNCHANGED <<v2, uploads, client, inbox>>
      /\ UNCHANGED <<sess, cur>> \/ (sess'[h] = "serve" /\ cur'[h] = None)
  BY UploadFrame DEF MovesInv
<1>1. OrderlyInv(h)'
  <2>1. sess'[h] # "closed" /\ cur'[h] \in {cur[h], None}
    BY <1>0 DEF OrderlyInv
  <2> QED BY <1>0, <2>1, StaysOrderly
<1>2. j \in Job /\ j.off \in Nat /\ j.last \in Nat
  BY <1>0 DEF TypeOK, Job
<1>3. ~GetGoesOn(h) \/ ChannelClosed(h)
  BY DEF Upload, CreateFile, FirstAck, WriteChunk, EndOfFile, RejectChunk, BatchEnds, SendAck,
         Rename, Preserve, FinalAck, Release, Receives, GetGoesOn
<1>4. ~ChannelClosed(h)
  BY <1>0 DEF ChannelClosed, OrderlyInv
<1>5. CASE Leave(h, TRUE)
  <2>1. Write(h, ErrorMsg)
    BY <1>5 DEF Leave
  <2> QED BY <1>0, <1>1, <1>3, <1>4, <2>1, ErrorAnswers, Messages, StaysMoving
<1>6. outbox'[h] = outbox[h] \/ \E m \in Message : Write(h, m)
  <2>1. CASE CreateFile(h) \/ WriteChunk(h) \/ EndOfFile(h) \/ BatchEnds(h) \/ Release(h)
              \/ RejectChunk(h) \/ Rename(h) \/ Preserve(h)
    <3>1. outbox' = outbox \/ Write(h, ErrorMsg)
      BY <2>1 DEF CreateFile, WriteChunk, EndOfFile, BatchEnds, Release, RejectChunk, Rename,
                  Preserve, Fail, Fault, Leave
    <3> QED BY <3>1, Messages
  <2>2. CASE FirstAck(h) \/ SendAck(h) \/ FinalAck(h)
    <3>1. \E off \in Nat \cup {None} : Write(h, Ack(off))
      BY <1>2, <1>5, <2>2 DEF FirstAck, SendAck, FinalAck, Fail, Fault, Leave
    <3> QED BY <1>5, <3>1, Messages
  <2> QED BY <1>4, <2>1, <2>2 DEF Upload
<1>7. ASSUME client[h].st = "put", PutGoesOn(h), ~Leave(h, TRUE)
      PROVE  PutGoesOn(h)' \/ PutAnswered(h)'
  <2>1. CASE WriteChunk(h) \/ EndOfFile(h)
    BY <1>7, <2>1, ReceivedMoves
  <2>2. CASE FirstAck(h) \/ SendAck(h) \/ FinalAck(h)
    BY <1>7, <2>2, AcknowledgedMoves
  <2>3. CASE CreateFile(h) \/ BatchEnds(h) \/ Rename(h) \/ Preserve(h)
    <3>0. Active(h)
      BY <1>7 DEF PutGoesOn
    <3>1. /\ UNCHANGED <<job, sess>> /\ Coming(h)' = Coming(h)
          /\ \/ pc[h] = "create" /\ pc'[h] = (IF h \in v2 THEN "recv" ELSE "firstAck")
             \/ pc[h] = "batch" /\ pc'[h] = "ack"
             \/ pc[h] = "rename" /\ pc'[h] = "preserve"
             \/ pc[h] = "preserve" /\ h \in v2 /\ pc'[h] = "finalAck"
      <4>1. UNCHANGED <<job, sess>>
        BY <1>7, <2>3 DEF CreateFile, BatchEnds, Rename, Preserve, Fail
      <4>2. pc[h] = "preserve" => h \in v2
        BY <3>0 DEF Active, Receiving
      <4>3. \/ pc[h] = "create" /\ pc'[h] = (IF h \in v2 THEN "recv" ELSE "firstAck")
            \/ pc[h] = "batch" /\ pc'[h] = "ack"
            \/ pc[h] = "rename" /\ pc'[h] = "preserve"
            \/ pc[h] = "preserve" /\ pc'[h] = "finalAck"
        BY <1>0, <1>7, <2>3, <4>2
           DEF CreateFile, BatchEnds, Rename, Preserve, Fail, Fault, Goto, TypeOK
      <4>4. Coming(h)' = Coming(h)
        BY <1>0, <4>1 DEF Coming
      <4> QED BY <4>1, <4>2, <4>3, <4>4
    <3>2. Active(h)'
      BY <1>0, <3>0, <3>1 DEF Active, Receiving, Committing
    <3>3. PutGoesOn(h)'
      BY <1>0, <1>7, <3>1, <3>2 DEF PutGoesOn
    <3> QED BY <3>3
  <2>4. ~RejectChunk(h)
    BY <1>0, <1>7 DEF RejectChunk, Receives, Handed, OrderlyInv, HandlerInv, SessInv
  <2>5. ~Release(h)
    BY <1>7 DEF Release, PutGoesOn, Active, Receiving, Committing
  <2> QED BY <1>4, <2>1, <2>2, <2>3, <2>4, <2>5 DEF Upload
<1>8. CASE ~Leave(h, TRUE)
  BY <1>0, <1>1, <1>3, <1>4, <1>6, <1>7, <1>8, StaysMoving
<1> QED BY <1>5, <1>8

\* The steps of a download: the chunk it sends is the last one on its way, and an
\* acknowledgement it waits for is that of the last chunk if nothing is behind it.
LEMMA AskedDownload ==
  ASSUME IndInv, NEW h \in Handlers, MovesInv(h), ~failed', client[h].st \in {"put", "get"},
         Download(h)
  PROVE  MovesInv(h)'
<1> USE NoneAssumption DEF config, fileVars, rateVars, peerVars, sessVars, taskVars, faultVars
<1> DEFINE j == job[h]
<1>0. /\ TypeOK /\ HandlerInv(h) /\ OrderlyInv(h) /\ UNCHANGED <<v2, uploads, client, inbox>>
      /\ outbox[h] \in Seq(Message) /\ inbox[h] \in Seq(Message)
  BY DEF MovesInv, IndInv, TypeOK, Download, CopyChunk, CopyEnds, TakeAck, RejectAck, SendEof
<1>1. OrderlyInv(h)'
  <2>1. UNCHANGED <<sess, cur>> \/ Handed(h)
    BY DEF Download, CopyChunk, CopyEnds, TakeAck, RejectAck, SendEof
  <2>2. sess'[h] # "closed" /\ cur'[h] \in {cur[h], None}
    BY <1>0, <2>1 DEF Handed, OrderlyInv, TypeOK
  <2> QED BY <1>0, <2>2, StaysOrderly
<1>2. ~PutGoesOn(h)
  BY DEF Download, CopyChunk, CopyEnds, TakeAck, RejectAck, SendEof, PutGoesOn, Active,
         Receiving, Committing
<1>3. CASE Leave(h, TRUE)
  <2>1. Write(h, ErrorMsg)
    BY <1>3 DEF Leave
  <2> QED BY <1>0, <1>1, <1>2, <2>1, ErrorAnswers, Messages, StaysMoving
<1>4. CASE CopyChunk(h) /\ ~Leave(h, TRUE)
  <2> DEFINE m == Chunk(j.off, j.data[j.off + 1])
  <2>1. /\ Write(h, m) /\ j.off < Len(j.data) /\ pc[h] = "copy" /\ pc' = pc
        /\ job' = [job EXCEPT ![h].off = @ + 1]
    BY <1>4 DEF CopyChunk, Fail
  <2>2. j.off \in Nat /\ j.data \in Seq(Nat \X Nat) /\ job'[h].off = j.off + 1
    <3>1. job'[h] = [j EXCEPT !.off = j.off + 1]
      BY <1>0, <2>1 DEF TypeOK
    <3> QED BY <1>0, <3>1 DEF TypeOK, Job
  <2>3. j.data[j.off + 1] \in Pieces
    BY <2>1, <2>2 DEF Pieces
  <2>4. m \in Message /\ m.type = "chunk" /\ m.off = j.off
    BY <2>2, <2>3, Messages DEF Chunk
  <2>5. ASSUME client[h].st = "get" PROVE GetGoesOn(h)'
    <3>1. outbox'[h] = Append(outbox[h], m)
      BY <1>0, <2>1, <2>5 DEF Write, TypeOK
    <3>2. outbox'[h] # <<>> /\ outbox'[h][Len(outbox'[h])] = m
      BY <1>0, <2>4, <3>1, Back
    <3>3. LastChunk(h, job[h].off - 1)'
      BY <2>2, <2>4, <3>2 DEF LastChunk
    <3> QED BY <2>1, <3>3 DEF GetGoesOn
  <2> QED BY <1>0, <1>1, <1>2, <2>1, <2>4, <2>5, StaysMoving
<1>5. CASE CopyEnds(h) /\ ~Leave(h, TRUE)
  <2>1. /\ UNCHANGED <<outbox, job, sess, cur>>
        /\ pc[h] = "copy" /\ pc'[h] = IF WindowOpen(h, j.off) THEN "eof" ELSE "wait"
    BY <1>0, <1>5 DEF CopyEnds, Goto, TypeOK
  <2>2. pc'[h] = "wait" => h \notin v2 /\ j.off >= j.ack + ACKSlidingWindowRecv
    <3>1. j.off \in Nat /\ j.ack \in Nat /\ ACKSlidingWindowRecv \in Nat
      BY <1>0, WindowAssumption DEF TypeOK, Job
    <3> QED BY <2>1, <3>1 DEF WindowOpen
  <2>3. GetGoesOn(h) => GetGoesOn(h)'
    <3>1. \A off : LastChunk(h, off)' = LastChunk(h, off)
      BY <1>0, <2>1 DEF LastChunk
    <3> QED BY <1>0, <2>1, <2>2, <3>1 DEF GetGoesOn, LastChunk
  <2> QED BY <1>0, <1>1, <1>2, <2>1, <2>3, StaysMoving
<1>6. CASE TakeAck(h)
  <2>1. /\ UNCHANGED outbox /\ Handed(h) /\ cur[h].off \in Nat
        /\ job' = [job EXCEPT ![h].ack = cur[h].off, ![h].start = j.off]
        /\ pc[h] = "wait" => pc'[h] = "copy"
        /\ pc[h] \in {"wait", "lastAck"}
    BY <1>0, <1>6 DEF TakeAck, Goto, TypeOK, Handed, HandlerInv, SessInv, Message
  <2>2. job'[h].off = j.off /\ job'[h].ack = cur[h].off
    <3>1. job'[h] = [[j EXCEPT !.ack = cur[h].off] EXCEPT !.start = j.off]
      BY <1>0, <2>1 DEF TypeOK
    <3> QED BY <1>0, <3>1 DEF TypeOK, Job
  <2>3. GetGoesOn(h) => GetGoesOn(h)'
    <3>1. ASSUME LastChunk(h, j.off - 1) PROVE LastChunk(h, job[h].off - 1)'
      <4>1. sess[h] = "handoff" /\ sess'[h] = "serve"
        BY <1>0, <2>1, Took
      <4> QED BY <1>0, <2>1, <2>2, <3>1, <4>1 DEF LastChunk
    <3> QED BY <1>0, <2>1, <2>2, <3>1 DEF GetGoesOn
  <2> QED BY <1>0, <1>1, <1>2, <2>1, <2>3, StaysMoving
<1>7. CASE SendEof(h) /\ ~Leave(h, TRUE)
  <2> DEFINE m == Chunk(j.off, None)
  <2>1. Write(h, m) /\ None \in Pieces
    BY <1>7 DEF SendEof, Fail, Pieces
  <2>2. m \in Message /\ m.type = "chunk" /\ m.data = None
    <3>1. j.off \in Nat
      BY <1>0 DEF TypeOK, Job
    <3> QED BY <2>1, <3>1, Messages DEF Chunk
  <2>3. GetAnswered(h)'
    <3>1. \E i \in DOMAIN outbox'[h] : outbox'[h][i] = m
      BY <1>0, <2>1, <2>2, Appended
    <3> QED BY <2>2, <3>1 DEF GetAnswered, EndsGet
  <2> QED BY <1>0, <1>1, <1>2, <2>1, <2>2, <2>3, StaysMoving
<1>8. RejectAck(h) => Leave(h, TRUE)
  BY <1>0 DEF RejectAck, Handed, OrderlyInv, HandlerInv, SessInv
<1> QED BY <1>3, <1>4, <1>5, <1>6, <1>7, <1>8 DEF Download

-----------------------------------------------------------------------------
\* The client sends a chunk, which its upload has then still to receive.
LEMMA SendChunkMoves ==
  ASSUME IndInv, NEW h \in Handlers, MovesInv(h), SendChunk(h)
  PROVE  MovesInv(h)'
<1> DEFINE c == client[h]
<1> DEFINE m == Chunk(c.sent, IF c.sent < uploads[c.u] THEN <<c.u, c.sent + 1>> ELSE None)
<1>0. /\ TypeOK /\ OrderlyInv(h) /\ PutMoves(h)
      /\ inbox[h] \in Seq(Message)
  BY DEF IndInv, MovesInv, TypeOK
<1>1. /\ UNCHANGED <<v2, uploads, outbox, sess, cur, pc, job>> /\ c.st = "put" /\ Send(h, m)
      /\ client' = [client EXCEPT ![h].sent = @ + 1]
  BY DEF SendChunk, MaySend, rest, config, sessVars, taskVars
<1>2. /\ c.sent \in Nat /\ c.u \in Nat /\ uploads[c.u] \in Nat /\ c \in Peer
      /\ client'[h] = [c EXCEPT !.sent = c.sent + 1]
  BY <1>0, <1>1, PutTyped DEF TypeOK, Peer
<1>3. client'[h].sent = c.sent + 1 /\ client'[h].u = c.u /\ client'[h].st = "put"
      /\ client'[h].acked = c.acked
  BY <1>1, <1>2 DEF Peer
<1>4. m \in Message /\ m.type = "chunk"
  <2>1. (IF c.sent < uploads[c.u] THEN <<c.u, c.sent + 1>> ELSE None) \in Pieces
    BY <1>2 DEF Pieces
  <2> QED BY <1>2, <2>1, Messages DEF Chunk
<1>5. inbox'[h] = Append(inbox[h], m)
  BY <1>0, <1>1 DEF Send, TypeOK
<1>6. OrderlyInv(h)'
  <2>1. sess'[h] # "closed" /\ cur'[h] = cur[h]
    BY <1>0, <1>1 DEF OrderlyInv
  <2> QED BY <1>0, <1>4, <1>5, <2>1, StaysOrderly
<1>7. PutAsked(h) => PutAsked(h)'
  <2>1. ASSUME NEW k \in DOMAIN inbox[h], IsPut(h, k), c.sent = Len(inbox[h]) - k
        PROVE  PutAsked(h)'
    <3>1. /\ k \in DOMAIN inbox'[h] /\ inbox'[h][k] = inbox[h][k] /\ k \in Nat
          /\ Len(inbox[h]) \in Nat /\ Len(inbox'[h]) = Len(inbox[h]) + 1
      BY <1>0, <1>4, <1>5, Back
    <3>2. client'[h].sent = Len(inbox'[h]) - k
      BY <1>2, <1>3, <2>1, <3>1
    <3> QED BY <2>1, <3>1, <3>2 DEF PutAsked, IsPut
  <2> QED BY <2>1 DEF PutAsked
<1>8. PutAnswered(h) => PutAnswered(h)'
  <2>1. client'[h].sent >= c.sent /\ client'[h].sent \in Nat
    BY <1>2, <1>3
  <2> QED BY <1>0, <1>1, <1>2, <1>3, <2>1, StaysAnswered
<1>9. PutGoesOn(h) => PutGoesOn(h)'
  <2>1. /\ Len(inbox[h]) \in Nat /\ Len(inbox'[h]) = Len(inbox[h]) + 1
    BY <1>0, <1>4, <1>5, Back
  <2>2. Coming(h)' = Coming(h) + 1 /\ Coming(h) \in Nat /\ Active(h)' = Active(h)
    <3>1. Active(h)' = Active(h)
      BY <1>1 DEF Active
    <3>2. CASE sess[h] = "handoff"
      <4>1. Coming(h) = Len(inbox[h]) + 1 /\ Coming(h)' = Len(inbox'[h]) + 1
        BY <1>1, <3>2 DEF Coming
      <4> QED BY <2>1, <3>1, <4>1
    <3>3. CASE sess[h] # "handoff"
      <4>1. Coming(h) = Len(inbox[h]) + 0 /\ Coming(h)' = Len(inbox'[h]) + 0
        BY <1>1, <3>3 DEF Coming
      <4> QED BY <2>1, <3>1, <4>1
    <3> QED BY <3>2, <3>3
  <2>3. job[h].off \in Nat
    BY <1>0 DEF TypeOK, Job
  <2>4. c.sent = job[h].off + (IF job[h].done THEN 1 ELSE 0) + Coming(h) =>
          client'[h].sent = job[h].off + (IF job[h].done THEN 1 ELSE 0) + Coming(h)'
    BY <1>2, <1>3, <2>2, <2>3
  <2> QED BY <1>1, <1>3, <2>2, <2>4 DEF PutGoesOn
<1> QED BY <1>0, <1>1, <1>3, <1>6, <1>7, <1>8, <1>9 DEF MovesInv, PutMoves, GetMoves

\* What is left on its way to the client when it has read a message that does not
\* end its request.
LEMMA AnswerBehind ==
  ASSUME TypeOK, NEW h \in Handlers, outbox[h] # <<>>, outbox'[h] = Tail(outbox[h]),
         uploads' = uploads, client'[h].u = client[h].u, client'[h].sent = client[h].sent
  PROVE  /\ PutAnswered(h) /\ ~EndsPut(h, outbox[h][1]) => PutAnswered(h)'
         /\ GetAnswered(h) /\ ~EndsGet(outbox[h][1]) => GetAnswered(h)'
<1>0. outbox[h] \in Seq(Message)
  BY DEF TypeOK
<1>1. ASSUME NEW j \in DOMAIN outbox[h], j # 1
      PROVE  j - 1 \in DOMAIN outbox'[h] /\ outbox'[h][j - 1] = outbox[h][j]
  BY <1>0, <1>1, Front
<1>2. ASSUME PutAnswered(h), ~EndsPut(h, outbox[h][1]) PROVE PutAnswered(h)'
  <2>1. PICK j \in DOMAIN outbox[h] : EndsPut(h, outbox[h][j])
    BY <1>2 DEF PutAnswered
  <2>2. j - 1 \in DOMAIN outbox'[h] /\ outbox'[h][j - 1] = outbox[h][j]
    BY <1>1, <1>2, <2>1
  <2> QED BY <2>1, <2>2 DEF PutAnswered, EndsPut
<1>3. ASSUME GetAnswered(h), ~EndsGet(outbox[h][1]) PROVE GetAnswered(h)'
  <2>1. PICK j \in DOMAIN outbox[h] : EndsGet(outbox[h][j])
    BY <1>3 DEF GetAnswered
  <2>2. j - 1 \in DOMAIN outbox'[h] /\ outbox'[h][j - 1] = outbox[h][j]
    BY <1>1, <1>3, <2>1
  <2> QED BY <2>1, <2>2 DEF GetAnswered, EndsGet
<1> QED BY <1>2, <1>3

\* The client of an upload reads a message.
LEMMA ReceivePut ==
  ASSUME IndInv, NEW h \in Handlers, MovesInv(h), client[h].st = "put", Receive(h),
         OrderlyInv(h)'
  PROVE  MovesInv(h)'
<1> USE NoneAssumption
<1> DEFINE c == client[h]
<1> DEFINE m == outbox[h][1]
<1>0. /\ TypeOK /\ HandlerInv(h) /\ PutMoves(h) /\ outbox[h] \in Seq(Message)
  BY DEF IndInv, MovesInv, TypeOK
<1>1. /\ UNCHANGED <<v2, uploads, sess, cur, pc, job, inbox>>
      /\ outbox[h] # <<>> /\ outbox'[h] = Tail(outbox[h]) /\ client'[h] = After(h, m)
  BY <1>0, Front DEF Receive, TypeOK, rest, config, sessVars, taskVars
<1>2. c \in Peer /\ c.sent \in Nat /\ uploads[c.u] \in Nat
  BY PutTyped
<1>3. CASE EndsPut(h, m)
  <2>1. client'[h] \in {NoClient, [NoClient EXCEPT !.st = "quit", !.u = c.u]}
    BY <1>1, <1>3 DEF EndsPut, After
  <2>2. client'[h].st \in {"idle", "quit"}
    <3>1. NoClient.st = "idle" /\ [NoClient EXCEPT !.st = "quit", !.u = c.u].st = "quit"
      BY DEF NoClient
    <3> QED BY <2>1, <3>1
  <2> QED BY <2>2, IdleMoves
<1>4. CASE ~EndsPut(h, m)
  <2>1. client'[h] = IF m.type = "ack" THEN [c EXCEPT !.acked = m.off] ELSE c
    BY <1>1, <1>4 DEF EndsPut, After
  <2>2. /\ client'[h].st = "put" /\ client'[h].u = c.u /\ client'[h].sent = c.sent
        /\ m.type = "ack" => client'[h].acked = m.off
        /\ m.type # "ack" => client'[h].acked = c.acked
    BY <1>2, <2>1 DEF Peer
  <2>3. PutAnswered(h) => PutAnswered(h)'
    BY <1>0, <1>1, <1>4, <2>2, AnswerBehind
  <2>4. PutAsked(h) => PutAsked(h)'
    BY <1>1, <2>2 DEF PutAsked, IsPut
  <2>5. PutGoesOn(h) => PutGoesOn(h)'
    <3>1. Active(h)' = Active(h) /\ Coming(h)' = Coming(h)
      BY <1>1 DEF Active, Coming
    <3>2. IF outbox'[h] = <<>> THEN outbox[h][Len(outbox[h])] = m
                               ELSE outbox'[h][Len(outbox'[h])] = outbox[h][Len(outbox[h])]
      BY <1>0, <1>1, Front
    <3> QED BY <1>1, <2>2, <3>1, <3>2 DEF PutGoesOn
  <2> QED BY <1>0, <2>2, <2>3, <2>4, <2>5 DEF MovesInv, PutMoves, GetMoves
<1> QED BY <1>3, <1>4

\* The client of a download reads a message; in version 1 it acknowledges a chunk.
LEMMA ReceiveGet ==
  ASSUME IndInv, NEW h \in Handlers, MovesInv(h), client[h].st = "get", Receive(h),
         OrderlyInv(h)'
  PROVE  MovesInv(h)'
<1> DEFINE c == client[h]
<1> DEFINE m == outbox[h][1]
<1>0. /\ TypeOK /\ GetMoves(h) /\ outbox[h] \in Seq(Message) /\ inbox[h] \in Seq(Message)
      /\ c \in Peer
  BY DEF IndInv, MovesInv, TypeOK
<1>1. /\ UNCHANGED <<v2, uploads, sess, cur, pc, job>>
      /\ outbox[h] # <<>> /\ outbox'[h] = Tail(outbox[h]) /\ client'[h] = After(h, m)
      /\ m \in Message
      /\ inbox'[h] = IF m.type = "chunk" /\ h \notin v2 THEN Append(inbox[h], Ack(m.off))
                                                        ELSE inbox[h]
  <2>1. outbox[h] # <<>> /\ m = Head(outbox[h]) /\ m \in Message
    BY <1>0, Front DEF Receive
  <2>2. /\ UNCHANGED <<v2, uploads, sess, cur, pc, job>>
        /\ client'[h] = After(h, m) /\ outbox'[h] = Tail(outbox[h])
    BY <1>0, <2>1 DEF Receive, TypeOK, rest, config, sessVars, taskVars
  <2>3. IF m.type = "chunk" /\ h \notin v2 THEN Send(h, Ack(m.off)) ELSE inbox' = inbox
    BY <2>1 DEF Receive
  <2>4. Send(h, Ack(m.off)) => inbox'[h] = Append(inbox[h], Ack(m.off))
    BY <1>0 DEF Send, TypeOK
  <2> QED BY <2>1, <2>2, <2>3, <2>4
<1>2. CASE EndsGet(m)
  <2>1. client'[h] \in {NoClient, [NoClient EXCEPT !.st = "quit", !.u = c.u]}
    BY <1>1, <1>2 DEF EndsGet, After
  <2>2. client'[h].st \in {"idle", "quit"}
    <3>1. NoClient.st = "idle" /\ [NoClient EXCEPT !.st = "quit", !.u = c.u].st = "quit"
      BY DEF NoClient
    <3> QED BY <2>1, <3>1
  <2> QED BY <2>2, IdleMoves
<1>3. CASE ~EndsGet(m)
  <2>1. client'[h] = IF m.type = "chunk" THEN [c EXCEPT !.got = Append(@, m.data)] ELSE c
    BY <1>1, <1>3 DEF EndsGet, After
  <2>2. client'[h].st = "get" /\ client'[h].u = c.u /\ client'[h].sent = c.sent
    BY <1>0, <2>1 DEF Peer
  <2>3. GetAnswered(h) => GetAnswered(h)'
    BY <1>0, <1>1, <1>3, <2>2, AnswerBehind
  <2>4. m.type = "chunk" => /\ Ack(m.off) \in Message /\ Ack(m.off).type = "ack"
                            /\ Ack(m.off).off = m.off
    <3>1. m.type = "chunk" => m.off \in Nat \cup {None}
      BY <1>1 DEF Message
    <3> QED BY <3>1, Messages DEF Ack
  <2>5. GetAsked(h) => GetAsked(h)'
    <3>1. \A k \in DOMAIN inbox[h] : k \in DOMAIN inbox'[h] /\ inbox'[h][k] = inbox[h][k]
      BY <1>0, <1>1, <2>4, Back
    <3> QED BY <3>1 DEF GetAsked
  <2>6. GetGoesOn(h) => GetGoesOn(h)'
    <3>1. ASSUME h \notin v2, NEW off, LastChunk(h, off) PROVE LastChunk(h, off)'
      <4>1. /\ outbox[h][Len(outbox[h])].type = "chunk"
            /\ outbox[h][Len(outbox[h])].off = off
        BY <1>1, <3>1 DEF LastChunk
      <4>2. CASE outbox'[h] # <<>>
        <5>1. outbox'[h][Len(outbox'[h])] = outbox[h][Len(outbox[h])]
          BY <1>0, <1>1, <4>2, Front
        <5> QED BY <4>1, <4>2, <5>1 DEF LastChunk
      <4>3. CASE outbox'[h] = <<>>
        <5>1. m = outbox[h][Len(outbox[h])]
          BY <1>0, <1>1, <4>3, Front
        <5>2. inbox'[h] = Append(inbox[h], Ack(m.off))
          BY <1>1, <3>1, <4>1, <5>1
        <5>3. inbox'[h] # <<>> /\ inbox'[h][Len(inbox'[h])] = Ack(m.off)
          BY <1>0, <2>4, <4>1, <5>1, <5>2, Back
        <5> QED BY <2>4, <4>1, <4>3, <5>1, <5>3 DEF LastChunk
      <4> QED BY <4>2, <4>3
    <3>2. h \notin v2 /\ LastChunk(h, job[h].off - 1) => LastChunk(h, job[h].off - 1)'
      BY <1>1, <3>1 DEF LastChunk
    <3> QED BY <1>1, <3>2 DEF GetGoesOn
  <2> QED BY <1>0, <2>2, <2>3, <2>5, <2>6 DEF MovesInv, PutMoves, GetMoves
<1> QED BY <1>2, <1>3

\* What the client reads changes nothing in what it has sent but an acknowledgement.
LEMMA ReceiveOrderly ==
  ASSUME IndInv, NEW h \in Handlers, OrderlyInv(h), Receive(h)
  PROVE  /\ OrderlyInv(h)'
         /\ client[h].st \notin {"put", "get"} => client'[h] = client[h]
<1> DEFINE m == outbox[h][1]
<1>0. TypeOK /\ outbox[h] \in Seq(Message) /\ inbox[h] \in Seq(Message)
  BY DEF IndInv, TypeOK
<1>1. /\ UNCHANGED <<sess, cur>>
      /\ outbox[h] # <<>> /\ m = Head(outbox[h]) /\ m \in Message
      /\ client'[h] = After(h, m)
  BY <1>0, Front DEF Receive, TypeOK, rest, sessVars
<1>2. client[h].st \notin {"put", "get"} => client'[h] = client[h]
  BY <1>1 DEF After
<1>3. client'[h].st \in {"put", "get"} => sess'[h] # "closed"
  BY <1>1, <1>2 DEF OrderlyInv
<1>4. \/ inbox'[h] = inbox[h]
      \/ \E a \in Message : a.type \notin {"error", "other"} /\ inbox'[h] = Append(inbox[h], a)
  <2>1. CASE m.type = "chunk" /\ Send(h, Ack(m.off))
    <3>1. m.off \in Nat \cup {None}
      BY <1>1, <2>1 DEF Message
    <3>2. Ack(m.off) \in Message /\ Ack(m.off).type = "ack"
      BY <3>1, Messages DEF Ack
    <3>3. inbox'[h] = Append(inbox[h], Ack(m.off))
      BY <1>0, <2>1 DEF Send, TypeOK
    <3> QED BY <3>2, <3>3
  <2>2. inbox' = inbox \/ (m.type = "chunk" /\ Send(h, Ack(m.off)))
    BY <1>1 DEF Receive
  <2> QED BY <2>1, <2>2
<1> QED BY <1>0, <1>1, <1>2, <1>3, <1>4, StaysOrderly

\* The client asks for a transfer: its request is the last thing on its way.
LEMMA AskMoves ==
  ASSUME IndInv, NEW h \in Handlers, MovesInv(h), Put(h) \/ Get(h)
  PROVE  MovesInv(h)'
<1>0. TypeOK /\ OrderlyInv(h) /\ inbox[h] \in Seq(Message)
  BY DEF IndInv, MovesInv, TypeOK
<1>1. UNCHANGED <<sess, cur>> /\ sess[h] # "closed"
  BY DEF Put, Get, rest, sessVars
<1>2. CASE Put(h)
  <2>1. PICK p \in {"file", "inDir", "dir", "forbidden"} :
          Send(h, [type |-> "put", u |-> Len(uploads) + 1, place |-> p])
    BY <1>2 DEF Put
  <2> DEFINE m == [type |-> "put", u |-> Len(uploads) + 1, place |-> p]
  <2>2. m \in Message /\ m.type = "put"
    <3>1. Len(uploads) + 1 \in Nat
      BY <1>0 DEF TypeOK
    <3> QED BY <3>1 DEF Message, Places
  <2>3. inbox'[h] = Append(inbox[h], m)
    BY <1>0, <2>1 DEF Send, TypeOK
  <2>4. client'[h].st = "put" /\ client'[h].sent = 0
    <3>1. client'[h] = [NoClient EXCEPT !.st = "put", !.u = Len(uploads) + 1]
      BY <1>0, <1>2 DEF Put, TypeOK
    <3> QED BY <3>1 DEF NoClient
  <2>5. OrderlyInv(h)'
    BY <1>0, <1>1, <2>2, <2>3, StaysOrderly
  <2>6. /\ Len(inbox'[h]) \in DOMAIN inbox'[h] /\ inbox'[h][Len(inbox'[h])] = m
        /\ 0 = Len(inbox'[h]) - Len(inbox'[h])
    BY <1>0, <2>2, <2>3, Back
  <2>7. PutAsked(h)'
    BY <2>2, <2>4, <2>6 DEF PutAsked, IsPut
  <2> QED BY <2>4, <2>5, <2>7 DEF MovesInv, PutMoves, GetMoves
<1>3. CASE Get(h)
  <2>1. PICK p \in {"file", "forbidden"} : Send(h, [type |-> "get", place |-> p])
    BY <1>3 DEF Get
  <2> DEFINE m == [type |-> "get", place |-> p]
  <2>2. m \in Message /\ m.type = "get"
    BY DEF Message, Places
  <2>3. inbox'[h] = Append(inbox[h], m)
    BY <1>0, <2>1 DEF Send, TypeOK
  <2>4. client'[h].st = "get"
    <3>1. client'[h] = [NoClient EXCEPT !.st = "get"]
      BY <1>0, <1>3 DEF Get, TypeOK
    <3> QED BY <3>1 DEF NoClient
  <2>5. OrderlyInv(h)'
    BY <1>0, <1>1, <2>2, <2>3, StaysOrderly
  <2>6. Len(inbox'[h]) \in DOMAIN inbox'[h] /\ inbox'[h][Len(inbox'[h])] = m
    BY <1>0, <2>2, <2>3, Back
  <2>7. GetAsked(h)'
    BY <2>2, <2>6 DEF GetAsked
  <2> QED BY <2>4, <2>5, <2>7 DEF MovesInv, PutMoves, GetMoves
<1> QED BY <1>2, <1>3

\* Whatever happens to a handler whose client has no request.
LEMMA IdleStep ==
  ASSUME IndInv, NEW h \in Handlers, MovesInv(h), client[h].st \notin {"put", "get"},
         Session(h) \/ Close(h) \/ Upload(h) \/ Download(h)
  PROVE  MovesInv(h)'
<1> USE DEF config, fileVars, rateVars, peerVars, sessVars, taskVars, faultVars
<1>0. TypeOK /\ OrderlyInv(h)
  BY DEF IndInv, MovesInv
<1>1. CASE Session(h) \/ Close(h)
  <2>1. client' = client
    BY <1>1 DEF Session, BeginUpload, RefuseUpload, BeginDownload, RefuseDownload, Answer,
         OfferMessage, NoTransferInProgress, Close, TimeOut, Interrupt, EndSession
  <2>2. inbox' = inbox \/ (inbox[h] # <<>> /\ inbox'[h] = Tail(inbox[h]))
    BY <1>0, <1>1 DEF Session, BeginUpload, RefuseUpload, BeginDownload, RefuseDownload, Answer,
         OfferMessage, NoTransferInProgress,
         Close, TimeOut, Interrupt, EndSession, Take, TypeOK
  <2>3. cur'[h] \in {cur[h], None} \/ (inbox[h] # <<>> /\ cur'[h] = Head(inbox[h]))
    BY <1>0, <1>1 DEF Session, BeginUpload, RefuseUpload, BeginDownload, RefuseDownload, Answer,
         OfferMessage, NoTransferInProgress,
         Close, TimeOut, Interrupt, EndSession, Take, Handed, TypeOK
  <2>4. OrderlyInv(h)'
    BY <1>0, <2>1, <2>2, <2>3, StaysOrderly
  <2> QED BY <2>1, <2>4, IdleMoves
<1>2. CASE Upload(h)
  <2>1. UNCHANGED <<client, inbox>> /\ cur'[h] \in {cur[h], None}
    BY <1>2, UploadFrame
  <2>2. OrderlyInv(h)'
    BY <1>0, <2>1, StaysOrderly
  <2> QED BY <2>1, <2>2, IdleMoves
<1>3. CASE Download(h)
  <2>1. UNCHANGED <<client, inbox>>
    BY <1>3 DEF Download, CopyChunk, CopyEnds, TakeAck, RejectAck, SendEof
  <2>2. cur'[h] \in {cur[h], None}
    BY <1>0, <1>3 DEF Download, CopyChunk, CopyEnds, TakeAck, RejectAck, SendEof, Handed, TypeOK
  <2>3. OrderlyInv(h)'
    BY <1>0, <2>1, <2>2, StaysOrderly
  <2> QED BY <2>1, <2>3, IdleMoves
<1> QED BY <1>1, <1>2, <1>3

\* A step of another handler changes nothing here.
LEMMA StillMoves ==
  ASSUME IndInv, NEW g \in Handlers, MovesInv(g), Still(g), v2' = v2,
         \A u \in 1..Len(uploads) : uploads'[u] = uploads[u]
  PROVE  MovesInv(g)'
<1>1. OrderlyInv(g)'
  BY DEF MovesInv, OrderlyInv, Still
<1>2. PutMoves(g)'
  <2>1. ASSUME client[g].st = "put", PutAnswered(g) PROVE PutAnswered(g)'
    <3>1. uploads'[client[g].u] = uploads[client[g].u]
      BY <2>1, PutTyped
    <3> QED BY <2>1, <3>1 DEF PutAnswered, EndsPut, Still
  <2>2. PutAsked(g) => PutAsked(g)'
    BY DEF PutAsked, IsPut, Still
  <2>3. PutGoesOn(g) => PutGoesOn(g)'
    BY DEF PutGoesOn, Active, Coming, Still
  <2> QED BY <2>1, <2>2, <2>3 DEF MovesInv, PutMoves, Still
<1>3. GetMoves(g)'
  <2>1. GetAnswered(g) => GetAnswered(g)'
    BY DEF GetAnswered, Still
  <2>2. GetAsked(g) => GetAsked(g)'
    BY DEF GetAsked, Still
  <2>3. GetGoesOn(g) => GetGoesOn(g)'
    BY DEF GetGoesOn, LastChunk, Still
  <2> QED BY <2>1, <2>2, <2>3 DEF MovesInv, GetMoves, Still
<1> QED BY <1>1, <1>2, <1>3 DEF MovesInv

-----------------------------------------------------------------------------
LEMMA InitMoves == ASSUME Init PROVE WaitInv
BY NoneAssumption DEF Init, WaitInv, MovesInv, OrderlyInv, PutMoves, GetMoves, NoClient

\* Every step keeps what is said of each handler, unless it fails.
LEMMA NextMoves ==
  ASSUME IndInv, WaitInv, [Next]_vars
  PROVE  WaitInv'
<1> SUFFICES ASSUME ~failed' PROVE \A g \in Handlers : MovesInv(g)'
  BY DEF WaitInv
<1>0. TypeOK /\ Ids
  BY DEF IndInv
<1>1. CASE UNCHANGED vars \/ UpdateCounters
  <2>1. /\ UNCHANGED <<v2, uploads, failed>>
        /\ \A g \in Handlers : Still(g)
    BY <1>1 DEF vars, UpdateCounters, config, fileVars, peerVars, sessVars, taskVars, faultVars,
                Still
  <2> QED BY <2>1, StillMoves DEF WaitInv
<1>2. ASSUME NEW h \in Handlers,
             \/ Session(h) \/ Close(h) \/ Upload(h) \/ Download(h) \/ Client(h)
             \/ Put(h) \/ Get(h) \/ GiveUp(h) \/ Stray(h) \/ Vanish(h)
      PROVE  \A g \in Handlers : MovesInv(g)'
  <2>1. UNCHANGED faultVars \/ Fault
    BY <1>2 DEF Session, BeginUpload, RefuseUpload, BeginDownload, RefuseDownload, Answer,
         OfferMessage, NoTransferInProgress,
         Close, TimeOut, Interrupt, EndSession, Upload, CreateFile, FirstAck, WriteChunk,
         EndOfFile, RejectChunk, ChannelClosed, BatchEnds, SendAck, Rename, Preserve, FinalAck,
         Release, Download, CopyChunk, CopyEnds, TakeAck, RejectAck, SendEof, Fail,
         Client, SendChunk, Receive, Put, Get, GiveUp, Stray, Vanish
  <2>2. ~failed /\ ~Fault
    BY <2>1 DEF Fault, faultVars
  <2>3. \A g \in Handlers : MovesInv(g)
    BY <2>2 DEF WaitInv
  <2>4. MovesInv(h)'
    <3>1. CASE client[h].st \in {"put", "get"} /\ (Session(h) \/ Upload(h) \/ Download(h))
      BY <2>3, <3>1, AskedSession, AskedUpload, AskedDownload
    <3>2. CASE client[h].st \notin {"put", "get"}
               /\ (Session(h) \/ Close(h) \/ Upload(h) \/ Download(h))
      BY <2>3, <3>2, IdleStep
    <3>3. CASE Receive(h)
      <4>1. /\ OrderlyInv(h)'
            /\ client[h].st \notin {"put", "get"} => client'[h] = client[h]
        BY <2>3, <3>3, ReceiveOrderly DEF MovesInv
      <4> QED BY <2>3, <3>3, <4>1, ReceivePut, ReceiveGet, IdleMoves
    <3>4. CASE SendChunk(h)
      BY <2>3, <3>4, SendChunkMoves
    <3>5. CASE Put(h) \/ Get(h)
      BY <2>3, <3>5, AskMoves
    <3>6. ~(GiveUp(h) \/ Stray(h) \/ Vanish(h))
      BY <2>2 DEF GiveUp, Stray, Vanish
    <3>7. Close(h) => client[h].st \notin {"put", "get"}
      BY <2>2 DEF Close, TimeOut, Interrupt
    <3> QED BY <1>2, <3>1, <3>2, <3>3, <3>4, <3>5, <3>6, <3>7 DEF Client
  <2>5. v2' = v2 /\ \A g \in Handlers \ {h} : Still(g)
    BY <1>0, <1>2, OthersStill
  <2>6. \A u \in 1..Len(uploads) : uploads'[u] = uploads[u]
    BY <1>2, StepGrows
  <2>7. \A g \in Handlers \ {h} : MovesInv(g)'
    BY <2>3, <2>5, <2>6, StillMoves
  <2> QED BY <2>4, <2>7
<1> QED BY <1>1, <1>2 DEF Next

THEOREM WaitInvariance == Spec => []WaitInv
<1>1. IndInv /\ WaitInv /\ [Next]_vars => WaitInv'
  BY NextMoves
<1> QED BY <1>1, InitMoves, Invariance, PTL DEF Spec

\* While nothing fails a client and the transfer it has asked for never wait for
\* each other, for any windows of two chunks and more (writeFile, DownloadHandler,
\* waitAck).
THEOREM NoMutualWaitHolds == Spec => []NoMutualWait
<1>1. IndInv /\ WaitInv => NoMutualWait
  <2> SUFFICES ASSUME IndInv, WaitInv, NEW h \in Handlers,
                      client[h].st \in {"put", "get"}, ~failed,
                      inbox[h] = <<>>, outbox[h] = <<>>, sess[h] # "handoff",
                      pc[h] \in {"idle", "recv", "wait", "lastAck"}
               PROVE  MaySend(h)
    BY DEF NoMutualWait
  <2>0. TypeOK /\ HandlerInv(h) /\ MovesInv(h)
    BY DEF IndInv, WaitInv
  <2>1. /\ ~PutAsked(h) /\ ~PutAnswered(h) /\ ~GetAsked(h) /\ ~GetAnswered(h)
    BY DEF PutAsked, PutAnswered, GetAsked, GetAnswered
  <2>2. job[h].off \in Nat /\ job[h].ack \in Nat
    BY <2>0 DEF TypeOK, Job
  <2>3. CASE client[h].st = "get"
    <3>1. GetGoesOn(h)
      BY <2>0, <2>1, <2>3 DEF MovesInv, GetMoves
    <3>2. /\ h \notin v2 /\ job[h].off >= job[h].ack + ACKSlidingWindowRecv
          /\ job[h].off > 0 => LastChunk(h, job[h].off - 1)
      BY <3>1 DEF GetGoesOn
    <3>3. job[h].off > 0 => job[h].ack = job[h].off - 1
      BY <3>2 DEF LastChunk
    <3> QED BY <2>2, <3>2, <3>3, WindowAssumption
  <2>4. CASE client[h].st = "put"
    <3>1. PutGoesOn(h)
      BY <2>0, <2>1, <2>4 DEF MovesInv, PutMoves
    <3>2. pc[h] = "recv" /\ client[h].u = job[h].u /\ ~job[h].done
      BY <2>0, <3>1 DEF PutGoesOn, Active, Receiving, Committing, HandlerInv, JobInv, ClientInv
    <3>3. Coming(h) = 0
      BY DEF Coming
    <3>4. client[h].sent = job[h].off
      BY <2>2, <3>1, <3>2, <3>3 DEF PutGoesOn
    <3>5. client[h].sent <= uploads[client[h].u]
      BY <2>0, <3>2, <3>4 DEF HandlerInv, JobInv, Writing
    <3>6. h \notin v2 => client[h].acked = Before(job[h].off)
      BY <3>1, <3>2 DEF PutGoesOn
    <3>7. h \notin v2 => client[h].acked # None /\ client[h].sent < client[h].acked + ClientWindow
      BY <2>2, <3>4, <3>6, WindowAssumption, NoneAssumption DEF Before
    <3> QED BY <2>4, <3>5, <3>7 DEF MaySend
  <2> QED BY <2>3, <2>4
<1> QED BY <1>1, Invariance, WaitInvariance, PTL
=============================================================================
