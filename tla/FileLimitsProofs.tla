-------------------------- MODULE FileLimitsProofs --------------------------
(***************************************************************************)
(* Proofs about the limits of FileTransfer, for any limits and any number  *)
(* of sessions: no upload reaches MaxFileSize.                             *)
(***************************************************************************)
EXTENDS FileTransferProofs

\* What is written so far is below the limit.
RoomInv(h) ==
    limits.Enabled /\ limits.MaxFileSize > 0 /\ pc[h] \in Writing
      => job[h].off < limits.MaxFileSize

LimitInv == SizeLimitKept /\ \A h \in Handlers : RoomInv(h)

-----------------------------------------------------------------------------
\* The limits are numbers.
LEMMA LimitTyped == ASSUME TypeOK PROVE limits.MaxFileSize \in Nat
BY LimitAssumption DEF TypeOK, Limits

\* How a step of an upload comes to write, and to the commit.
LEMMA UploadMoves ==
  ASSUME IndInv, NEW h \in Handlers, Upload(h)
  PROVE  /\ limits' = limits
         /\ pc'[h] \in Writing =>
              \/ pc[h] \in Writing /\ job'[h].off = job[h].off
              \/ pc[h] = "create" /\ job'[h].off = job[h].off
              \/ BelowMaxAllowedFileSize(job'[h].off)
         /\ \/ target' = target
            \/ /\ pc[h] = "rename"
               /\ target' = [data |-> temp[h], by |-> job[h].u, owner |-> h, regular |-> TRUE]
            \/ /\ pc[h] = "preserve"
               /\ target' = [target EXCEPT !.owner = Preserved(h)]
<1> USE DEF config, fileVars, Goto
<1>0. TypeOK /\ pc \in [Handlers -> Stages] /\ job \in [Handlers -> Job]
  BY DEF IndInv, TypeOK
<1>1. limits' = limits
  BY DEF Upload, CreateFile, FirstAck, WriteChunk, EndOfFile, RejectChunk, ChannelClosed,
         BatchEnds, SendAck, Rename, Preserve, FinalAck, Release
<1>2. CASE pc'[h] \in {"release", "idle"} /\ target' = target
  BY <1>1, <1>2 DEF Writing
<1>3. CASE \E tell \in BOOLEAN : Leave(h, tell)
  BY <1>0, <1>2, <1>3 DEF Leave
<1>4. CASE ~\E tell \in BOOLEAN : Leave(h, tell)
  <2>0. ~Leave(h, TRUE) /\ ~Leave(h, FALSE)
    BY <1>4
  <2> USE DEF Writing, Fail
  <2>1. CASE CreateFile(h)
    BY <1>0, <1>1, <2>1 DEF CreateFile
  <2>2. CASE FirstAck(h)
    BY <1>0, <1>1, <2>0, <2>2 DEF FirstAck
  <2>3. CASE WriteChunk(h)
    <3> DEFINE j == [job[h] EXCEPT !.off = @ + 1, !.n = @ + 1, !.last = cur[h].off]
    <3>1. /\ Receives(h) /\ BelowMaxAllowedFileSize(j.off)
          /\ AfterChunk(h, j) /\ target' = target
      BY <2>0, <2>3 DEF WriteChunk
    <3>2. job'[h] = j
      BY <1>0, <3>1 DEF AfterChunk
    <3>3. pc[h] \in {"recv", "batch"}
      BY <3>1 DEF Receives
    <3> QED BY <1>1, <3>1, <3>2, <3>3
  <2>4. CASE EndOfFile(h)
    <3> DEFINE j == [job[h] EXCEPT !.n = @ + 1, !.last = cur[h].off, !.done = TRUE]
    <3>1. Receives(h) /\ AfterChunk(h, j) /\ target' = target
      BY <2>4 DEF EndOfFile
    <3>2. job'[h] = j /\ j.off = job[h].off
      BY <1>0, <3>1 DEF AfterChunk, Job
    <3>3. pc[h] \in {"recv", "batch"}
      BY <3>1 DEF Receives
    <3> QED BY <1>1, <3>1, <3>2, <3>3
  <2>5. CASE RejectChunk(h) \/ ChannelClosed(h)
    BY <1>4, <2>5 DEF RejectChunk, ChannelClosed
  <2>6. CASE BatchEnds(h)
    BY <1>0, <1>1, <2>6 DEF BatchEnds
  <2>7. CASE SendAck(h)
    <3>1. /\ pc[h] = "ack" /\ target' = target
          /\ job' = [job EXCEPT ![h].n = 0]
      BY <2>0, <2>7 DEF SendAck
    <3>2. job'[h] = [job[h] EXCEPT !.n = 0]
      BY <1>0, <3>1
    <3>3. job'[h].off = job[h].off
      BY <1>0, <3>2 DEF Job
    <3> QED BY <1>1, <3>1, <3>3
  <2>8. CASE Rename(h)
    BY <1>0, <1>1, <2>0, <2>8 DEF Rename
  <2>9. CASE Preserve(h)
    BY <1>0, <1>1, <2>0, <2>9 DEF Preserve
  <2>10. CASE FinalAck(h)
    BY <1>0, <1>1, <2>0, <2>10 DEF FinalAck
  <2>11. CASE Release(h)
    BY <1>0, <1>1, <2>11 DEF Release
  <2> QED BY <2>1, <2>2, <2>3, <2>4, <2>5, <2>6, <2>7, <2>8, <2>9, <2>10, <2>11 DEF Upload
<1> QED BY <1>3, <1>4

\* The other steps of a handler write nothing.
LEMMA ElseMoves ==
  ASSUME IndInv, NEW h \in Handlers,
         \/ Session(h) \/ Close(h) \/ Download(h) \/ Client(h)
         \/ Put(h) \/ Get(h) \/ GiveUp(h) \/ Stray(h) \/ Vanish(h)
  PROVE  /\ UNCHANGED <<limits, target>>
         /\ \/ pc'[h] = pc[h] /\ job'[h] = job[h]
            \/ pc'[h] \notin Writing
<1> USE DEF config, fileVars, taskVars, rest, Goto
<1>0. pc \in [Handlers -> Stages]
  BY DEF IndInv, TypeOK
<1>1. CASE BeginUpload(h) \/ BeginDownload(h)
  <2>1. /\ pc' \in {[pc EXCEPT ![h] = "create"], [pc EXCEPT ![h] = "copy"]}
        /\ UNCHANGED <<limits, target>>
    BY <1>1 DEF BeginUpload, BeginDownload
  <2> QED BY <1>0, <2>1 DEF Writing
<1>2. CASE (Session(h) \/ Close(h)) /\ ~BeginUpload(h) /\ ~BeginDownload(h)
  BY <1>2 DEF Session, RefuseUpload, RefuseDownload, Answer, OfferMessage,
              NoTransferInProgress, Close, TimeOut, Interrupt, EndSession
<1>3. CASE Download(h)
  <2>1. /\ UNCHANGED <<limits, target>>
        /\ \/ pc' = pc /\ pc[h] = "copy"
           \/ \E l \in {"copy", "wait", "eof", "lastAck", "release"} :
                pc' = [pc EXCEPT ![h] = l]
    BY <1>3 DEF Download, CopyChunk, CopyEnds, TakeAck, RejectAck, SendEof, Fail, Leave
  <2>2. pc'[h] \in {"copy", "wait", "eof", "lastAck", "release"}
    BY <1>0, <2>1
  <2> QED BY <2>1, <2>2 DEF Writing
<1>4. CASE Client(h) \/ Put(h) \/ Get(h) \/ GiveUp(h) \/ Stray(h) \/ Vanish(h)
  BY <1>4 DEF Client, SendChunk, Receive, Put, Get, GiveUp, Stray, Vanish
<1> QED BY <1>1, <1>2, <1>3, <1>4

-----------------------------------------------------------------------------
LEMMA InitLimit == ASSUME Init PROVE LimitInv
BY DEF Init, LimitInv, SizeLimitKept, RoomInv, Writing

\* The step of a handler keeps its invariants.
LEMMA HandlerLimit ==
  ASSUME IndInv, LimitInv, NEW h \in Handlers,
         \/ Session(h) \/ Close(h) \/ Upload(h) \/ Download(h) \/ Client(h)
         \/ Put(h) \/ Get(h) \/ GiveUp(h) \/ Stray(h) \/ Vanish(h)
  PROVE  limits' = limits /\ SizeLimitKept' /\ RoomInv(h)'
<1>0. /\ TypeOK /\ Ids /\ JobInv(h) /\ HandlerInv(h) /\ FileInv
      /\ RoomInv(h) /\ SizeLimitKept
  BY DEF IndInv, HandlerInv, LimitInv
<1>1. CASE Upload(h)
  <2>1. RoomInv(h)'
    <3>1. limits.MaxFileSize \in Nat /\ (pc[h] = "create" => job[h].off = 0)
      BY <1>0, LimitTyped DEF JobInv
    <3> QED BY <1>0, <1>1, <3>1, UploadMoves DEF RoomInv, BelowMaxAllowedFileSize
  <2>2. CASE target' = target
    <3>1. limits' = limits
      BY <1>1, UploadMoves
    <3> QED BY <1>0, <2>1, <2>2, <3>1 DEF SizeLimitKept
  <2>3. CASE /\ pc[h] = "rename"
             /\ target' = [data |-> temp[h], by |-> job[h].u, owner |-> h, regular |-> TRUE]
    <3>1. target'.data = temp[h] /\ limits' = limits
      BY <1>1, <2>3, UploadMoves
    <3>2. Len(temp[h]) = job[h].off
      BY <1>0, <2>3 DEF JobInv, Writing
    <3> QED BY <1>0, <2>1, <2>3, <3>1, <3>2 DEF SizeLimitKept, RoomInv, Writing
  <2>4. CASE /\ pc[h] = "preserve"
             /\ target' = [target EXCEPT !.owner = Preserved(h)]
    <3>1. target # None /\ limits' = limits
      BY <1>0, <1>1, <2>4, UploadMoves DEF JobInv, FileInv
    <3>2. target'.data = target.data /\ target'.by = target.by
      BY <1>0, <2>4, <3>1 DEF TypeOK, File
    <3> QED BY <1>0, <2>1, <3>1, <3>2 DEF SizeLimitKept
  <2> QED BY <1>1, <2>2, <2>3, <2>4, UploadMoves
<1>2. CASE ~Upload(h)
  <2>1. /\ UNCHANGED <<limits, target>>
        /\ (pc'[h] = pc[h] /\ job'[h] = job[h]) \/ pc'[h] \notin Writing
    BY <1>2, ElseMoves
  <2> QED BY <1>0, <2>1 DEF SizeLimitKept, RoomInv
<1> QED BY <1>1, <1>2

\* Every step keeps the invariant.
LEMMA NextLimit == ASSUME IndInv, LimitInv, [Next]_vars PROVE LimitInv'
<1>0. TypeOK
  BY DEF IndInv
<1>1. CASE UNCHANGED vars \/ UpdateCounters
  <2>1. UNCHANGED <<limits, target, pc, job>>
    BY <1>1 DEF vars, UpdateCounters, config, fileVars, taskVars
  <2> QED BY <2>1 DEF LimitInv, SizeLimitKept, RoomInv
<1>2. ASSUME NEW h \in Handlers,
             \/ Session(h) \/ Close(h) \/ Upload(h) \/ Download(h) \/ Client(h)
             \/ Put(h) \/ Get(h) \/ GiveUp(h) \/ Stray(h) \/ Vanish(h)
      PROVE  LimitInv'
  <2>1. limits' = limits /\ SizeLimitKept' /\ RoomInv(h)'
    BY <1>2, HandlerLimit
  <2>2. \A g \in Handlers \ {h} : pc'[g] = pc[g] /\ job'[g] = job[g]
    BY <1>0, <1>2, OthersStill DEF Still
  <2>3. ASSUME NEW g \in Handlers, g # h PROVE RoomInv(g)'
    BY <2>1, <2>2, <2>3 DEF LimitInv, RoomInv
  <2> QED BY <2>1, <2>3 DEF LimitInv
<1> QED BY <1>1, <1>2 DEF Next

THEOREM LimitInvariance == Spec => []LimitInv
BY InitLimit, NextLimit, Invariance, PTL DEF Spec

\* What an upload puts in place is smaller than MaxFileSize: dstWrite compares
\* the offset after every chunk, and nothing is renamed that has not passed.
THEOREM SizeLimitKeptHolds == Spec => []SizeLimitKept
<1>1. LimitInv => SizeLimitKept
  BY DEF LimitInv
<1> QED BY <1>1, LimitInvariance, PTL

=============================================================================
