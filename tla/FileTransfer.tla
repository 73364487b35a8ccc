---------------------------- MODULE FileTransfer ----------------------------
(***************************************************************************)
(* File transfer (session/filetransfer.go) under the limits of the device  *)
(* (limits/filetransfer/limits.go): any number of handlers, one file.      *)
(*                                                                         *)
(*   sess[h]    the session goroutine in ServeProtoMsg of handler h: it    *)
(*              begins or refuses a transfer, or hands a message over      *)
(*   pc[h]      the goroutine of the transfer, if one is in progress; not  *)
(*              "idle" means that h.mutex is taken                         *)
(*   client[h]  the peer: external, it asks, sends chunks ahead of their   *)
(*              acknowledgements, acknowledges what it gets, gives up      *)
(*                                                                         *)
(* Handlers are separate objects, one per session and protocol, and meet   *)
(* only in the file system and in the device's rate counters.  A session's *)
(* messages arrive in order and complete until the client is gone.         *)
(*                                                                         *)
(* Sizes and offsets count chunks.  A chunk is the pair of the upload it   *)
(* comes from and its place, so contents can be told apart.  Owner, group  *)
(* and mode of the file are one value.  The minute averages of the rate    *)
(* counters are reduced to which of them are over their limit: never one   *)
(* of a direction nothing was counted for.                                 *)
(***************************************************************************)
EXTENDS Naturals, Sequences, FiniteSets

CONSTANTS Handlers,     \* FileTransferHandler objects
          None,
          ACKSlidingWindowSend, ACKSlidingWindowRecv,
          ClientWindow, \* chunks a client sends ahead of acknowledgements
          LimitChoices, \* the configurations of config.Limits considered
          FileSizes,    \* bound: chunks of the file at the start
          UploadSizes,  \* bound: chunks of an upload
          MaxRequests,  \* bound: uploads and downloads that clients ask for
          MaxFaults     \* bound: failures, clients that give up or leave

Directions == {"rx", "tx"}
Limits == [Enabled : BOOLEAN, AllowOverwrite : BOOLEAN, OwnerPut : BOOLEAN,
           OwnerGet : BOOLEAN, RegularFilesOnly : BOOLEAN, Rated : BOOLEAN,
           DirOwned : BOOLEAN, MaxFileSize : Nat]

ASSUME NoneAssumption == None \notin Handlers \cup Nat /\ None # "put"
ASSUME HandlerAssumption == Handlers \cap {"put", "other"} = {}
\* An acknowledgement carries the offset of the last chunk received, and so
\* opens a window by one chunk less than its size.
ASSUME WindowAssumption == /\ ACKSlidingWindowSend \in Nat \ {0}
                           /\ ACKSlidingWindowRecv \in Nat \ {0, 1}
                           /\ ClientWindow \in Nat \ {0, 1}
ASSUME LimitAssumption == LimitChoices \subseteq Limits
ASSUME BoundAssumption == /\ FileSizes \subseteq Nat /\ UploadSizes \subseteq Nat
                          /\ MaxRequests \in Nat /\ MaxFaults \in Nat

VARIABLES limits,   \* p.limits
          v2,       \* the handlers of version 2 of the protocol
          uploads,  \* the size of each upload; the first one made the file that
                    \* may be there at the start
          target,   \* the file at the path of the requests, or None
          temp,     \* content of the temporary file of h, or None
          leftover, \* the handlers that could not remove a temporary file
          counted,  \* the directions bytes were counted for
          over,     \* the directions whose average is over its limit
          commits,  \* the uploads that took the place of the file: history
          client, inbox, outbox,
          sess, cur, \* the session goroutine, the message it hands over
          pc, job,  \* the goroutine of the transfer and its local variables
          requests, faults, \* how many more there may be
          failed    \* whether there has been one: history

fileVars == <<target, temp, leftover, commits>>
rateVars == <<counted, over>>
peerVars == <<client, inbox, uploads, requests>>
sessVars == <<sess, cur>>
taskVars == <<pc, job>>
faultVars == <<faults, failed>>
config == <<limits, v2>>
vars == <<limits, v2, uploads, target, temp, leftover, commits, counted, over, client,
          inbox, outbox, sess, cur, pc, job, requests, faults, failed>>

\* The content of upload u, whole.
Content(u) == [k \in 1..uploads[u] |-> <<u, k>>]

\* off, ack: chunker.Offset or offset, ackOffset; start: the offset at which a
\* window was opened; n: messages since the last acknowledgement; last: offset
\* of the last message; data: content of the file that is open.
NoJob == [u |-> 0, off |-> 0, ack |-> 0, start |-> 0, n |-> 0, last |-> 0,
          done |-> FALSE, data |-> <<>>]

\* sent: chunks sent, the EOF among them; acked: the offset in the last
\* acknowledgement, None before the first; got: the chunks received.
NoClient == [st |-> "idle", u |-> 0, sent |-> 0, acked |-> None, got |-> <<>>]

Init ==
    /\ limits \in LimitChoices
    /\ v2 \in SUBSET Handlers
    /\ \E n \in FileSizes, o \in {"put", "other"}, r \in BOOLEAN :
         /\ uploads = <<n>>
         /\ target \in {None, [data |-> [k \in 1..n |-> <<1, k>>], by |-> 1,
                               owner |-> o, regular |-> r]}
    /\ temp = [h \in Handlers |-> None] /\ leftover = {} /\ commits = {}
    /\ counted = {} /\ over = {}
    /\ client = [h \in Handlers |-> NoClient]
    /\ inbox = [h \in Handlers |-> <<>>] /\ outbox = [h \in Handlers |-> <<>>]
    /\ sess \in [Handlers -> {"serve", "closed"}] /\ cur = [h \in Handlers |-> None]
    /\ pc = [h \in Handlers |-> "idle"] /\ job = [h \in Handlers |-> NoJob]
    /\ requests \in 0..MaxRequests /\ faults \in 0..MaxFaults /\ failed = FALSE

Goto(h, l) == pc' = [pc EXCEPT ![h] = l]
Fault == faults > 0 /\ faults' = faults - 1 /\ failed' = TRUE

\* WriteProtoMsg; what is written for a client that is gone is lost.
Write(h, m) == outbox' = [outbox EXCEPT ![h] =
                 IF client[h].st = "gone" THEN @ ELSE Append(@, m)]
InfoMsg == [type |-> "info", off |-> None, data |-> None]
ErrorMsg == [type |-> "error", off |-> None, data |-> None]
Ack(off) == [type |-> "ack", off |-> off, data |-> None]
Chunk(off, data) == [type |-> "chunk", off |-> off, data |-> data]

-----------------------------------------------------------------------------
(* limits/filetransfer/limits.go                                           *)

\* UploadFile.  A "forbidden" request leaves the chroot, follows a link or asks
\* for the set-user-id bit or too large a file.  A path that names a directory
\* ("dir", "inDir": with SrcPath, to be put into it) exists, and is checked in
\* place of the file.
PermitUpload(m) ==
    LET dir    == m.place \in {"dir", "inDir"}
        exists == dir \/ target # None
        owned  == IF dir THEN limits.DirOwned ELSE target.owner = "put"
    IN limits.Enabled =>
         /\ m.place # "forbidden"
         /\ exists => limits.AllowOverwrite /\ (limits.OwnerPut => owned)

\* DownloadFile, of a file that exists.
PermitDownload(m) ==
    limits.Enabled =>
      /\ limits.RegularFilesOnly => target.regular
      /\ m.place # "forbidden"
      /\ limits.OwnerGet => target.owner = "put"
      /\ limits.MaxFileSize > 0 => Len(target.data) <= limits.MaxFileSize

\* The result of BytesSent and BytesReceived: the average of the last minute.
BelowLimit(d) == limits.Enabled /\ limits.Rated => d \notin over

\* Their effect, for a number of bytes that is not zero; without a limit on the
\* rate nobody looks at the counters.
Count(d) == counted' = IF limits.Enabled /\ limits.Rated THEN counted \cup {d}
                                                         ELSE counted

\* Mutant: a file may grow to the limit.
BelowMaxAllowedFileSizeAtMost(off) ==
    limits.Enabled /\ limits.MaxFileSize > 0 => off <= limits.MaxFileSize

BelowMaxAllowedFileSize(off) ==
    limits.Enabled /\ limits.MaxFileSize > 0 => off < limits.MaxFileSize

\* A tick of updateCounters.
UpdateCounters ==
    /\ over' \in SUBSET counted
    /\ UNCHANGED <<config, fileVars, counted, peerVars, outbox, sessVars, taskVars,
                   faultVars>>

\* The owner that PreserveOwnerGroup and PreserveModes give the file: that of
\* OwnerPut, or the one asked for (PreserveOwner and PreserveMode are always
\* set by applyDefaults).
Preserved(h) == IF ~limits.Enabled THEN target.owner
                ELSE IF limits.OwnerPut THEN "put" ELSE h

-----------------------------------------------------------------------------
(* The session goroutine: ServeProtoMsg.                                   *)

Take(h, type) ==
    /\ sess[h] = "serve" /\ inbox[h] # <<>>
    /\ Head(inbox[h]).type = type
    /\ inbox' = [inbox EXCEPT ![h] = Tail(@)]

\* The checks of InitFileUpload in their order: the permit, the rate, Lstat of
\* the path (a directory without SrcPath and an irregular file conflict) and
\* the mutex.
MayUpload(h, m) ==
    /\ PermitUpload(m) /\ BelowLimit("rx")
    /\ m.place # "dir"
    /\ target # None => target.regular
    /\ pc[h] = "idle"

BeginUpload(h) ==
    /\ Take(h, "put")
    /\ MayUpload(h, Head(inbox[h]))
    /\ Goto(h, "create")
    /\ job' = [job EXCEPT ![h].u = Head(inbox[h]).u]
    /\ UNCHANGED <<config, fileVars, rateVars, client, uploads, requests, outbox,
                   sessVars, faultVars>>

RefuseUpload(h) ==
    /\ Take(h, "put")
    /\ ~MayUpload(h, Head(inbox[h]))
    /\ Write(h, ErrorMsg)
    /\ UNCHANGED <<config, fileVars, rateVars, client, uploads, requests, sessVars,
                   taskVars, faultVars>>

\* The checks of InitFileDownload.
MayDownload(h, m) ==
    /\ target # None /\ PermitDownload(m) /\ BelowLimit("tx")
    /\ pc[h] = "idle"

BeginDownload(h) ==
    /\ Take(h, "get")
    /\ MayDownload(h, Head(inbox[h]))
    /\ Goto(h, "copy")
    /\ job' = [job EXCEPT ![h].data = target.data]
    /\ UNCHANGED <<config, fileVars, rateVars, client, uploads, requests, outbox,
                   sessVars, faultVars>>

RefuseDownload(h) ==
    /\ Take(h, "get")
    /\ ~MayDownload(h, Head(inbox[h]))
    /\ Write(h, ErrorMsg)
    /\ UNCHANGED <<config, fileVars, rateVars, client, uploads, requests, sessVars,
                   taskVars, faultVars>>

\* StatFile, which only looks, and types of messages that are not supported.
Answer(h) ==
    /\ Take(h, "other")
    /\ Write(h, InfoMsg) \/ Write(h, ErrorMsg)
    /\ UNCHANGED <<config, fileVars, rateVars, client, uploads, requests, sessVars,
                   taskVars, faultVars>>

\* The session goroutine enters the select on h.mutex and h.msgChan.
OfferMessage(h) ==
    /\ \E type \in {"chunk", "ack", "error"} : Take(h, type)
    /\ sess' = [sess EXCEPT ![h] = "handoff"]
    /\ cur' = [cur EXCEPT ![h] = Head(inbox[h])]
    /\ UNCHANGED <<config, fileVars, rateVars, client, uploads, requests, outbox,
                   taskVars, faultVars>>

\* The select's other case: the rendezvous on h.msgChan, a part of the
\* transfer's step.
Handed(h) ==
    /\ sess[h] = "handoff"
    /\ sess' = [sess EXCEPT ![h] = "serve"]
    /\ cur' = [cur EXCEPT ![h] = None]

\* Mutant: the session goroutine does not try the mutex.
NoTransferInProgressNever(h) == FALSE /\ UNCHANGED vars

\* The mutex is free: "no file transfer in progress", an error is only logged (when
\* it holds none, Interrupt).
NoTransferInProgress(h) ==
    /\ Handed(h) /\ pc[h] = "idle"
    /\ IF cur[h].type = "error" THEN UNCHANGED outbox ELSE Write(h, ErrorMsg)
    /\ UNCHANGED <<config, fileVars, rateVars, peerVars, taskVars, faultVars>>

\* The session has ended, and has closed h.msgChan: nobody reads its messages.
EndSession(h) ==
    /\ sess' = [sess EXCEPT ![h] = "closed"]
    /\ cur' = [cur EXCEPT ![h] = None]
    /\ UNCHANGED <<config, fileVars, rateVars, peerVars, outbox, taskVars>>

\* The session of a client that is silent.
TimeOut(h) ==
    /\ sess[h] = "serve" /\ inbox[h] = <<>>
    /\ client[h].st \notin {"put", "get"}
    /\ EndSession(h) /\ UNCHANGED faultVars

\* Whatever its client does, also in the middle of a transfer: a control message
\* or a ping that fails ends the session, or a handler's panic, such as that of
\* *erro.Error for an error message without an error, when no transfer runs.
Interrupt(h) ==
    /\ \/ sess[h] = "serve"
       \/ sess[h] = "handoff" /\ pc[h] = "idle" /\ cur[h].type = "error"
    /\ EndSession(h) /\ Fault

Close(h) == TimeOut(h) \/ Interrupt(h)

-----------------------------------------------------------------------------
(* FileUploadHandler                                                       *)

\* Mutant: the temporary file of an aborted upload stays.
LeaveTempOnAbort(h, tell) ==
    /\ temp' = IF tell THEN [temp EXCEPT ![h] = None] ELSE temp
    /\ IF tell THEN Write(h, ErrorMsg) ELSE UNCHANGED outbox
    /\ Goto(h, "release")
    /\ UNCHANGED <<target, leftover, commits, job>>

\* The deferred function of both transfers, up to the mutex: it removes the
\* temporary file, or logs that it could not, and tells the client of an error that
\* is no abort.  A file that stays is no transfer's: the next one has another name.
Leave(h, tell) ==
    /\ temp' = [temp EXCEPT ![h] = None]
    /\ \/ UNCHANGED leftover
       \/ temp[h] # None /\ leftover' = leftover \cup {h}
    /\ IF tell THEN Write(h, ErrorMsg) ELSE UNCHANGED outbox
    /\ Goto(h, "release")
    /\ UNCHANGED <<target, commits, job>>

Fail(h, tell) == Fault /\ Leave(h, tell)

\* createWrOnlyTempFile; its error is reported here and by the deferred function.
CreateFile(h) ==
    /\ pc[h] = "create"
    /\ \/ /\ temp' = [temp EXCEPT ![h] = <<>>]
          /\ Goto(h, IF h \in v2 THEN "recv" ELSE "firstAck")
          /\ UNCHANGED <<outbox, faultVars>>
       \/ /\ Fault /\ UNCHANGED temp
          /\ outbox' = [outbox EXCEPT ![h] = IF client[h].st = "gone" THEN @
                                       ELSE Append(Append(@, ErrorMsg), ErrorMsg)]
          /\ Goto(h, "release")
    /\ UNCHANGED <<config, target, leftover, commits, rateVars, peerVars, sessVars, job>>

FirstAck(h) ==
    /\ pc[h] = "firstAck"
    /\ \/ /\ Write(h, Ack(0)) /\ Goto(h, "recv")
          /\ UNCHANGED <<fileVars, job, faultVars>>
       \/ Fail(h, FALSE)
    /\ UNCHANGED <<config, rateVars, peerVars, sessVars>>

\* Where writeFile goes after message j.last: version 2 sends no
\* acknowledgement, version 1 looks for more messages, even after the EOF.
AfterChunk(h, j) == /\ job' = [job EXCEPT ![h] = j]
                    /\ Goto(h, IF h \notin v2 THEN "batch"
                               ELSE IF j.done THEN "rename" ELSE "recv")

\* Mutant: the offset of a chunk is not looked at.
InPlaceAnywhere(h, m) == m.type = "chunk"

\* writeChunk: a chunk that is in its place.
InPlace(h, m) == m.type = "chunk" /\ m.off = job[h].off

\* The transfer takes a message off h.msgChan, blocking ("recv") or, as long as
\* the batch has room, if the session goroutine offers one ("batch").
Receives(h) == /\ \/ pc[h] = "recv"
                  \/ pc[h] = "batch" /\ job[h].n < ACKSlidingWindowSend
               /\ Handed(h)

WriteChunk(h) ==
    /\ Receives(h) /\ InPlace(h, cur[h]) /\ cur[h].data # None
    /\ LET j == [job[h] EXCEPT !.off = @ + 1, !.n = @ + 1, !.last = cur[h].off]
       IN \/ /\ Count("rx")
             /\ IF BelowLimit("rx") /\ BelowMaxAllowedFileSize(j.off)
                  THEN /\ temp' = [temp EXCEPT ![h] = Append(@, cur[h].data)]
                       /\ AfterChunk(h, j)
                       /\ UNCHANGED <<target, leftover, commits, outbox>>
                  ELSE Leave(h, TRUE)
             /\ UNCHANGED faultVars
          \/ Fail(h, TRUE) /\ UNCHANGED counted
    /\ UNCHANGED <<config, over, peerVars>>

EndOfFile(h) ==
    /\ Receives(h) /\ InPlace(h, cur[h]) /\ cur[h].data = None
    /\ AfterChunk(h, [job[h] EXCEPT !.n = @ + 1, !.last = cur[h].off, !.done = TRUE])
    /\ UNCHANGED <<config, fileVars, rateVars, peerVars, outbox, faultVars>>

\* An error of the client aborts the upload, any other message fails it.
RejectChunk(h) ==
    /\ Receives(h) /\ ~InPlace(h, cur[h])
    /\ Leave(h, cur[h].type # "error")
    /\ UNCHANGED <<config, rateVars, peerVars, faultVars>>

\* Mutant: the transfer does not see that h.msgChan is closed.
ChannelClosedNever(h) == FALSE /\ UNCHANGED vars

\* The closed h.msgChan aborts an upload and a download that waits.
ChannelClosed(h) ==
    /\ sess[h] = "closed"
    /\ \/ pc[h] \in {"recv", "wait", "lastAck"}
       \/ pc[h] = "batch" /\ job[h].n < ACKSlidingWindowSend
    /\ Leave(h, FALSE)
    /\ UNCHANGED <<config, rateVars, peerVars, sessVars, faultVars>>

BatchEnds(h) ==
    /\ pc[h] = "batch"
    /\ job[h].n = ACKSlidingWindowSend \/ sess[h] = "serve"
    /\ Goto(h, "ack")
    /\ UNCHANGED <<config, fileVars, rateVars, peerVars, outbox, sessVars, job, faultVars>>

\* The acknowledgement of the last message, with the offset of that message.
SendAck(h) ==
    /\ pc[h] = "ack"
    /\ \/ /\ Write(h, Ack(job[h].last))
          /\ job' = [job EXCEPT ![h].n = 0]
          /\ Goto(h, IF job[h].done THEN "rename" ELSE "recv")
          /\ UNCHANGED <<fileVars, faultVars>>
       \/ Fail(h, FALSE)
    /\ UNCHANGED <<config, rateVars, peerVars, sessVars>>

\* Mutant: the file is removed to make room for the new one.
RenameRemoves(h) ==
    /\ pc[h] = "rename"
    /\ \/ /\ target' = [data |-> temp[h], by |-> job[h].u, owner |-> h,
                         regular |-> TRUE]
          /\ temp' = [temp EXCEPT ![h] = None]
          /\ commits' = commits \cup {job[h].u}
          /\ Goto(h, "preserve")
          /\ UNCHANGED <<leftover, outbox, job, faultVars>>
       \/ /\ Fault /\ target' = None
          /\ temp' = [temp EXCEPT ![h] = None]
          /\ Write(h, ErrorMsg) /\ Goto(h, "release")
          /\ UNCHANGED <<leftover, commits, job>>
    /\ UNCHANGED <<config, rateVars, peerVars, sessVars>>

\* Mutant: the client is not told that the file could not be renamed.
RenameFailsSilently(h) ==
    /\ pc[h] = "rename"
    /\ \/ /\ target' = [data |-> temp[h], by |-> job[h].u, owner |-> h,
                         regular |-> TRUE]
          /\ temp' = [temp EXCEPT ![h] = None]
          /\ commits' = commits \cup {job[h].u}
          /\ Goto(h, "preserve")
          /\ UNCHANGED <<leftover, outbox, job, faultVars>>
       \/ Fail(h, FALSE)
    /\ UNCHANGED <<config, rateVars, peerVars, sessVars>>

\* Chmod and Chown of the temporary file, which then takes the file's place.
Rename(h) ==
    /\ pc[h] = "rename"
    /\ \/ /\ target' = [data |-> temp[h], by |-> job[h].u, owner |-> h,
                         regular |-> TRUE]
          /\ temp' = [temp EXCEPT ![h] = None]
          /\ commits' = commits \cup {job[h].u}
          /\ Goto(h, "preserve")
          /\ UNCHANGED <<leftover, outbox, job, faultVars>>
       \/ Fail(h, TRUE)
    /\ UNCHANGED <<config, rateVars, peerVars, sessVars>>

\* PreserveOwnerGroup and PreserveModes, by the path of the file.
Preserve(h) ==
    /\ pc[h] = "preserve"
    /\ \/ /\ target' = [target EXCEPT !.owner = Preserved(h)]
          /\ Goto(h, IF h \in v2 THEN "finalAck" ELSE "release")
          /\ UNCHANGED <<temp, leftover, commits, outbox, job, faultVars>>
       \/ Fail(h, TRUE)
    /\ UNCHANGED <<config, rateVars, peerVars, sessVars>>

FinalAck(h) ==
    /\ pc[h] = "finalAck"
    /\ \/ Write(h, Ack(None)) /\ Goto(h, "release") /\ UNCHANGED <<fileVars, job, faultVars>>
       \/ Fail(h, TRUE)
    /\ UNCHANGED <<config, rateVars, peerVars, sessVars>>

\* The mutex, the last thing the deferred functions do.
Release(h) ==
    /\ pc[h] = "release"
    /\ Goto(h, "idle") /\ job' = [job EXCEPT ![h] = NoJob]
    /\ UNCHANGED <<config, fileVars, rateVars, peerVars, outbox, sessVars, faultVars>>

-----------------------------------------------------------------------------
(* DownloadHandler                                                         *)

\* Mutant: the window is one chunk too narrow.
WindowOpenNarrow(h, off) == h \in v2 \/ off + 1 < job[h].ack + ACKSlidingWindowRecv

\* Mutant: the window is one chunk too wide.
WindowOpenWide(h, off) == h \in v2 \/ off <= job[h].ack + ACKSlidingWindowRecv

WindowOpen(h, off) == h \in v2 \/ off < job[h].ack + ACKSlidingWindowRecv

\* Mutant: the file is opened again for every chunk.
CopyChunkReopened(h) ==
    /\ pc[h] = "copy"
    /\ job[h].off < Len(target.data) /\ WindowOpen(h, job[h].off)
    /\ \/ /\ Write(h, Chunk(job[h].off, target.data[job[h].off + 1]))
          /\ job' = [job EXCEPT ![h].off = @ + 1]
          /\ UNCHANGED <<fileVars, pc, faultVars>>
       \/ Fail(h, TRUE)
    /\ UNCHANGED <<config, rateVars, peerVars, sessVars>>

\* A chunk of io.CopyBuffer, and of the io.LimitReader in version 1.
CopyChunk(h) ==
    /\ pc[h] = "copy"
    /\ job[h].off < Len(job[h].data) /\ WindowOpen(h, job[h].off)
    /\ \/ /\ Write(h, Chunk(job[h].off, job[h].data[job[h].off + 1]))
          /\ job' = [job EXCEPT ![h].off = @ + 1]
          /\ UNCHANGED <<fileVars, pc, faultVars>>
       \/ Fail(h, TRUE)
    /\ UNCHANGED <<config, rateVars, peerVars, sessVars>>

\* Only version 1 counts what it has sent.
CopyEnds(h) ==
    /\ pc[h] = "copy"
    /\ ~(job[h].off < Len(job[h].data) /\ WindowOpen(h, job[h].off))
    /\ LET counts == h \notin v2 /\ WindowOpen(h, job[h].start)
       IN /\ IF counts /\ job[h].off > job[h].start THEN Count("tx")
                                                    ELSE UNCHANGED counted
          /\ IF counts /\ ~BelowLimit("tx")
               THEN Leave(h, TRUE)
               ELSE /\ Goto(h, IF WindowOpen(h, job[h].off) THEN "eof" ELSE "wait")
                    /\ UNCHANGED <<fileVars, outbox, job>>
    /\ UNCHANGED <<config, over, peerVars, sessVars, faultVars>>

\* Mutant: the offset of an acknowledgement may be blank.
TakeAckBlank(h) ==
    /\ pc[h] \in {"wait", "lastAck"} /\ Handed(h)
    /\ cur[h].type = "ack"
    /\ job' = [job EXCEPT ![h].ack = cur[h].off, ![h].start = job[h].off]
    /\ Goto(h, IF pc[h] = "wait" \/ cur[h].off = None THEN "copy"
               ELSE IF cur[h].off < job[h].off THEN "lastAck" ELSE "release")
    /\ UNCHANGED <<config, fileVars, rateVars, peerVars, outbox, faultVars>>

\* waitAck, in the loop of the windows and after the EOF.
TakeAck(h) ==
    /\ pc[h] \in {"wait", "lastAck"} /\ Handed(h)
    /\ cur[h].type = "ack" /\ cur[h].off # None
    /\ job' = [job EXCEPT ![h].ack = cur[h].off, ![h].start = job[h].off]
    /\ Goto(h, IF pc[h] = "wait" THEN "copy"
               ELSE IF cur[h].off < job[h].off THEN "lastAck" ELSE "release")
    /\ UNCHANGED <<config, fileVars, rateVars, peerVars, outbox, faultVars>>

RejectAck(h) ==
    /\ pc[h] \in {"wait", "lastAck"} /\ Handed(h)
    /\ ~(cur[h].type = "ack" /\ cur[h].off # None)
    /\ Leave(h, cur[h].type # "error")
    /\ UNCHANGED <<config, rateVars, peerVars, faultVars>>

SendEof(h) ==
    /\ pc[h] = "eof"
    /\ \/ /\ Write(h, Chunk(job[h].off, None))
          /\ Goto(h, IF h \in v2 \/ job[h].off <= job[h].ack THEN "release"
                                                             ELSE "lastAck")
          /\ UNCHANGED <<fileVars, job, faultVars>>
       \/ Fail(h, TRUE)
    /\ UNCHANGED <<config, rateVars, peerVars, sessVars>>

-----------------------------------------------------------------------------
(* The client.  One that has been told of an error, or gives up, asks for  *)
(* nothing more in its session ("quit"); one that is gone is not heard of  *)
(* again, and takes the end of what it has sent with it.                   *)

Send(h, m) == inbox' = [inbox EXCEPT ![h] = Append(@, m)]
rest == <<config, fileVars, rateVars, sessVars, taskVars>>

Put(h) ==
    /\ client[h].st = "idle" /\ sess[h] # "closed" /\ requests > 0
    /\ \E n \in UploadSizes, p \in {"file", "inDir", "dir", "forbidden"} :
         /\ uploads' = Append(uploads, n)
         /\ Send(h, [type |-> "put", u |-> Len(uploads) + 1, place |-> p])
    /\ client' = [client EXCEPT ![h] = [NoClient EXCEPT !.st = "put",
                                                       !.u = Len(uploads) + 1]]
    /\ requests' = requests - 1
    /\ UNCHANGED <<rest, outbox, faultVars>>

Get(h) ==
    /\ client[h].st = "idle" /\ sess[h] # "closed" /\ requests > 0
    /\ \E p \in {"file", "forbidden"} : Send(h, [type |-> "get", place |-> p])
    /\ client' = [client EXCEPT ![h] = [NoClient EXCEPT !.st = "get"]]
    /\ requests' = requests - 1
    /\ UNCHANGED <<rest, uploads, outbox, faultVars>>

\* In version 1 the client keeps to a window of its own.
MaySend(h) ==
    LET c == client[h]  IN
    /\ c.st = "put" /\ c.sent <= uploads[c.u]
    /\ h \notin v2 => c.acked # None /\ c.sent < c.acked + ClientWindow

\* Chunk number sent of its file, or the EOF when there is none.
SendChunk(h) ==
    LET c == client[h]  IN
    /\ MaySend(h)
    /\ Send(h, Chunk(c.sent, IF c.sent < uploads[c.u] THEN <<c.u, c.sent + 1>>
                                                           ELSE None))
    /\ client' = [client EXCEPT ![h].sent = @ + 1]
    /\ UNCHANGED <<rest, uploads, requests, outbox, faultVars>>

\* What the client makes of message m.
After(h, m) ==
    LET c == client[h]
        whole == c.sent > uploads[c.u] /\ m.off \in {None, uploads[c.u]}
    IN CASE c.st \in {"put", "get"} /\ m.type = "error" ->
              [NoClient EXCEPT !.st = "quit", !.u = c.u]
         [] c.st = "put" /\ m.type = "ack" ->
              IF whole THEN NoClient ELSE [c EXCEPT !.acked = m.off]
         [] c.st = "get" /\ m.type = "chunk" ->
              IF m.data = None THEN NoClient ELSE [c EXCEPT !.got = Append(@, m.data)]
         [] OTHER -> c

Receive(h) ==
    /\ outbox[h] # <<>>
    /\ LET m == Head(outbox[h])
       IN /\ client' = [client EXCEPT ![h] = After(h, m)]
          /\ IF client[h].st = "get" /\ m.type = "chunk" /\ h \notin v2
               THEN Send(h, Ack(m.off)) ELSE UNCHANGED inbox
    /\ outbox' = [outbox EXCEPT ![h] = Tail(@)]
    /\ UNCHANGED <<rest, uploads, requests, faultVars>>

GiveUp(h) ==
    /\ client[h].st \in {"put", "get"} /\ Fault
    /\ client' = [client EXCEPT ![h] = [NoClient EXCEPT !.st = "quit", !.u = client[h].u]]
    /\ Send(h, ErrorMsg)
    /\ UNCHANGED <<rest, uploads, requests, outbox>>

\* A message without an offset, or one that is not about the transfer.
Stray(h) ==
    /\ client[h].st \in {"put", "get"} /\ Fault
    /\ \E m \in {Ack(None), Chunk(None, None), [Ack(None) EXCEPT !.type = "other"]} :
         Send(h, m)
    /\ UNCHANGED <<rest, client, uploads, requests, outbox>>

Vanish(h) ==
    /\ client[h].st \in {"put", "get"} /\ Fault
    /\ client' = [client EXCEPT ![h] = [NoClient EXCEPT !.st = "gone", !.u = client[h].u]]
    /\ \E k \in 0..Len(inbox[h]) : inbox' = [inbox EXCEPT ![h] = SubSeq(@, 1, k)]
    /\ outbox' = [outbox EXCEPT ![h] = <<>>]
    /\ UNCHANGED <<rest, uploads, requests>>

-----------------------------------------------------------------------------
Session(h) == BeginUpload(h) \/ RefuseUpload(h) \/ BeginDownload(h)
              \/ RefuseDownload(h) \/ Answer(h) \/ OfferMessage(h)
              \/ NoTransferInProgress(h)

Upload(h) == CreateFile(h) \/ FirstAck(h) \/ WriteChunk(h) \/ EndOfFile(h)
             \/ RejectChunk(h) \/ ChannelClosed(h) \/ BatchEnds(h) \/ SendAck(h)
             \/ Rename(h) \/ Preserve(h) \/ FinalAck(h)
             \/ Release(h)

Download(h) == CopyChunk(h) \/ CopyEnds(h) \/ TakeAck(h) \/ RejectAck(h) \/ SendEof(h)

Client(h) == SendChunk(h) \/ Receive(h)

Next == \/ UpdateCounters
        \/ \E h \in Handlers :
             \/ Session(h) \/ Close(h) \/ Upload(h) \/ Download(h) \/ Client(h)
             \/ Put(h) \/ Get(h) \/ GiveUp(h) \/ Stray(h) \/ Vanish(h)

Spec == Init /\ [][Next]_vars

\* Goroutines are scheduled; a client that has a transfer sends what it may and
\* reads what it is sent; the session of a silent client ends in time.
Fairness == \A h \in Handlers : /\ WF_vars(Session(h)) /\ WF_vars(Upload(h) \/ Download(h))
                               /\ WF_vars(Client(h)) /\ WF_vars(TimeOut(h))

FairSpec == Spec /\ Fairness

-----------------------------------------------------------------------------
(* Properties                                                              *)

Places == {"file", "inDir", "dir", "forbidden"}
Stages == {"idle", "create", "firstAck", "recv", "batch", "ack", "rename",
           "preserve", "finalAck", "release", "copy", "wait", "eof", "lastAck"}
Pieces == (Nat \X Nat) \cup {None}
Message == [type : {"chunk", "ack", "error", "info", "other"}, off : Nat \cup {None}, data : Pieces]
             \cup [type : {"put"}, u : Nat, place : Places]
             \cup [type : {"get"}, place : Places]
Peer == [st : {"idle", "put", "get", "quit", "gone"}, u : Nat, sent : Nat,
         acked : Nat \cup {None}, got : Seq(Nat \X Nat)]
Job == [u : Nat, off : Nat, ack : Nat, start : Nat, n : Nat, last : Nat,
        done : BOOLEAN, data : Seq(Nat \X Nat)]
File == [data : Seq(Nat \X Nat), by : Nat, owner : Handlers \cup {"put", "other"},
         regular : BOOLEAN]

ASSUME NoneIsNothing == /\ None \notin Message /\ None \notin File
                        /\ None \notin Nat \X Nat /\ None \notin Seq(Nat \X Nat)

\* Every variable has its type; in particular no blank offset of a message ever
\* becomes the offset of a transfer (waitAck, writeChunk).
TypeOK ==
    /\ limits \in LimitChoices /\ v2 \subseteq Handlers
    /\ uploads \in Seq(Nat)
    /\ target \in File \cup {None}
    /\ temp \in [Handlers -> Seq(Nat \X Nat) \cup {None}]
    /\ leftover \subseteq Handlers /\ commits \subseteq Nat
    /\ counted \subseteq Directions /\ over \subseteq Directions
    /\ client \in [Handlers -> Peer]
    /\ inbox \in [Handlers -> Seq(Message)] /\ outbox \in [Handlers -> Seq(Message)]
    /\ sess \in [Handlers -> {"serve", "handoff", "closed"}]
    /\ cur \in [Handlers -> Message \cup {None}]
    /\ pc \in [Handlers -> Stages]
    /\ job \in [Handlers -> Job]
    /\ requests \in Nat /\ faults \in Nat /\ failed \in BOOLEAN

\* The file is one upload, whole: never a part of one, never pieces of two, also
\* when chunks come without an offset, late, or from a client that gives up
\* (writeFile, Rename).
TargetIsWhole == target # None => target.data = Content(target.by)

\* The file as AtomicFile knows it: its content, without attributes.
Atomic == INSTANCE AtomicFile WITH
            Sizes <- FileSizes \cup UploadSizes,
            file <- IF target = None THEN None ELSE target.data

\* Whatever clients send, leave out or abandon, and whatever fails, the file is
\* only ever replaced by a whole upload, at once and once per upload, and never
\* lost (FileUploadHandler: temporary file, EOF, Rename).
FileIsAtomic == Atomic!Spec

\* A client of version 2 is never told that its upload is done before it is: the
\* final acknowledgement follows Rename, not the EOF (FileUploadHandler).
FinalAckIsTrue ==
    \A h \in v2 : client[h].st = "put" =>
        \A k \in DOMAIN outbox[h] : outbox[h][k].type = "ack" => client[h].u \in commits

\* The final acknowledgement of upload u was early: the file is about to take its
\* place, or it could not and the client is sent an error.
Unsettled(h, u) == \/ pc[h] = "rename" /\ job[h].u = u
                   \/ \E k \in DOMAIN outbox[h] : outbox[h][k].type = "error"

\* A client takes an upload for done only when it is, or, in version 1, when its
\* fate is still being decided and an error will follow if it fails: version 1
\* acknowledges the EOF before the file is renamed, and says so when that fails,
\* version 2 after it (writeFile, FileUploadHandler).
DoneIsSettled ==
    [][\A h \in Handlers :
         client[h].st = "put" /\ client'[h].st = "idle" =>
             client[h].u \in commits \/ (h \notin v2 /\ Unsettled(h, client[h].u))]_client

\* A client that has a request and its transfer never wait for each other: as long
\* as nothing fails, somebody has a message to read, a step to take or a chunk to
\* send, although each side keeps to a window and an acknowledgement carries the
\* start of the last chunk (writeFile, DownloadHandler, waitAck).
NoMutualWait ==
    \A h \in Handlers :
        /\ client[h].st \in {"put", "get"} /\ ~failed
        /\ inbox[h] = <<>> /\ outbox[h] = <<>> /\ sess[h] # "handoff"
        => MaySend(h) \/ pc[h] \notin {"idle", "recv", "wait", "lastAck"}

\* The chunks on their way to the client.
Chunks(h) == {j \in DOMAIN outbox[h] : outbox[h][j].type = "chunk"}

\* What h has brought, with what is on its way, is upload u from its beginning:
\* without a gap, in order, each chunk at its offset, the EOF where u ends.
Brings(h, u) ==
    LET got == client[h].got
        at(j) == outbox[h][j].off
    IN /\ Len(got) <= uploads[u]
       /\ \A k \in DOMAIN got : got[k] = <<u, k>>
       /\ \A j \in Chunks(h) :
            /\ at(j) \in Len(got)..uploads[u]
            /\ outbox[h][j].data = IF at(j) < uploads[u] THEN <<u, at(j) + 1>> ELSE None
            /\ \A i \in Chunks(h) : i < j => at(i) < at(j)
            /\ \A o \in Len(got)..(at(j) - 1) : \E i \in Chunks(h) : i < j /\ at(i) = o

\* What a download has brought, with what is on its way, is the beginning of one
\* version of the file, and all of it when the EOF is on its way too, though
\* other sessions replace the file meanwhile (DownloadHandler reads one fd).
DownloadIsSnapshot ==
    \A h \in Handlers : client[h].st = "get" => \E u \in {1} \cup commits : Brings(h, u)

\* No more than ACKSlidingWindowRecv chunks are under way to a client of version
\* 1 that has not acknowledged them (DownloadHandler's windowBytes).
WindowKept ==
    \A h \in Handlers \ v2 :
        Cardinality({j \in Chunks(h) : outbox[h][j].data # None}) <= ACKSlidingWindowRecv

\* What an upload puts in place is smaller than MaxFileSize, although nobody
\* knows its size before its last chunk has come (dstWrite).
SizeLimitKept ==
    limits.Enabled /\ limits.MaxFileSize > 0 /\ target # None /\ target.by # 1
      => Len(target.data) < limits.MaxFileSize

\* No upload is over with its temporary file not dealt with, whatever ended it: it
\* took the file's place or its removal was tried (deferred in FileUploadHandler).
TempRemoved == \A h \in Handlers : pc[h] \in {"idle", "release"} => temp[h] = None

\* Every transfer comes to its end and gives the mutex free, also when its client
\* vanishes, gives up or is silent (Close ends what waits on h.msgChan).
TransferEnds == \A h \in Handlers : pc[h] # "idle" ~> pc[h] = "idle"

\* The session goroutine never stays with one message: the select of
\* ServeProtoMsg finds a receiver, or the mutex free, in the end.
ServeReturns == \A h \in Handlers : sess[h] = "handoff" ~> sess[h] # "handoff"

\* As long as nothing fails, a client that waits gets its answer: the windows and
\* the offsets of both sides never leave each waiting for the other.
ClientIsAnswered ==
    \A h \in Handlers : client[h].st \in {"put", "get"} ~>
                            client[h].st \notin {"put", "get"} \/ failed

=============================================================================
