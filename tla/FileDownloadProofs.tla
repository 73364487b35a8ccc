------------------------- MODULE FileDownloadProofs -------------------------
(***************************************************************************)
(* Proofs about the downloads of FileTransfer, for any handlers, limits,   *)
(* windows, sizes and bounds: what a client gets is one version of the     *)
(* file, and no more of it is under way than the window has room for.      *)
(*                                                                         *)
(* The transfer ("Sending") and the chunks and acknowledgements between it *)
(* and its client make one queue: acknowledgements, then chunks, then what *)
(* is still to be sent, with offsets that only go up.  The window is       *)
(* counted from the last acknowledgement that the transfer has seen, which *)
(* no chunk on its way precedes.                                           *)
(***************************************************************************)
EXTENDS FileTransferProofs, FiniteSetTheorems

Sending == {"copy", "wait", "eof"}

\* Where acknowledgements and requests for a download are on their way to h.
Acks(h) == {k \in Way(h) : /\ At(h, k) # None
                           /\ At(h, k).type = "ack" /\ At(h, k).off # None}
Gets(h) == {k \in DOMAIN inbox[h] : inbox[h][k].type = "get"}

\* The chunks on their way to the client.
OutInv(h) ==
    LET at(j) == outbox[h][j].off
    IN /\ \A j \in Chunks(h) : at(j) \in Nat
       /\ \A i, j \in Chunks(h) : i < j => at(i) < at(j)
       /\ h \notin v2 =>
            \E b \in Nat : \A j \in Chunks(h) :
              outbox[h][j].data # None => at(j) \in b..(b + ACKSlidingWindowRecv - 1)
       /\ client[h].st \in {"idle", "put"} => Chunks(h) = {} /\ pc[h] \notin Sending

\* A transfer that sends.
SendInv(h) == pc[h] \in Sending =>
    LET at(j) == outbox[h][j].off
        acked(k) == At(h, k).off
    IN /\ Gets(h) = {}
       /\ \A j \in Chunks(h) : outbox[h][j].data # None /\ at(j) < job[h].off
       /\ job[h].off <= Len(job[h].data)
       /\ pc[h] = "eof" => job[h].off = Len(job[h].data)
       /\ h \notin v2 =>
            /\ job[h].ack <= job[h].off
            /\ job[h].off <= job[h].ack + ACKSlidingWindowRecv
            /\ \A j \in Chunks(h) : job[h].ack <= at(j)
            /\ \A k \in Acks(h) :
                 /\ job[h].ack <= acked(k) /\ acked(k) < job[h].off
                 /\ \A j \in Chunks(h) : acked(k) < at(j)
                 /\ \A l \in Acks(h) : k < l => acked(k) < acked(l)

\* A request for a download that is on its way is the only one, and nothing of
\* an earlier download is behind it.
GetInv(h) == \A k \in Gets(h) :
    /\ Chunks(h) = {} /\ client[h].st \notin {"idle", "put"}
    /\ client[h].st = "get" => client[h].got = <<>>
    /\ \A l \in Gets(h) : l = k
    /\ \A l \in Acks(h) : l < k

\* What the client of a download has and is going to get, up to where the
\* transfer is.
SnapInv(h) == client[h].st = "get" =>
    \E u \in {1} \cup commits :
      /\ Brings(h, u)
      /\ pc[h] \in Sending =>
           /\ job[h].data = Content(u)
           /\ Len(client[h].got) <= job[h].off
           /\ \A o \in Len(client[h].got)..(job[h].off - 1) :
                \E j \in Chunks(h) : outbox[h][j].off = o

DownInv(h) == OutInv(h) /\ SendInv(h) /\ GetInv(h) /\ SnapInv(h)

\* The file is the first one, or a commit.
ByInv == target # None => target.by \in {1} \cup commits

-----------------------------------------------------------------------------
\* The places of messages are numbers, the offsets of acknowledgements too.
LEMMA PlacesTyped ==
  ASSUME TypeOK, NEW h \in Handlers
  PROVE  /\ Chunks(h) \subseteq Nat \ {0} /\ Gets(h) \subseteq Nat \ {0} /\ Acks(h) \subseteq Nat
         /\ \A k \in Acks(h) : At(h, k).off \in Nat
         /\ job[h].off \in Nat /\ job[h].ack \in Nat /\ Len(job[h].data) \in Nat
         /\ Len(client[h].got) \in Nat
<1>1. inbox[h] \in Seq(Message) /\ outbox[h] \in Seq(Message) /\ cur[h] \in Message \cup {None}
  BY DEF TypeOK
<1>2. job[h] \in Job /\ client[h] \in Peer
  BY DEF TypeOK
<1>3. ASSUME NEW k \in Acks(h) PROVE At(h, k).off \in Nat
  <2>1. k \in 0..Len(inbox[h]) /\ At(h, k) # None /\ At(h, k).type = "ack" /\ At(h, k).off # None
    BY DEF Acks, Way
  <2>2. At(h, k) \in Message
    BY <1>1, <2>1 DEF At
  <2> QED BY <2>1, <2>2 DEF Message
<1>4. Chunks(h) \subseteq Nat \ {0} /\ Gets(h) \subseteq Nat \ {0} /\ Acks(h) \subseteq Nat
  BY <1>1 DEF Chunks, Gets, Acks, Way
<1>5. /\ job[h].off \in Nat /\ job[h].ack \in Nat
      /\ job[h].data \in Seq(Nat \X Nat) /\ client[h].got \in Seq(Nat \X Nat)
  BY <1>2 DEF Job, Peer
<1>6. Len(job[h].data) \in Nat /\ Len(client[h].got) \in Nat
  BY <1>5
<1> QED BY <1>3, <1>4, <1>5, <1>6

\* No acknowledgement and no request for a download is added to what is on its
\* way to the transfer, which may have come one place nearer to it.
WayKeeps(h) == \E d \in {0, 1} :
    /\ \A k \in Acks(h)' : k + d \in Acks(h) /\ At(h, k)'.off = At(h, k + d).off
    /\ \A k \in Gets(h)' : k + d \in Gets(h)

\* No chunk is added to what is on its way to the client, and none is taken from
\* a client that has a download.
OutMoves(h) == \E e \in {0, 1} :
    /\ \A j \in Chunks(h)' : j + e \in Chunks(h) /\ outbox'[h][j] = outbox[h][j + e]
    /\ client'[h].st = "get" => \A j \in Chunks(h) : j - e \in Chunks(h)'

\* Uploads that can be the content of a file do not change.
LEMMA SameContent ==
  ASSUME TypeOK, Ids, Grows, NEW u \in {1} \cup commits
  PROVE  /\ u \in 1..Len(uploads) /\ uploads[u] \in Nat /\ uploads'[u] = uploads[u]
         /\ u \in {1} \cup commits' /\ Content(u)' = Content(u)
<1>1. u \in 1..Len(uploads) /\ uploads[u] \in Nat
  BY DEF Ids, TypeOK
<1> QED BY <1>1 DEF Grows, Content

\* A step that sends no chunk and asks for nothing keeps the invariant: what is
\* on its way only comes nearer or is taken away.
LEMMA DownKeeps ==
  ASSUME TypeOK, TypeOK', Ids, Grows, NEW h \in Handlers, DownInv(h),
         WayKeeps(h), OutMoves(h),
         pc'[h] \in Sending =>
           /\ pc[h] \in Sending /\ job'[h] = job[h]
           /\ pc'[h] = "eof" => pc[h] = "eof" \/ job[h].off = Len(job[h].data),
         \/ client'[h].st = client[h].st /\ client'[h].got = client[h].got
         \/ client'[h].st \in {"quit", "gone"}
         \/ client[h].st \in {"idle", "put"} /\ client'[h].st \in {"idle", "put"}
  PROVE  DownInv(h)'
<1>1. PICK d \in {0, 1} :
        /\ \A k \in Acks(h)' : k + d \in Acks(h) /\ At(h, k)'.off = At(h, k + d).off
        /\ \A k \in Gets(h)' : k + d \in Gets(h)
  BY DEF WayKeeps
<1>2. PICK e \in {0, 1} :
        /\ \A j \in Chunks(h)' : j + e \in Chunks(h) /\ outbox'[h][j] = outbox[h][j + e]
        /\ client'[h].st = "get" => \A j \in Chunks(h) : j - e \in Chunks(h)'
  BY DEF OutMoves
<1>3. /\ Chunks(h) \subseteq Nat /\ Chunks(h)' \subseteq Nat
      /\ Acks(h) \subseteq Nat /\ Acks(h)' \subseteq Nat
      /\ Gets(h) \subseteq Nat /\ Gets(h)' \subseteq Nat
  <2>1. inbox'[h] \in Seq(Message) /\ outbox'[h] \in Seq(Message)
    BY DEF TypeOK
  <2>2. Chunks(h)' \subseteq Nat /\ Acks(h)' \subseteq Nat /\ Gets(h)' \subseteq Nat
    BY <2>1 DEF Chunks, Acks, Gets, Way
  <2> QED BY <2>2, PlacesTyped
<1>4. /\ client'[h].st \in {"idle", "put"} => client[h].st \in {"idle", "put"}
      /\ client[h].st \in {"idle", "put"} => client'[h].st \in {"idle", "put", "quit", "gone"}
      /\ client'[h].st = "get" => client[h].st = "get" /\ client'[h].got = client[h].got
      /\ v2' = v2
  BY DEF Grows
<1>5. OutInv(h)'
  <2>1. \A j \in Chunks(h)' : outbox'[h][j].off \in Nat
    BY <1>2 DEF DownInv, OutInv
  <2>2. \A i, j \in Chunks(h)' : i < j => outbox'[h][i].off < outbox'[h][j].off
    BY <1>2, <1>3 DEF DownInv, OutInv
  <2>3. ASSUME h \notin v2
        PROVE  \E b \in Nat : \A j \in Chunks(h)' : outbox'[h][j].data # None =>
                 outbox'[h][j].off \in b..(b + ACKSlidingWindowRecv - 1)
    BY <1>2, <2>3 DEF DownInv, OutInv
  <2>4. client'[h].st \in {"idle", "put"} => Chunks(h)' = {} /\ pc'[h] \notin Sending
    BY <1>2, <1>4 DEF DownInv, OutInv
  <2> QED BY <1>4, <2>1, <2>2, <2>3, <2>4 DEF OutInv
<1>6. SendInv(h)'
  <2> SUFFICES ASSUME pc'[h] \in Sending PROVE SendInv(h)'
    BY DEF SendInv
  <2>1. pc[h] \in Sending /\ job'[h] = job[h]
    OBVIOUS
  <2>2. Gets(h)' = {}
    BY <1>1, <2>1 DEF DownInv, SendInv
  <2>3. /\ \A j \in Chunks(h)' : outbox'[h][j].data # None /\ outbox'[h][j].off < job[h].off
        /\ job[h].off <= Len(job[h].data)
        /\ pc'[h] = "eof" => job[h].off = Len(job[h].data)
    BY <1>2, <2>1 DEF DownInv, SendInv
  <2>4. ASSUME h \notin v2
        PROVE  /\ job[h].ack <= job[h].off
               /\ job[h].off <= job[h].ack + ACKSlidingWindowRecv
               /\ \A j \in Chunks(h)' : job[h].ack <= outbox'[h][j].off
    BY <1>2, <2>1, <2>4 DEF DownInv, SendInv
  <2>5. ASSUME h \notin v2, NEW k \in Acks(h)'
        PROVE  /\ job[h].ack <= At(h, k)'.off /\ At(h, k)'.off < job[h].off
               /\ \A j \in Chunks(h)' : At(h, k)'.off < outbox'[h][j].off
               /\ \A l \in Acks(h)' : k < l => At(h, k)'.off < At(h, l)'.off
    BY <1>1, <1>2, <1>3, <2>1, <2>5 DEF DownInv, SendInv
  <2> QED BY <1>4, <2>1, <2>2, <2>3, <2>4, <2>5 DEF SendInv
<1>7. GetInv(h)'
  <2> SUFFICES ASSUME NEW k \in Gets(h)'
               PROVE  /\ Chunks(h)' = {} /\ client'[h].st \notin {"idle", "put"}
                      /\ client'[h].st = "get" => client'[h].got = <<>>
                      /\ \A l \in Gets(h)' : l = k
                      /\ \A l \in Acks(h)' : l < k
    BY DEF GetInv
  <2>1. k + d \in Gets(h)
    BY <1>1
  <2>2. /\ Chunks(h) = {} /\ client[h].st \notin {"idle", "put"}
        /\ client[h].st = "get" => client[h].got = <<>>
        /\ \A l \in Gets(h) : l = k + d
        /\ \A l \in Acks(h) : l < k + d
    BY <2>1 DEF DownInv, GetInv
  <2> QED BY <1>1, <1>2, <1>3, <1>4, <2>2
<1>8. SnapInv(h)'
  <2> SUFFICES ASSUME client'[h].st = "get" PROVE SnapInv(h)'
    BY DEF SnapInv
  <2>1. client[h].st = "get" /\ client'[h].got = client[h].got
    BY <1>4
  <2>2. PICK u \in {1} \cup commits :
          /\ Brings(h, u)
          /\ pc[h] \in Sending =>
               /\ job[h].data = Content(u)
               /\ Len(client[h].got) <= job[h].off
               /\ \A o \in Len(client[h].got)..(job[h].off - 1) :
                    \E j \in Chunks(h) : outbox[h][j].off = o
    BY <2>1 DEF DownInv, SnapInv
  <2>3. /\ u \in {1} \cup commits' /\ uploads'[u] = uploads[u] /\ Content(u)' = Content(u)
    BY SameContent
  <2>4. \A j \in Chunks(h) : j - e \in Chunks(h)' /\ outbox'[h][j - e] = outbox[h][j]
    BY <1>2, <1>3
  <2>5. Brings(h, u)'
    <3>1. ASSUME NEW j \in Chunks(h)'
          PROVE  /\ outbox'[h][j].off \in Len(client[h].got)..uploads[u]
                 /\ outbox'[h][j].data = IF outbox'[h][j].off < uploads[u]
                                           THEN <<u, outbox'[h][j].off + 1>> ELSE None
                 /\ \A i \in Chunks(h)' : i < j => outbox'[h][i].off < outbox'[h][j].off
      <4>1. j + e \in Chunks(h) /\ outbox'[h][j] = outbox[h][j + e]
        BY <1>2
      <4>2. \A i \in Chunks(h) : i < j + e => outbox[h][i].off < outbox[h][j + e].off
        BY <2>2, <4>1 DEF Brings
      <4>3. \A i \in Chunks(h)' : i < j => outbox'[h][i].off < outbox'[h][j].off
        BY <1>2, <1>3, <4>1, <4>2
      <4> QED BY <2>2, <4>1, <4>3 DEF Brings
    <3>2. ASSUME NEW j \in Chunks(h)', NEW o \in Len(client[h].got)..(outbox'[h][j].off - 1)
          PROVE  \E i \in Chunks(h)' : i < j /\ outbox'[h][i].off = o
      <4>1. j + e \in Chunks(h) /\ outbox'[h][j] = outbox[h][j + e]
        BY <1>2
      <4>2. PICK i \in Chunks(h) : i < j + e /\ outbox[h][i].off = o
        BY <2>2, <4>1 DEF Brings
      <4>3. i - e \in Chunks(h)' /\ outbox'[h][i - e] = outbox[h][i] /\ i - e < j
        BY <1>3, <2>4, <4>2
      <4> QED BY <4>2, <4>3
    <3> QED BY <2>1, <2>2, <2>3, <3>1, <3>2 DEF Brings
  <2>6. pc'[h] \in Sending => \A o \in Len(client[h].got)..(job[h].off - 1) :
                                \E j \in Chunks(h)' : outbox'[h][j].off = o
    BY <2>2, <2>4
  <2> QED BY <2>1, <2>2, <2>3, <2>5, <2>6 DEF SnapInv
<1> QED BY <1>5, <1>6, <1>7, <1>8 DEF DownInv

\* Messages that come nearer to the transfer, or are taken.
LEMMA ShrinksKeeps ==
  ASSUME TypeOK, TypeOK', NEW h \in Handlers, Shrinks(h)
  PROVE  WayKeeps(h)
<1>1. PICK d \in {0, 1} : \A k \in 0..Len(inbox'[h]) :
        At(h, k)' # None => k + d \in Way(h) /\ At(h, k)' = At(h, k + d)
  BY DEF Shrinks
<1>2. inbox'[h] \in Seq(Message) /\ inbox[h] \in Seq(Message)
  BY DEF TypeOK
<1>3. ASSUME NEW k \in Acks(h)' PROVE k + d \in Acks(h) /\ At(h, k)'.off = At(h, k + d).off
  BY <1>1 DEF Acks, Way
<1>4. ASSUME NEW k \in Gets(h)' PROVE k + d \in Gets(h)
  <2>1. k \in 1..Len(inbox'[h]) /\ inbox'[h][k] \in Message /\ inbox'[h][k].type = "get"
    BY <1>2 DEF Gets
  <2>2. At(h, k)' = inbox'[h][k] /\ At(h, k)' # None
    BY <2>1, NoneIsNothing DEF At
  <2>3. k + d \in 0..Len(inbox[h]) /\ k + d # 0 /\ At(h, k + d) = inbox'[h][k]
    BY <1>1, <1>2, <2>1, <2>2 DEF Way
  <2>4. inbox[h][k + d] = inbox'[h][k]
    BY <2>3 DEF At
  <2> QED BY <1>2, <2>1, <2>3, <2>4 DEF Gets
<1> QED BY <1>3, <1>4 DEF WayKeeps

\* Messages that a client adds, other than acknowledgements with an offset and
\* requests for a download.
LEMMA SentKeeps ==
  ASSUME TypeOK, TypeOK', NEW h \in Handlers, cur'[h] = cur[h],
         \/ inbox'[h] = inbox[h]
         \/ \E m \in Message : /\ Send(h, m) /\ m.type # "get"
                               /\ m.type = "ack" => m.off = None
  PROVE  WayKeeps(h)
<1>1. Acks(h) \subseteq Nat /\ Gets(h) \subseteq Nat
  BY PlacesTyped
<1>2. (\A k \in Acks(h) \cup Gets(h) : k + 0 = k)
  BY <1>1
<1>3. CASE inbox'[h] = inbox[h]
  <2>1. Acks(h)' = Acks(h) /\ Gets(h)' = Gets(h) /\ \A k : At(h, k)' = At(h, k)
    BY <1>3 DEF Acks, Gets, At, Way
  <2> QED BY <1>2, <2>1 DEF WayKeeps
<1>4. ASSUME NEW m \in Message, Send(h, m), m.type # "get", m.type = "ack" => m.off = None
      PROVE  WayKeeps(h)
  <2> DEFINE n == Len(inbox[h]) + 1
  <2>1. /\ inbox'[h][n] = m /\ \A k : k = n => At(h, k)' = m
        /\ \A k \in Way(h)' : k \in Way(h) \/ k = n
        /\ \A k \in Way(h) : At(h, k)' = At(h, k)
        /\ \A k \in DOMAIN inbox[h] : inbox'[h][k] = inbox[h][k]
        /\ DOMAIN inbox[h] = 1..(n - 1) /\ DOMAIN inbox'[h] = 1..n /\ n \in Nat
    BY <1>4, Sent
  <2>2. ASSUME NEW k \in Acks(h)' PROVE k \in Acks(h) /\ At(h, k)'.off = At(h, k).off
    BY <1>4, <2>1, <2>2 DEF Acks
  <2>3. ASSUME NEW k \in Gets(h)' PROVE k \in Gets(h)
    <3>1. k \in DOMAIN inbox'[h] /\ inbox'[h][k].type = "get"
      BY DEF Gets
    <3>2. k \in DOMAIN inbox[h] \/ k = n
      BY <2>1, <3>1
    <3> QED BY <1>4, <2>1, <3>1, <3>2 DEF Gets
  <2> QED BY <1>2, <2>2, <2>3 DEF WayKeeps
<1> QED BY <1>3, <1>4

\* A client that leaves takes the end of what it has sent with it.
LEMMA CutKeeps ==
  ASSUME TypeOK, NEW h \in Handlers, cur'[h] = cur[h],
         NEW k \in 0..Len(inbox[h]), inbox'[h] = SubSeq(inbox[h], 1, k)
  PROVE  WayKeeps(h)
<1>1. Acks(h) \subseteq Nat /\ Gets(h) \subseteq Nat
  BY PlacesTyped
<1>2. \A l \in Acks(h) \cup Gets(h) : l + 0 = l
  BY <1>1
<1>3. inbox[h] \in Seq(Message) /\ Len(inbox[h]) \in Nat
  BY DEF TypeOK
<1>4. /\ inbox'[h] \in Seq(Message) /\ Len(inbox'[h]) = k
      /\ \A i \in 1..k : inbox'[h][i] = inbox[h][i]
  BY <1>3, Cut
<1>5. /\ DOMAIN inbox'[h] = 1..k /\ DOMAIN inbox[h] = 1..Len(inbox[h])
      /\ Way(h)' = 0..k /\ k \in Nat
  BY <1>3, <1>4 DEF Way
<1>6. /\ \A i \in 1..k : i \in 1..Len(inbox[h])
      /\ \A i \in 0..k : i \in 0..Len(inbox[h]) /\ (i # 0 => i \in 1..k)
  BY <1>3
<1>7. \A l \in Acks(h)' : l \in Acks(h) /\ At(h, l)' = At(h, l)
  BY <1>4, <1>5, <1>6 DEF Acks, At, Way
<1>8. \A l \in Gets(h)' : l \in Gets(h)
  BY <1>4, <1>5, <1>6 DEF Gets
<1> QED BY <1>2, <1>7, <1>8 DEF WayKeeps

\* What is written for the client other than chunks.
LEMMA WrittenMoves ==
  ASSUME TypeOK, NEW h \in Handlers, NEW m \in Message, m.type # "chunk",
         outbox'[h] \in {outbox[h], Append(outbox[h], m), Append(Append(outbox[h], m), m)}
  PROVE  OutMoves(h)
<1>1. outbox[h] \in Seq(Message)
  BY DEF TypeOK
<1>2. \A j \in Chunks(h) : j + 0 = j /\ j - 0 = j
  BY PlacesTyped
<1>3. /\ Len(outbox'[h]) \in Nat /\ DOMAIN outbox'[h] = 1..Len(outbox'[h])
      /\ Len(outbox[h]) \in Nat /\ DOMAIN outbox[h] = 1..Len(outbox[h])
      /\ Len(outbox[h]) <= Len(outbox'[h])
      /\ \A j \in 1..Len(outbox'[h]) : j <= Len(outbox[h]) => outbox'[h][j] = outbox[h][j]
      /\ \A j \in 1..Len(outbox'[h]) : j > Len(outbox[h]) => outbox'[h][j] = m
  <2>1. CASE outbox'[h] = outbox[h]
    BY <1>1, <2>1
  <2>2. CASE outbox'[h] = Append(outbox[h], m)
    BY <1>1, <2>2
  <2>3. CASE outbox'[h] = Append(Append(outbox[h], m), m)
    BY <1>1, <2>3
  <2> QED BY <2>1, <2>2, <2>3
<1>4. ASSUME NEW j \in Chunks(h)' PROVE j \in Chunks(h) /\ outbox'[h][j] = outbox[h][j]
  <2>1. j \in 1..Len(outbox'[h]) /\ outbox'[h][j].type = "chunk"
    BY <1>3 DEF Chunks
  <2> QED BY <1>3, <2>1 DEF Chunks
<1>5. ASSUME NEW j \in Chunks(h) PROVE j \in Chunks(h)'
  BY <1>3, <1>5 DEF Chunks
<1> QED BY <1>2, <1>4, <1>5 DEF OutMoves

\* What the client takes, other than a chunk of its download, or is not told.
LEMMA TakenMoves ==
  ASSUME TypeOK, NEW h \in Handlers,
         \/ /\ outbox[h] # <<>> /\ outbox'[h] = Tail(outbox[h])
            /\ client'[h].st = "get" => Head(outbox[h]).type # "chunk"
         \/ outbox'[h] = <<>> /\ client'[h].st # "get"
  PROVE  OutMoves(h)
<1>1. outbox[h] \in Seq(Message)
  BY DEF TypeOK
<1>2. CASE outbox'[h] = <<>> /\ client'[h].st # "get"
  BY <1>2 DEF OutMoves, Chunks
<1>3. CASE /\ outbox[h] # <<>> /\ outbox'[h] = Tail(outbox[h])
           /\ client'[h].st = "get" => Head(outbox[h]).type # "chunk"
  <2>1. /\ Len(outbox[h]) \in Nat /\ DOMAIN outbox[h] = 1..Len(outbox[h])
        /\ Len(outbox'[h]) = Len(outbox[h]) - 1 /\ DOMAIN outbox'[h] = 1..(Len(outbox[h]) - 1)
        /\ \A j \in DOMAIN outbox'[h] : outbox'[h][j] = outbox[h][j + 1]
        /\ Head(outbox[h]) = outbox[h][1]
    BY <1>1, <1>3
  <2>2. \A j \in Chunks(h)' : j + 1 \in Chunks(h) /\ outbox'[h][j] = outbox[h][j + 1]
    BY <2>1 DEF Chunks
  <2>3. ASSUME client'[h].st = "get", NEW j \in Chunks(h) PROVE j - 1 \in Chunks(h)'
    <3>1. j \in 1..Len(outbox[h]) /\ outbox[h][j].type = "chunk" /\ j # 1
      BY <1>3, <2>1, <2>3 DEF Chunks
    <3>2. j - 1 \in DOMAIN outbox'[h] /\ outbox'[h][j - 1] = outbox[h][j]
      BY <2>1, <3>1
    <3> QED BY <3>1, <3>2 DEF Chunks
  <2> QED BY <2>2, <2>3 DEF OutMoves
<1> QED BY <1>2, <1>3

-----------------------------------------------------------------------------
\* The steps of the session goroutine, but for the one that begins a download.
LEMMA SessionDown ==
  ASSUME IndInv, TypeOK', NEW h \in Handlers, DownInv(h),
         \/ BeginUpload(h) \/ RefuseUpload(h) \/ RefuseDownload(h) \/ Answer(h)
         \/ OfferMessage(h) \/ NoTransferInProgress(h) \/ Close(h)
  PROVE  DownInv(h)'
<1> USE DEF config, fileVars, rateVars, peerVars, sessVars, taskVars, faultVars
<1>0. TypeOK /\ Ids /\ SessInv(h)
  BY DEF IndInv, HandlerInv
<1>1. UNCHANGED <<v2, uploads, commits, client>>
  BY DEF BeginUpload, RefuseUpload, RefuseDownload, Answer, OfferMessage,
         NoTransferInProgress, Close, TimeOut, Interrupt, EndSession
<1>2. Grows
  BY <1>0, <1>1 DEF Grows, TypeOK
<1>3. pc'[h] = "create" \/ (pc'[h] = pc[h] /\ job'[h] = job[h])
  <2>1. CASE BeginUpload(h)
    BY <1>0, <2>1 DEF BeginUpload, Goto, TypeOK
  <2>2. CASE ~BeginUpload(h)
    BY <2>2 DEF RefuseUpload, RefuseDownload, Answer, OfferMessage, NoTransferInProgress,
                Close, TimeOut, Interrupt, EndSession
  <2> QED BY <2>1, <2>2
<1>4. OutMoves(h)
  <2>1. outbox' = outbox \/ Write(h, ErrorMsg) \/ Write(h, InfoMsg)
    BY DEF BeginUpload, RefuseUpload, RefuseDownload, Answer, OfferMessage,
           NoTransferInProgress, Close, TimeOut, Interrupt, EndSession
  <2>2. \E m \in {ErrorMsg, InfoMsg} : outbox'[h] \in {outbox[h], Append(outbox[h], m)}
    BY <1>0, <2>1 DEF Write, TypeOK
  <2> QED BY <1>0, <2>2, WrittenMoves, Messages DEF ErrorMsg, InfoMsg
<1>5. Shrinks(h)
  <2>1. CASE BeginUpload(h) \/ RefuseUpload(h) \/ RefuseDownload(h) \/ Answer(h)
    <3>1. cur' = cur /\ \E type : Take(h, type)
      BY <2>1 DEF BeginUpload, RefuseUpload, RefuseDownload, Answer
    <3>2. cur[h] = None /\ sess[h] = "serve"
      BY <1>0, <3>1 DEF Take, SessInv
    <3> QED BY <1>0, <3>1, <3>2, Moves
  <2>2. CASE OfferMessage(h)
    <3>1. sess[h] = "serve" /\ cur'[h] = Head(inbox[h]) /\ \E type : Take(h, type)
      BY <1>0, <2>2 DEF OfferMessage, Take, TypeOK
    <3> QED BY <1>0, <3>1, Moves
  <2>3. CASE NoTransferInProgress(h) \/ Close(h)
    <3>1. inbox' = inbox /\ cur'[h] \in {cur[h], None}
      BY <1>0, <2>3 DEF NoTransferInProgress,
                        Close, TimeOut, Interrupt, EndSession, Handed, TypeOK
    <3> QED BY <1>0, <3>1, Moves
  <2> QED BY <2>1, <2>2, <2>3
<1>6. WayKeeps(h)
  BY <1>0, <1>5, ShrinksKeeps
<1>7. pc'[h] \in Sending => /\ pc[h] \in Sending /\ job'[h] = job[h]
                            /\ pc'[h] = "eof" => pc[h] = "eof"
  BY <1>3 DEF Sending
<1> QED BY <1>0, <1>1, <1>2, <1>4, <1>6, <1>7, DownKeeps

\* The steps of an upload.
LEMMA UploadDown ==
  ASSUME IndInv, IndInv', NEW h \in Handlers, DownInv(h), Upload(h)
  PROVE  DownInv(h)'
<1> USE DEF config, fileVars, rateVars, peerVars, sessVars, taskVars, faultVars
<1>0. /\ TypeOK /\ TypeOK' /\ Ids /\ Shrinks(h)
      /\ UNCHANGED <<v2, uploads, client>>
  BY UploadFrame DEF IndInv
<1>1. commits \subseteq commits'
  BY DEF Upload, CreateFile, FirstAck, WriteChunk, EndOfFile, RejectChunk, ChannelClosed,
         BatchEnds, SendAck, Rename, Preserve, FinalAck, Release, Fail, Leave, AfterChunk
<1>2. Grows
  BY <1>0, <1>1 DEF Grows, TypeOK
<1>3. pc'[h] \notin Sending
  <2>1. \A tell : Leave(h, tell) => pc'[h] = "release"
    BY <1>0 DEF Leave, Goto, TypeOK
  <2>2. \A j : AfterChunk(h, j) => pc'[h] \in {"batch", "rename", "recv"}
    BY <1>0 DEF AfterChunk, Goto, TypeOK
  <2>3. pc'[h] \in {"release", "batch", "rename", "recv", "firstAck", "ack", "preserve",
                    "finalAck", "idle"}
    BY <1>0, <2>1, <2>2
       DEF Upload, CreateFile, FirstAck, WriteChunk, EndOfFile, RejectChunk, ChannelClosed,
           BatchEnds, SendAck, Rename, Preserve, FinalAck, Release, Fail, Goto, TypeOK
  <2> QED BY <2>3 DEF Sending
<1>4. OutMoves(h)
  <2>1. ASSUME NEW m \in Message, m.type # "chunk", Write(h, m) PROVE OutMoves(h)
    <3>1. outbox'[h] \in {outbox[h], Append(outbox[h], m)}
      BY <1>0, <2>1 DEF Write, TypeOK
    <3> QED BY <1>0, <2>1, <3>1, WrittenMoves
  <2>2. /\ ErrorMsg \in Message /\ ErrorMsg.type # "chunk"
        /\ \A off \in Nat \cup {None} : Ack(off) \in Message /\ Ack(off).type # "chunk"
        /\ job[h].last \in Nat
    BY <1>0, Messages DEF ErrorMsg, Ack, TypeOK, Job
  <2>3. CASE outbox' = outbox
    BY <1>0, <2>2, <2>3, WrittenMoves
  <2>4. ASSUME NEW tell, Leave(h, tell) PROVE OutMoves(h)
    BY <2>1, <2>2, <2>3, <2>4 DEF Leave
  <2>5. CASE CreateFile(h)
    <3>1. outbox'[h] \in {outbox[h], Append(Append(outbox[h], ErrorMsg), ErrorMsg)}
      BY <1>0, <2>5 DEF CreateFile, TypeOK
    <3> QED BY <1>0, <2>2, <3>1, WrittenMoves
  <2>6. CASE FirstAck(h)
    BY <2>1, <2>2, <2>4, <2>6 DEF FirstAck, Fail
  <2>7. CASE SendAck(h)
    BY <2>1, <2>2, <2>4, <2>7 DEF SendAck, Fail
  <2>8. CASE FinalAck(h)
    BY <2>1, <2>2, <2>4, <2>8 DEF FinalAck, Fail
  <2>9. CASE \/ WriteChunk(h) \/ EndOfFile(h) \/ RejectChunk(h) \/ ChannelClosed(h)
             \/ BatchEnds(h) \/ Rename(h) \/ Preserve(h) \/ Release(h)
    BY <2>3, <2>4, <2>9
       DEF WriteChunk, EndOfFile, RejectChunk, ChannelClosed, BatchEnds, Rename, Preserve,
           Release, Fail
  <2> QED BY <2>5, <2>6, <2>7, <2>8, <2>9 DEF Upload
<1>5. WayKeeps(h)
  BY <1>0, ShrinksKeeps
<1> QED BY <1>0, <1>2, <1>3, <1>4, <1>5, DownKeeps

\* The steps of a download that send no chunk and open no window.
LEMMA LeaveDown ==
  ASSUME IndInv, TypeOK', NEW h \in Handlers, DownInv(h), Download(h),
         \/ \E tell \in BOOLEAN : Leave(h, tell)
         \/ CopyEnds(h) \/ RejectAck(h)
         \/ TakeAck(h) /\ pc[h] # "wait"
  PROVE  DownInv(h)'
<1> USE DEF config, fileVars, rateVars, peerVars, sessVars, taskVars, faultVars
<1>0. TypeOK /\ Ids /\ SessInv(h)
  BY DEF IndInv, HandlerInv
<1>1. UNCHANGED <<v2, uploads, commits, client, inbox>>
  BY DEF Download, CopyChunk, CopyEnds, TakeAck, RejectAck, SendEof, Fail, Leave
<1>2. Grows
  BY <1>0, <1>1 DEF Grows, TypeOK
<1>3. WayKeeps(h)
  <2>1. cur' = cur \/ cur'[h] = None
    BY <1>0 DEF Download, CopyChunk, CopyEnds, TakeAck, RejectAck, SendEof, Handed, TypeOK
  <2> QED BY <1>0, <1>1, <2>1, Moves, ShrinksKeeps
<1>4. CASE \E tell \in BOOLEAN : Leave(h, tell)
  <2>1. pc'[h] \notin Sending
    BY <1>0, <1>4 DEF Leave, Goto, TypeOK, Sending
  <2>2. outbox'[h] \in {outbox[h], Append(outbox[h], ErrorMsg)}
    BY <1>0, <1>4 DEF Leave, Write, TypeOK
  <2>3. OutMoves(h)
    BY <1>0, <2>2, WrittenMoves, Messages DEF ErrorMsg
  <2> QED BY <1>0, <1>1, <1>2, <1>3, <2>1, <2>3, DownKeeps
<1>5. CASE ~\E tell \in BOOLEAN : Leave(h, tell)
  <2>1. outbox' = outbox
    BY <1>5 DEF CopyEnds, RejectAck, TakeAck
  <2>2. OutMoves(h)
    BY <1>0, <2>1, WrittenMoves, Messages DEF ErrorMsg
  <2>3. pc'[h] \in Sending =>
          /\ pc[h] \in Sending /\ job'[h] = job[h]
          /\ pc'[h] = "eof" => job[h].off = Len(job[h].data)
    <3>1. CASE CopyEnds(h)
      <4>1. /\ pc[h] = "copy" /\ job' = job
            /\ ~(job[h].off < Len(job[h].data) /\ WindowOpen(h, job[h].off))
            /\ pc'[h] = IF WindowOpen(h, job[h].off) THEN "eof" ELSE "wait"
        BY <1>0, <1>5, <3>1 DEF CopyEnds, Goto, TypeOK
      <4>2. pc'[h] = "eof" => ~(job[h].off < Len(job[h].data))
        BY <4>1
      <4>3. job[h].off \in Nat /\ Len(job[h].data) \in Nat
        BY <1>0, PlacesTyped
      <4>4. job[h].off <= Len(job[h].data)
        BY <4>1 DEF DownInv, SendInv, Sending
      <4> QED BY <4>1, <4>2, <4>3, <4>4 DEF Sending
    <3>2. CASE TakeAck(h) /\ pc[h] # "wait"
      BY <1>0, <3>2 DEF TakeAck, Goto, TypeOK, Sending
    <3> QED BY <1>5, <3>1, <3>2 DEF RejectAck
  <2> QED BY <1>0, <1>1, <1>2, <1>3, <2>2, <2>3, DownKeeps
<1> QED BY <1>4, <1>5

\* A download begins with the file that is there, and nothing of an earlier one
\* is left on its way.
LEMMA BeginDown ==
  ASSUME IndInv, IndInv', ByInv, NEW h \in Handlers, DownInv(h), BeginDownload(h)
  PROVE  DownInv(h)'
<1> USE DEF config, fileVars, rateVars, peerVars, sessVars, taskVars, faultVars
<1>0. TypeOK /\ TypeOK' /\ Ids /\ SessInv(h) /\ JobInv(h) /\ FileInv
  BY DEF IndInv, HandlerInv
<1>1. /\ UNCHANGED <<v2, uploads, commits, client, outbox, cur>> /\ Take(h, "get")
      /\ pc[h] = "idle" /\ pc'[h] = "copy" /\ target # None
      /\ job' = [job EXCEPT ![h].data = target.data]
  BY <1>0 DEF BeginDownload, MayDownload, Goto, TypeOK
<1>2. /\ inbox[h] # <<>> /\ Head(inbox[h]).type = "get" /\ inbox'[h] = Tail(inbox[h])
      /\ cur[h] = None /\ inbox[h] \in Seq(Message)
  BY <1>0, <1>1 DEF Take, SessInv, TypeOK
<1>3. /\ 1 \in Gets(h) /\ Len(inbox[h]) \in Nat /\ DOMAIN inbox'[h] = 1..(Len(inbox[h]) - 1)
      /\ Len(inbox'[h]) = Len(inbox[h]) - 1
      /\ \A k \in DOMAIN inbox'[h] : inbox'[h][k] = inbox[h][k + 1] /\ k + 1 \in DOMAIN inbox[h]
  BY <1>2 DEF Gets
<1>4. /\ Chunks(h) = {} /\ client[h].st \notin {"idle", "put"}
      /\ client[h].st = "get" => client[h].got = <<>>
      /\ \A l \in Gets(h) : l = 1
      /\ \A l \in Acks(h) : l < 1
  BY <1>3 DEF DownInv, GetInv
<1>5. Chunks(h)' = {}
  BY <1>1, <1>4 DEF Chunks
<1>6. Gets(h)' = {}
  <2>1. \A k \in Gets(h)' : k \in Nat \ {0} /\ k + 1 \in Gets(h)
    BY <1>3 DEF Gets
  <2> QED BY <1>4, <2>1
<1>7. Acks(h)' = {}
  <2>1. ASSUME NEW k \in Acks(h)' PROVE FALSE
    <3>1. /\ k \in 0..Len(inbox'[h]) /\ At(h, k)' # None /\ At(h, k)'.type = "ack"
          /\ At(h, k)'.off # None
      BY DEF Acks, Way
    <3>2. k # 0
      BY <1>1, <1>2, <3>1 DEF At
    <3>3. /\ k \in DOMAIN inbox'[h] /\ k + 1 \in 0..Len(inbox[h]) /\ k + 1 # 0 /\ ~(k + 1 < 1)
          /\ At(h, k)' = At(h, k + 1)
      BY <1>3, <3>1, <3>2 DEF At
    <3>4. k + 1 \in Acks(h)
      BY <3>1, <3>3 DEF Acks, Way
    <3> QED BY <1>4, <3>3, <3>4
  <2> QED BY <2>1
<1>8. /\ job'[h].off = 0 /\ job'[h].ack = 0 /\ job'[h].data = target.data
      /\ target.data = Content(target.by) /\ target.data \in Seq(Nat \X Nat)
  <2>1. job[h] = NoJob
    BY <1>0, <1>1 DEF JobInv
  <2>2. job'[h] = [NoJob EXCEPT !.data = target.data]
    BY <1>0, <1>1, <2>1 DEF TypeOK
  <2> QED BY <1>0, <1>1, <2>2 DEF NoJob, FileInv, TypeOK, File
<1>9. OutInv(h)'
  BY <1>4, <1>1, <1>5 DEF OutInv
<1>10. SendInv(h)'
  BY <1>1, <1>5, <1>6, <1>7, <1>8, WindowAssumption DEF SendInv
<1>11. GetInv(h)'
  BY <1>6 DEF GetInv
<1>12. SnapInv(h)'
  <2> SUFFICES ASSUME client[h].st = "get" PROVE SnapInv(h)'
    BY <1>1 DEF SnapInv
  <2>1. PICK u \in {1} \cup commits : u = target.by
    BY <1>1 DEF ByInv
  <2>2. uploads[u] \in Nat
    BY <1>0, <1>1, <2>1 DEF FileInv, TypeOK
  <2>3. client'[h].got = <<>>
    BY <1>1, <1>4
  <2>4. Brings(h, u)'
    BY <1>1, <1>5, <2>2, <2>3 DEF Brings
  <2>5. job'[h].data = Content(u)'
    BY <1>1, <1>8, <2>1 DEF Content
  <2> QED BY <1>1, <1>8, <2>3, <2>4, <2>5 DEF SnapInv
<1> QED BY <1>9, <1>10, <1>11, <1>12 DEF DownInv

\* A chunk comes behind those on their way.
LEMMA ChunkSent ==
  ASSUME TypeOK, NEW h \in Handlers, NEW m \in Message, m.type = "chunk", Write(h, m)
  PROVE  \/ client[h].st = "gone" /\ outbox'[h] = outbox[h] /\ Chunks(h)' = Chunks(h)
         \/ LET n == Len(outbox[h]) + 1
            IN /\ n \in Nat /\ n \notin Chunks(h) /\ Chunks(h)' = Chunks(h) \cup {n}
               /\ outbox'[h][n] = m
               /\ \A j \in Chunks(h) : j < n /\ outbox'[h][j] = outbox[h][j]
<1>1. outbox[h] \in Seq(Message)
  BY DEF TypeOK
<1>2. CASE client[h].st = "gone"
  <2>1. outbox'[h] = outbox[h]
    BY <1>2 DEF Write, TypeOK
  <2> QED BY <1>2, <2>1 DEF Chunks
<1>3. CASE client[h].st # "gone"
  <2> DEFINE n == Len(outbox[h]) + 1
  <2>1. outbox'[h] = Append(outbox[h], m)
    BY <1>3 DEF Write, TypeOK
  <2>2. /\ n \in Nat /\ DOMAIN outbox[h] = 1..(n - 1) /\ DOMAIN outbox'[h] = 1..n
        /\ outbox'[h][n] = m
        /\ \A j \in 1..(n - 1) : outbox'[h][j] = outbox[h][j]
    BY <1>1, <2>1
  <2>3. /\ n \in 1..n /\ n \notin 1..(n - 1)
        /\ \A j \in 1..n : j \in 1..(n - 1) \/ j = n
        /\ \A j \in 1..(n - 1) : j \in 1..n /\ j < n
    BY <2>2
  <2> QED BY <2>2, <2>3 DEF Chunks
<1> QED BY <1>2, <1>3

\* The whole of an upload has its size.
LEMMA ContentSize ==
  ASSUME NEW u, uploads[u] \in Nat
  PROVE  Len(Content(u)) = uploads[u] /\ \A k \in 1..uploads[u] : Content(u)[k] = <<u, k>>
BY DEF Content

\* A chunk of the transfer keeps the order of those on their way, and of what
\* they bring.
LEMMA ChunkFits ==
  ASSUME TypeOK, Ids, NEW h \in Handlers, DownInv(h), pc[h] \in Sending,
         NEW d \in Pieces, Write(h, Chunk(job[h].off, d)),
         UNCHANGED <<v2, uploads, commits, client>>,
         h \notin v2 /\ d # None => job[h].off < job[h].ack + ACKSlidingWindowRecv
  PROVE  /\ OutInv(h)'
         /\ \A u \in {1} \cup commits :
              /\ Brings(h, u) /\ client[h].st = "get"
              /\ job[h].off \in Len(client[h].got)..uploads[u]
              /\ d = IF job[h].off < uploads[u] THEN <<u, job[h].off + 1>> ELSE None
              /\ \A o \in Len(client[h].got)..(job[h].off - 1) :
                   \E j \in Chunks(h) : outbox[h][j].off = o
              => /\ Brings(h, u)'
                 /\ \A o \in Len(client[h].got)..job[h].off :
                      \E j \in Chunks(h)' : outbox'[h][j].off = o
<1> DEFINE off == job[h].off
<1> DEFINE m == Chunk(off, d)
<1>0. /\ off \in Nat /\ m \in Message /\ m.type = "chunk" /\ m.off = off /\ m.data = d
      /\ job[h].ack \in Nat /\ Chunks(h) \subseteq Nat /\ Len(client[h].got) \in Nat
  BY PlacesTyped, Messages DEF Chunk
<1>1. client[h].st \notin {"idle", "put"}
  BY DEF DownInv, OutInv
<1>2. CASE client[h].st = "gone" /\ outbox'[h] = outbox[h] /\ Chunks(h)' = Chunks(h)
  BY <1>1, <1>2 DEF DownInv, OutInv
<1>3. CASE LET n == Len(outbox[h]) + 1
           IN /\ n \in Nat /\ n \notin Chunks(h) /\ Chunks(h)' = Chunks(h) \cup {n}
              /\ outbox'[h][n] = m
              /\ \A j \in Chunks(h) : j < n /\ outbox'[h][j] = outbox[h][j]
  <2>1. PICK n \in Nat : /\ n \notin Chunks(h) /\ Chunks(h)' = Chunks(h) \cup {n}
                         /\ outbox'[h][n] = m
                         /\ \A j \in Chunks(h) : j < n /\ outbox'[h][j] = outbox[h][j]
    BY <1>3
  <2>2. /\ \A j \in Chunks(h) : outbox[h][j].off \in Nat /\ outbox[h][j].off < off
        /\ \A i, j \in Chunks(h) : i < j => outbox[h][i].off < outbox[h][j].off
        /\ h \notin v2 => \A j \in Chunks(h) : job[h].ack <= outbox[h][j].off
        /\ h \notin v2 => off <= job[h].ack + ACKSlidingWindowRecv /\ job[h].ack <= off
    BY DEF DownInv, OutInv, SendInv
  <2>3. \A i, j \in Chunks(h)' : i < j => outbox'[h][i].off < outbox'[h][j].off
    BY <1>0, <2>1, <2>2
  <2>4. OutInv(h)'
    <3>1. ASSUME h \notin v2
          PROVE  \A j \in Chunks(h)' : outbox'[h][j].data # None =>
                   outbox'[h][j].off \in job[h].ack..(job[h].ack + ACKSlidingWindowRecv - 1)
      <4>1. ASSUME NEW j \in Chunks(h)
            PROVE  outbox'[h][j].off \in job[h].ack..(job[h].ack + ACKSlidingWindowRecv - 1)
        <5>1. /\ outbox[h][j].off \in Nat /\ outbox[h][j].off < off
              /\ job[h].ack <= outbox[h][j].off /\ off <= job[h].ack + ACKSlidingWindowRecv
          BY <2>2, <3>1
        <5>2. outbox'[h][j] = outbox[h][j]
          BY <2>1
        <5> QED BY <1>0, <5>1, <5>2, WindowAssumption
      <4>2. d # None => off \in job[h].ack..(job[h].ack + ACKSlidingWindowRecv - 1)
        BY <1>0, <2>2, <3>1, WindowAssumption
      <4> QED BY <1>0, <2>1, <4>1, <4>2
    <3> QED BY <1>0, <1>1, <2>1, <2>2, <2>3, <3>1 DEF OutInv
  <2>5. ASSUME NEW u \in {1} \cup commits, Brings(h, u),
               off \in Len(client[h].got)..uploads[u],
               d = IF off < uploads[u] THEN <<u, off + 1>> ELSE None,
               \A o \in Len(client[h].got)..(off - 1) :
                 \E j \in Chunks(h) : outbox[h][j].off = o
        PROVE  /\ Brings(h, u)'
               /\ \A o \in Len(client[h].got)..off : \E j \in Chunks(h)' : outbox'[h][j].off = o
    <3>1. ASSUME NEW j \in Chunks(h)'
          PROVE  /\ outbox'[h][j].off \in Len(client[h].got)..uploads[u]
                 /\ outbox'[h][j].data = IF outbox'[h][j].off < uploads[u]
                                           THEN <<u, outbox'[h][j].off + 1>> ELSE None
      BY <1>0, <2>1, <2>5 DEF Brings
    <3>2. ASSUME NEW j \in Chunks(h)', NEW o \in Len(client[h].got)..(outbox'[h][j].off - 1)
          PROVE  \E i \in Chunks(h)' : i < j /\ outbox'[h][i].off = o
      <4>1. CASE j = n
        BY <1>0, <2>1, <2>5, <4>1
      <4>2. CASE j \in Chunks(h)
        <5>1. PICK i \in Chunks(h) : i < j /\ outbox[h][i].off = o
          BY <2>1, <2>5, <4>2 DEF Brings
        <5> QED BY <2>1, <5>1
      <4> QED BY <2>1, <4>1, <4>2
    <3>3. \A o \in Len(client[h].got)..off : \E j \in Chunks(h)' : outbox'[h][j].off = o
      <4>1. \A o \in Len(client[h].got)..off : o = off \/ o \in Len(client[h].got)..(off - 1)
        BY <1>0
      <4> QED BY <1>0, <2>1, <2>5, <4>1
    <3> QED BY <2>3, <2>5, <3>1, <3>2, <3>3 DEF Brings
  <2> QED BY <2>4, <2>5
<1> QED BY <1>0, <1>2, <1>3, ChunkSent

\* The transfer sends a chunk of its file, if the window has room.
LEMMA CopyDown ==
  ASSUME IndInv, NEW h \in Handlers, DownInv(h), CopyChunk(h), ~Fail(h, TRUE)
  PROVE  DownInv(h)'
<1> USE DEF config, fileVars, rateVars, peerVars, sessVars
<1> DEFINE off == job[h].off
<1> DEFINE d == job[h].data[off + 1]
<1>0. /\ TypeOK /\ Ids /\ off \in Nat /\ job[h].ack \in Nat /\ Len(client[h].got) \in Nat
      /\ job[h].data \in Seq(Nat \X Nat) /\ Chunks(h) \subseteq Nat
  BY PlacesTyped DEF IndInv, TypeOK, Job
<1>1. /\ UNCHANGED <<v2, uploads, commits, client, inbox, cur, pc>> /\ pc[h] = "copy"
      /\ off < Len(job[h].data) /\ WindowOpen(h, off)
      /\ Write(h, Chunk(off, d))
  BY DEF CopyChunk
<1>2. /\ job'[h].off = off + 1 /\ job'[h].ack = job[h].ack /\ job'[h].data = job[h].data
  <2>1. job' = [job EXCEPT ![h].off = @ + 1]
    BY DEF CopyChunk
  <2> QED BY <1>0, <2>1 DEF TypeOK, Job
<1>3. d \in Nat \X Nat /\ d \in Pieces /\ d # None
  <2>1. off + 1 \in 1..Len(job[h].data)
    BY <1>0, <1>1
  <2>2. d \in Nat \X Nat
    BY <1>0, <2>1
  <2> QED BY <2>2, NoneIsNothing DEF Pieces
<1>4. h \notin v2 => off < job[h].ack + ACKSlidingWindowRecv
  BY <1>1 DEF WindowOpen
<1>5. pc[h] \in Sending
  BY <1>1 DEF Sending
<1>6. OutInv(h)'
  BY <1>0, <1>1, <1>3, <1>4, <1>5, ChunkFits
<1>7. \A j \in Chunks(h)' : outbox'[h][j].data # None /\ outbox'[h][j].off \in Nat
                            /\ outbox'[h][j].off <= off
                            /\ (j \notin Chunks(h) => outbox'[h][j].off = off)
                            /\ (j \in Chunks(h) => outbox'[h][j] = outbox[h][j])
  <2>1. \A j \in Chunks(h) : outbox[h][j].data # None /\ outbox[h][j].off < off
                             /\ outbox[h][j].off \in Nat
    BY <1>5 DEF DownInv, OutInv, SendInv
  <2>2. Chunk(off, d) \in Message /\ Chunk(off, d).type = "chunk" /\ Chunk(off, d).data = d
        /\ Chunk(off, d).off = off
    BY <1>0, <1>3, Messages DEF Chunk
  <2>3. CASE outbox'[h] = outbox[h] /\ Chunks(h)' = Chunks(h)
    BY <1>0, <2>1, <2>3
  <2>4. CASE LET n == Len(outbox[h]) + 1
             IN /\ n \in Nat /\ n \notin Chunks(h) /\ Chunks(h)' = Chunks(h) \cup {n}
                /\ outbox'[h][n] = Chunk(off, d)
                /\ \A j \in Chunks(h) : j < n /\ outbox'[h][j] = outbox[h][j]
    <3>1. PICK n \in Nat : /\ n \notin Chunks(h) /\ Chunks(h)' = Chunks(h) \cup {n}
                           /\ outbox'[h][n] = Chunk(off, d)
                           /\ \A j \in Chunks(h) : outbox'[h][j] = outbox[h][j]
      BY <2>4
    <3>2. ASSUME NEW j \in Chunks(h)
          PROVE  /\ outbox'[h][j] = outbox[h][j] /\ outbox[h][j].data # None
                 /\ outbox[h][j].off \in Nat /\ outbox[h][j].off <= off
      BY <1>0, <2>1, <3>1
    <3>3. /\ outbox'[h][n].data # None /\ outbox'[h][n].off = off /\ off <= off
      BY <1>0, <1>3, <2>2, <3>1
    <3> QED BY <1>0, <3>1, <3>2, <3>3
  <2> QED BY <1>0, <1>1, <2>2, <2>3, <2>4, ChunkSent
<1>8. Acks(h)' = Acks(h) /\ Gets(h)' = Gets(h) /\ \A k : At(h, k)' = At(h, k)
  BY <1>1 DEF Acks, Gets, At, Way
<1>9. SendInv(h)'
  <2>1. Gets(h)' = {} /\ pc'[h] # "eof" /\ off + 1 <= Len(job[h].data) /\ Len(job[h].data) \in Nat
    BY <1>0, <1>1, <1>5, <1>8, PlacesTyped DEF DownInv, SendInv
  <2>2. \A j \in Chunks(h)' : outbox'[h][j].data # None /\ outbox'[h][j].off < off + 1
    BY <1>0, <1>7
  <2>3. ASSUME h \notin v2
        PROVE  /\ job[h].ack <= off + 1 /\ off + 1 <= job[h].ack + ACKSlidingWindowRecv
               /\ \A j \in Chunks(h)' : job[h].ack <= outbox'[h][j].off
    <3>1. job[h].ack <= off /\ \A j \in Chunks(h) : job[h].ack <= outbox[h][j].off
      BY <1>5, <2>3 DEF DownInv, SendInv
    <3>2. off + 1 <= job[h].ack + ACKSlidingWindowRecv
      BY <1>0, <1>4, <2>3, WindowAssumption
    <3> QED BY <1>0, <1>7, <3>1, <3>2
  <2>4. ASSUME h \notin v2, NEW k \in Acks(h)
        PROVE  /\ job[h].ack <= At(h, k).off /\ At(h, k).off < off + 1
               /\ \A j \in Chunks(h)' : At(h, k).off < outbox'[h][j].off
               /\ \A l \in Acks(h) : k < l => At(h, k).off < At(h, l).off
    <3>1. /\ At(h, k).off \in Nat
          /\ job[h].ack <= At(h, k).off /\ At(h, k).off < off
          /\ \A j \in Chunks(h) : At(h, k).off < outbox[h][j].off
          /\ \A l \in Acks(h) : k < l => At(h, k).off < At(h, l).off
      BY <1>0, <1>5, <2>4, PlacesTyped DEF DownInv, SendInv
    <3> QED BY <1>0, <1>7, <3>1
  <2> QED BY <1>1, <1>2, <1>8, <2>1, <2>2, <2>3, <2>4 DEF SendInv
<1>10. GetInv(h)'
  BY <1>5, <1>8 DEF DownInv, SendInv, GetInv
<1>11. SnapInv(h)'
  <2> SUFFICES ASSUME client[h].st = "get" PROVE SnapInv(h)'
    BY <1>1 DEF SnapInv
  <2>1. PICK u \in {1} \cup commits :
          /\ Brings(h, u) /\ job[h].data = Content(u)
          /\ Len(client[h].got) <= off
          /\ \A o \in Len(client[h].got)..(off - 1) : \E j \in Chunks(h) : outbox[h][j].off = o
    BY <1>5 DEF DownInv, SnapInv
  <2>2. uploads[u] \in Nat
    BY <1>0 DEF Ids, TypeOK
  <2>3. off < uploads[u] /\ d = <<u, off + 1>>
    <3>1. /\ Len(job[h].data) = uploads[u]
          /\ \A k \in 1..uploads[u] : job[h].data[k] = <<u, k>>
      BY <2>1, <2>2, ContentSize
    <3>2. off < uploads[u]
      BY <1>1, <3>1
    <3>3. off + 1 \in 1..uploads[u]
      BY <1>0, <2>2, <3>2
    <3> QED BY <3>1, <3>2, <3>3
  <2>4. off \in Len(client[h].got)..uploads[u]
    BY <1>0, <2>1, <2>2, <2>3
  <2>5. /\ Brings(h, u)'
        /\ \A o \in Len(client[h].got)..off : \E j \in Chunks(h)' : outbox'[h][j].off = o
    BY <1>0, <1>1, <1>3, <1>4, <1>5, <2>1, <2>3, <2>4, ChunkFits
  <2>6. \A o \in Len(client[h].got)..(job'[h].off - 1) : o \in Len(client[h].got)..off
    BY <1>0, <1>2
  <2>7. Content(u)' = Content(u) /\ Len(client[h].got) <= off + 1
    BY <1>0, <1>1, <2>1 DEF Content
  <2>8. /\ job'[h].data = Content(u)' /\ Len(client'[h].got) <= job'[h].off
        /\ \A o \in Len(client'[h].got)..(job'[h].off - 1) :
             \E j \in Chunks(h)' : outbox'[h][j].off = o
    <3>1. client'[h].got = client[h].got
      BY <1>1
    <3>2. \A o \in Len(client[h].got)..(job'[h].off - 1) :
             \E j \in Chunks(h)' : outbox'[h][j].off = o
      BY <2>5, <2>6
    <3>3. \A o \in Len(client'[h].got)..(job'[h].off - 1) :
             \E j \in Chunks(h)' : outbox'[h][j].off = o
      BY <3>1, <3>2
    <3>4. job'[h].data = Content(u)' /\ Len(client'[h].got) <= job'[h].off
      BY <1>2, <2>1, <2>7, <3>1
    <3> QED BY <3>3, <3>4
  <2>9. u \in {1} \cup commits'
    BY <1>1
  <2> QED BY <2>5, <2>8, <2>9 DEF SnapInv
<1> QED BY <1>6, <1>9, <1>10, <1>11 DEF DownInv

\* The EOF is the last that it sends.
LEMMA EofDown ==
  ASSUME IndInv, NEW h \in Handlers, DownInv(h), SendEof(h), ~Fail(h, TRUE)
  PROVE  DownInv(h)'
<1> USE DEF config, fileVars, rateVars, peerVars, sessVars
<1> DEFINE off == job[h].off
<1>0. TypeOK /\ Ids /\ off \in Nat /\ Len(client[h].got) \in Nat /\ None \in Pieces
  BY PlacesTyped DEF IndInv, Pieces
<1>1. /\ UNCHANGED <<v2, uploads, commits, client, inbox, cur, job>> /\ pc[h] = "eof"
      /\ Write(h, Chunk(off, None))
  BY DEF SendEof
<1>2. pc'[h] \notin Sending /\ pc[h] \in Sending
  BY <1>0, <1>1 DEF SendEof, Goto, TypeOK, Sending
<1>3. OutInv(h)'
  BY <1>0, <1>1, <1>2, ChunkFits
<1>4. Gets(h)' = {}
  BY <1>1, <1>2 DEF DownInv, SendInv, Gets
<1>5. SnapInv(h)'
  <2> SUFFICES ASSUME client[h].st = "get" PROVE SnapInv(h)'
    BY <1>1 DEF SnapInv
  <2>1. PICK u \in {1} \cup commits :
          /\ Brings(h, u) /\ job[h].data = Content(u)
          /\ Len(client[h].got) <= off
          /\ \A o \in Len(client[h].got)..(off - 1) : \E j \in Chunks(h) : outbox[h][j].off = o
    BY <1>2 DEF DownInv, SnapInv
  <2>2. uploads[u] \in Nat
    BY <1>0 DEF Ids, TypeOK
  <2>3. off = uploads[u]
    BY <1>1, <1>2, <2>1, <2>2, ContentSize DEF DownInv, SendInv
  <2>4. off \in Len(client[h].got)..uploads[u]
    BY <1>0, <2>1, <2>2, <2>3
  <2>5. Brings(h, u)'
    BY <1>0, <1>1, <1>2, <2>1, <2>2, <2>3, <2>4, ChunkFits
  <2> QED BY <1>1, <1>2, <2>5 DEF SnapInv
<1> QED BY <1>2, <1>3, <1>4, <1>5 DEF DownInv, SendInv, GetInv

\* An acknowledgement opens the next window: the chunks on their way are all of
\* it.
LEMMA WaitDown ==
  ASSUME IndInv, IndInv', NEW h \in Handlers, DownInv(h), TakeAck(h), pc[h] = "wait"
  PROVE  DownInv(h)'
<1> USE DEF config, fileVars, rateVars, peerVars, sessVars
<1>0. /\ TypeOK /\ TypeOK' /\ Ids /\ SessInv(h) /\ job[h].off \in Nat
      /\ Chunks(h) \subseteq Nat /\ Acks(h) \subseteq Nat /\ job[h] \in Job
  BY PlacesTyped DEF IndInv, HandlerInv, TypeOK
<1>1. /\ UNCHANGED <<v2, uploads, commits, client, inbox, outbox>> /\ cur'[h] = None
      /\ cur[h] # None /\ cur[h].type = "ack" /\ cur[h].off # None /\ pc'[h] = "copy"
  BY <1>0 DEF TakeAck, Handed, SessInv, Goto, TypeOK
<1>2. /\ job'[h].off = job[h].off /\ job'[h].ack = cur[h].off /\ job'[h].data = job[h].data
  <2>1. job' = [job EXCEPT ![h].ack = cur[h].off, ![h].start = job[h].off]
    BY DEF TakeAck
  <2>2. job' = [job EXCEPT ![h] = [[job[h] EXCEPT !.ack = cur[h].off] EXCEPT !.start = job[h].off]]
    BY <1>0, <2>1, Zenon DEF TypeOK
  <2> QED BY <1>0, <2>2 DEF TypeOK, Job
<1>3. 0 \in Acks(h) /\ At(h, 0) = cur[h]
  BY <1>0, <1>1 DEF Acks, At, Way, TypeOK
<1>4. Chunks(h)' = Chunks(h) /\ Gets(h)' = Gets(h)
  BY <1>1 DEF Chunks, Gets
<1>5. \A k \in Acks(h)' : k \in Acks(h) /\ k > 0 /\ At(h, k)' = At(h, k)
  BY <1>1 DEF Acks, At, Way
<1>6. pc[h] \in Sending
  BY DEF Sending
<1>7. OutInv(h)'
  <2>1. client[h].st \notin {"idle", "put"}
    BY <1>6 DEF DownInv, OutInv
  <2> QED BY <1>1, <1>4, <2>1 DEF DownInv, OutInv
<1>8. SendInv(h)'
  <2>1. /\ Gets(h)' = {} /\ job[h].off <= Len(job[h].data)
        /\ \A j \in Chunks(h) : outbox[h][j].data # None /\ outbox[h][j].off < job[h].off
    BY <1>4, <1>6 DEF DownInv, SendInv
  <2>2. ASSUME h \notin v2
        PROVE  /\ cur[h].off <= job[h].off /\ job[h].off <= cur[h].off + ACKSlidingWindowRecv
               /\ \A j \in Chunks(h) : cur[h].off <= outbox[h][j].off
    <3>1. /\ job[h].ack \in Nat /\ cur[h].off \in Nat
          /\ job[h].ack <= cur[h].off /\ cur[h].off < job[h].off
          /\ job[h].off <= job[h].ack + ACKSlidingWindowRecv
          /\ \A j \in Chunks(h) : outbox[h][j].off \in Nat /\ cur[h].off < outbox[h][j].off
      BY <1>0, <1>3, <1>6, <2>2, PlacesTyped DEF DownInv, OutInv, SendInv
    <3> QED BY <1>0, <3>1, WindowAssumption
  <2>3. ASSUME h \notin v2, NEW k \in Acks(h)'
        PROVE  /\ cur[h].off <= At(h, k)'.off /\ At(h, k)'.off < job[h].off
               /\ \A j \in Chunks(h) : At(h, k)'.off < outbox[h][j].off
               /\ \A l \in Acks(h)' : k < l => At(h, k)'.off < At(h, l)'.off
    <3>1. /\ At(h, k).off \in Nat /\ cur[h].off \in Nat
          /\ cur[h].off < At(h, k).off /\ At(h, k).off < job[h].off
          /\ \A j \in Chunks(h) : At(h, k).off < outbox[h][j].off
          /\ \A l \in Acks(h) : k < l => At(h, k).off < At(h, l).off
      BY <1>0, <1>3, <1>5, <1>6, <2>3, PlacesTyped DEF DownInv, SendInv
    <3> QED BY <1>5, <3>1
  <2> QED BY <1>1, <1>2, <1>4, <2>1, <2>2, <2>3 DEF SendInv
<1>9. GetInv(h)'
  BY <1>4, <1>6 DEF DownInv, SendInv, GetInv
<1>10. SnapInv(h)'
  <2> SUFFICES ASSUME client[h].st = "get" PROVE SnapInv(h)'
    BY <1>1 DEF SnapInv
  <2>1. PICK u \in {1} \cup commits :
          /\ Brings(h, u) /\ job[h].data = Content(u)
          /\ Len(client[h].got) <= job[h].off
          /\ \A o \in Len(client[h].got)..(job[h].off - 1) :
               \E j \in Chunks(h) : outbox[h][j].off = o
    BY <1>6 DEF DownInv, SnapInv
  <2>2. Brings(h, u)' /\ Content(u)' = Content(u)
    BY <1>1, <1>4, <2>1 DEF Brings, Content
  <2> QED BY <1>1, <1>2, <1>4, <2>1, <2>2 DEF SnapInv
<1> QED BY <1>7, <1>8, <1>9, <1>10 DEF DownInv

-----------------------------------------------------------------------------
\* A client that asks for a download has nothing on its way of an earlier one,
\* but acknowledgements in front of its request.
LEMMA GetDown ==
  ASSUME IndInv, IndInv', NEW h \in Handlers, DownInv(h), Get(h)
  PROVE  DownInv(h)'
<1> USE DEF config, fileVars, rateVars, sessVars, taskVars, faultVars, rest
<1>0. /\ TypeOK /\ TypeOK' /\ Ids
      /\ Chunks(h) \subseteq Nat /\ Acks(h) \subseteq Nat /\ Gets(h) \subseteq Nat
  BY PlacesTyped DEF IndInv
<1>1. /\ UNCHANGED <<v2, uploads, commits, outbox, cur, pc, job>>
      /\ client[h].st = "idle"
      /\ client' = [client EXCEPT ![h] = [NoClient EXCEPT !.st = "get"]]
  BY DEF Get
<1>2. client'[h].st = "get" /\ client'[h].got = <<>>
  <2>1. client'[h] = [NoClient EXCEPT !.st = "get"]
    BY <1>0, <1>1 DEF TypeOK
  <2> QED BY <2>1 DEF NoClient
<1>3. Chunks(h)' = Chunks(h) /\ Chunks(h) = {} /\ pc[h] \notin Sending
  BY <1>1 DEF DownInv, OutInv, Chunks
<1>4. Gets(h) = {}
  BY <1>1 DEF DownInv, GetInv
<1>5. PICK m \in Message : Send(h, m) /\ m.type = "get"
  <2>1. PICK p \in Places : Send(h, [type |-> "get", place |-> p])
    BY DEF Get, Places
  <2>2. [type |-> "get", place |-> p] \in Message
    BY DEF Message
  <2> QED BY <2>1, <2>2
<1> DEFINE n == Len(inbox[h]) + 1
<1>6. /\ n \in Nat /\ DOMAIN inbox[h] = 1..(n - 1) /\ DOMAIN inbox'[h] = 1..n
      /\ \A k : k = n => At(h, k)' = m
      /\ \A k \in Way(h)' : k \in Way(h) \/ k = n
      /\ \A k \in Way(h) : k < n /\ At(h, k)' = At(h, k)
      /\ \A k \in DOMAIN inbox[h] : inbox'[h][k] = inbox[h][k]
  BY <1>0, <1>1, <1>5, Sent
<1>7. \A k \in Gets(h)' : k = n
  <2>1. ASSUME NEW k \in Gets(h)', k # n PROVE FALSE
    <3>1. k \in DOMAIN inbox[h] /\ inbox[h][k].type = "get"
      BY <1>6, <2>1 DEF Gets
    <3> QED BY <1>4, <3>1 DEF Gets
  <2> QED BY <2>1
<1>8. \A k \in Acks(h)' : k < n
  <2>1. ASSUME NEW k \in Acks(h)' PROVE k \in Way(h)
    <3>1. k \in Way(h)' /\ At(h, k)'.type = "ack"
      BY DEF Acks
    <3> QED BY <1>5, <1>6, <3>1
  <2> QED BY <1>6, <2>1
<1>9. OutInv(h)' /\ SendInv(h)'
  BY <1>1, <1>2, <1>3 DEF DownInv, OutInv, SendInv
<1>10. GetInv(h)'
  BY <1>2, <1>3, <1>7, <1>8 DEF GetInv
<1>11. SnapInv(h)'
  <2>1. uploads'[1] \in Nat
    BY <1>0, <1>1 DEF Ids, TypeOK
  <2>2. Brings(h, 1)'
    BY <1>2, <1>3, <2>1 DEF Brings
  <2> QED BY <1>1, <1>3, <2>2 DEF SnapInv
<1> QED BY <1>9, <1>10, <1>11 DEF DownInv

\* The client of a download takes its next chunk, and acknowledges it in version
\* 1: in front of the chunks that are left, behind what it acknowledged before.
LEMMA ChunkTaken ==
  ASSUME IndInv, IndInv', NEW h \in Handlers, DownInv(h), Receive(h),
         client[h].st = "get", Head(outbox[h]).type = "chunk"
  PROVE  DownInv(h)'
<1> USE DEF config, fileVars, rateVars, sessVars, taskVars, faultVars, rest
<1> DEFINE m == outbox[h][1]
<1> DEFINE got == client[h].got
<1>0. /\ TypeOK /\ TypeOK' /\ Ids /\ job[h].off \in Nat /\ job[h].ack \in Nat
      /\ got \in Seq(Nat \X Nat) /\ Len(got) \in Nat
      /\ Chunks(h) \subseteq Nat /\ Acks(h) \subseteq Nat /\ Gets(h) \subseteq Nat
  BY PlacesTyped DEF IndInv, TypeOK, Peer
<1>1. /\ UNCHANGED <<v2, uploads, commits, cur, pc, job>>
      /\ outbox[h] \in Seq(Message) /\ outbox[h] # <<>> /\ outbox'[h] = Tail(outbox[h])
      /\ Head(outbox[h]) = m /\ client'[h] = After(h, m)
      /\ IF h \notin v2 THEN Send(h, Ack(m.off)) ELSE inbox' = inbox
  BY <1>0 DEF Receive, TypeOK
<1>2. /\ \A j \in Chunks(h)' : j + 1 \in Chunks(h) /\ outbox'[h][j] = outbox[h][j + 1]
      /\ \A j \in Chunks(h) : j # 1 => j - 1 \in Chunks(h)' /\ outbox'[h][j - 1] = outbox[h][j]
      /\ 1 \in Chunks(h) /\ Chunks(h)' \subseteq Nat \ {0}
  <2>1. /\ Len(outbox[h]) \in Nat \ {0} /\ DOMAIN outbox[h] = 1..Len(outbox[h])
        /\ DOMAIN outbox'[h] = 1..(Len(outbox[h]) - 1)
        /\ \A j \in 1..(Len(outbox[h]) - 1) : outbox'[h][j] = outbox[h][j + 1]
    BY <1>1
  <2>2. /\ \A j \in 1..(Len(outbox[h]) - 1) : j + 1 \in 1..Len(outbox[h]) /\ j \in Nat \ {0}
        /\ \A j \in 1..Len(outbox[h]) : j # 1 => j - 1 \in 1..(Len(outbox[h]) - 1)
                                                 /\ j - 1 + 1 = j
        /\ 1 \in 1..Len(outbox[h])
    BY <2>1
  <2> QED BY <1>1, <2>1, <2>2 DEF Chunks
<1>3. PICK u \in {1} \cup commits :
        /\ Brings(h, u)
        /\ pc[h] \in Sending =>
             /\ job[h].data = Content(u)
             /\ Len(got) <= job[h].off
             /\ \A o \in Len(got)..(job[h].off - 1) : \E j \in Chunks(h) : outbox[h][j].off = o
  BY DEF DownInv, SnapInv
<1>4. uploads[u] \in Nat
  BY <1>0 DEF Ids, TypeOK
<1>5. /\ m.off = Len(got) /\ m.off \in Nat /\ m.off <= uploads[u]
      /\ m.data = IF m.off < uploads[u] THEN <<u, m.off + 1>> ELSE None
      /\ \A j \in Chunks(h) : j # 1 => m.off < outbox[h][j].off /\ outbox[h][j].off \in Nat
                                       /\ outbox[h][j].off <= uploads[u]
  <2>1. /\ m.off \in Len(got)..uploads[u]
        /\ m.data = IF m.off < uploads[u] THEN <<u, m.off + 1>> ELSE None
        /\ \A o \in Len(got)..(m.off - 1) : \E i \in Chunks(h) : i < 1 /\ outbox[h][i].off = o
    BY <1>2, <1>3 DEF Brings
  <2>2. \A j \in Chunks(h) : j >= 1 /\ (j # 1 => 1 < j)
    BY <1>0, PlacesTyped
  <2>3. m.off = Len(got)
    <3>1. m.off \in Nat /\ Len(got) <= m.off
      BY <1>0, <1>4, <2>1
    <3>2. ASSUME Len(got) < m.off PROVE FALSE
      <4>1. Len(got) \in Len(got)..(m.off - 1)
        BY <1>0, <3>1, <3>2
      <4>2. PICK i \in Chunks(h) : i < 1
        BY <2>1, <4>1
      <4> QED BY <1>0, <2>2, <4>2
    <3> QED BY <1>0, <3>1, <3>2
  <2>4. \A j \in Chunks(h) : j # 1 => m.off < outbox[h][j].off
    BY <1>2, <1>3, <2>2 DEF Brings
  <2>5. \A j \in Chunks(h) : outbox[h][j].off \in Nat /\ outbox[h][j].off <= uploads[u]
    <3>1. ASSUME NEW j \in Chunks(h) PROVE outbox[h][j].off \in Len(got)..uploads[u]
      BY <1>3 DEF Brings
    <3> QED BY <1>0, <1>4, <3>1
  <2> QED BY <1>0, <1>4, <2>1, <2>3, <2>4, <2>5
<1>6. Gets(h) = {}
  BY <1>2 DEF DownInv, GetInv
<1>7. /\ Gets(h)' = {}
      /\ h \notin v2 => \E n \in Nat : \A k \in Acks(h)' :
           \/ k \in Acks(h) /\ k < n /\ At(h, k)' = At(h, k)
           \/ k = n /\ At(h, k)'.off = m.off
  <2>1. CASE h \in v2
    BY <1>1, <1>6, <2>1 DEF Gets
  <2>2. CASE h \notin v2
    <3> DEFINE n == Len(inbox[h]) + 1
    <3>1. Ack(m.off) \in Message /\ Ack(m.off).type = "ack" /\ Ack(m.off).off = m.off
      BY <1>5, Messages DEF Ack
    <3>2. /\ n \in Nat /\ DOMAIN inbox[h] = 1..(n - 1) /\ DOMAIN inbox'[h] = 1..n
          /\ inbox'[h][n] = Ack(m.off) /\ \A k : k = n => At(h, k)' = Ack(m.off)
          /\ \A k \in Way(h)' : k \in Way(h) \/ k = n
          /\ \A k \in Way(h) : k < n /\ At(h, k)' = At(h, k)
          /\ \A k \in DOMAIN inbox[h] : inbox'[h][k] = inbox[h][k]
      BY <1>0, <1>1, <2>2, <3>1, Sent
    <3>3. ASSUME NEW k \in Gets(h)' PROVE FALSE
      <4>1. k \in DOMAIN inbox'[h] /\ inbox'[h][k].type = "get"
        BY DEF Gets
      <4>2. k \in DOMAIN inbox[h] \/ k = n
        BY <3>2, <4>1
      <4> QED BY <1>6, <3>1, <3>2, <4>1, <4>2 DEF Gets
    <3>4. \A k \in Acks(h)' : \/ k \in Acks(h) /\ k < n /\ At(h, k)' = At(h, k)
                              \/ k = n /\ At(h, k)'.off = m.off
      BY <3>1, <3>2 DEF Acks
    <3> QED BY <3>2, <3>3, <3>4
  <2> QED BY <2>1, <2>2
<1>8. CASE m.data = None
  <2>1. m.off = uploads[u]
    <3>1. <<u, m.off + 1>> \in Nat \X Nat
      <4>1. u \in Nat
        BY <1>0 DEF TypeOK
      <4> QED BY <1>5, <4>1
    <3> QED BY <1>4, <1>5, <1>8, <3>1, NoneIsNothing
  <2>2. Chunks(h)' = {}
    <3>1. ASSUME NEW j \in Chunks(h)' PROVE FALSE
      <4>1. j + 1 \in Chunks(h) /\ j + 1 # 1
        BY <1>2
      <4>2. uploads[u] < outbox[h][j + 1].off /\ outbox[h][j + 1].off \in Nat
            /\ outbox[h][j + 1].off <= uploads[u]
        BY <1>5, <2>1, <4>1
      <4> QED BY <1>4, <4>2
    <3> QED BY <3>1
  <2>3. pc[h] \notin Sending
    BY <1>2, <1>8 DEF DownInv, SendInv
  <2>4. client'[h].st = "idle"
    <3>1. After(h, m) = NoClient
      BY <1>1, <1>8 DEF After
    <3> QED BY <1>1, <3>1 DEF NoClient
  <2> QED BY <1>1, <1>7, <2>2, <2>3, <2>4 DEF DownInv, OutInv, SendInv, GetInv, SnapInv
<1>9. CASE m.data # None
  <2>1. m.off < uploads[u] /\ m.data = <<u, m.off + 1>>
    BY <1>5, <1>9
  <2>2. client'[h].st = "get" /\ client'[h].got = Append(got, m.data)
    <3>1. After(h, m) = [client[h] EXCEPT !.got = Append(@, m.data)]
      BY <1>1, <1>9 DEF After
    <3>2. client[h] \in Peer
      BY <1>0 DEF TypeOK
    <3> QED BY <1>1, <3>1, <3>2 DEF Peer
  <2>3. Len(client'[h].got) = m.off + 1 /\ \A k \in DOMAIN client'[h].got :
                                              client'[h].got[k] = <<u, k>>
    <3>1. m.data \in Nat \X Nat
      <4>1. u \in Nat
        BY <1>0 DEF TypeOK
      <4> QED BY <1>5, <2>1, <4>1
    <3>2. /\ Len(Append(got, m.data)) = Len(got) + 1
          /\ DOMAIN Append(got, m.data) = 1..(Len(got) + 1)
          /\ \A k \in 1..(Len(got) + 1) :
               Append(got, m.data)[k] = IF k = Len(got) + 1 THEN m.data ELSE got[k]
      BY <1>0, <3>1
    <3>3. \A k \in 1..Len(got) : got[k] = <<u, k>>
      BY <1>0, <1>3 DEF Brings
    <3>4. \A k \in 1..(Len(got) + 1) : k = Len(got) + 1 \/ k \in 1..Len(got)
      <4>1. Len(got) \in Nat
        BY <1>0
      <4> QED BY ONLY <4>1
    <3> QED BY <1>5, <2>1, <2>2, <3>2, <3>3, <3>4
  <2>4. ASSUME NEW j \in Chunks(h)'
        PROVE  /\ j + 1 \in Chunks(h) /\ j + 1 # 1 /\ outbox'[h][j] = outbox[h][j + 1]
               /\ m.off < outbox'[h][j].off /\ outbox'[h][j].off \in Nat
               /\ outbox'[h][j].off <= uploads[u]
    <3>1. j + 1 \in Chunks(h) /\ j + 1 # 1 /\ outbox'[h][j] = outbox[h][j + 1]
      BY <1>2
    <3> QED BY <1>5, <3>1
  <2>5. OutInv(h)'
    <3>1. \A i, j \in Chunks(h)' : i < j => outbox'[h][i].off < outbox'[h][j].off
      <4>1. \A i, j \in Chunks(h) : i < j => outbox[h][i].off < outbox[h][j].off
        BY DEF DownInv, OutInv
      <4> QED BY <1>2, <4>1
    <3>2. ASSUME h \notin v2
          PROVE  \E b \in Nat : \A j \in Chunks(h)' : outbox'[h][j].data # None =>
                   outbox'[h][j].off \in b..(b + ACKSlidingWindowRecv - 1)
      BY <2>4, <3>2 DEF DownInv, OutInv
    <3> QED BY <1>1, <2>2, <2>4, <3>1, <3>2 DEF OutInv
  <2>6. SendInv(h)'
    <3> SUFFICES ASSUME pc[h] \in Sending PROVE SendInv(h)'
      BY <1>1 DEF SendInv
    <3>1. /\ \A j \in Chunks(h)' : outbox'[h][j].data # None
                                    /\ outbox'[h][j].off < job[h].off
          /\ job[h].off <= Len(job[h].data)
          /\ pc[h] = "eof" => job[h].off = Len(job[h].data)
      BY <2>4 DEF DownInv, SendInv
    <3>2. ASSUME h \notin v2
          PROVE  /\ job[h].ack <= job[h].off
                 /\ job[h].off <= job[h].ack + ACKSlidingWindowRecv
                 /\ \A j \in Chunks(h)' : job[h].ack <= outbox'[h][j].off
                 /\ job[h].ack <= m.off /\ m.off < job[h].off
                 /\ \A k \in Acks(h) : /\ job[h].ack <= At(h, k).off
                                       /\ At(h, k).off < job[h].off
                                       /\ At(h, k).off < m.off
                                       /\ \A j \in Chunks(h)' : At(h, k).off < outbox'[h][j].off
                                       /\ \A l \in Acks(h) : k < l => At(h, k).off < At(h, l).off
      BY <1>2, <2>4, <3>2 DEF DownInv, SendInv
    <3>3. ASSUME h \notin v2, NEW k \in Acks(h)'
          PROVE  /\ job[h].ack <= At(h, k)'.off /\ At(h, k)'.off < job[h].off
                 /\ \A j \in Chunks(h)' : At(h, k)'.off < outbox'[h][j].off
                 /\ \A l \in Acks(h)' : k < l => At(h, k)'.off < At(h, l)'.off
      <4>1. PICK n \in Nat : \A l \in Acks(h)' :
              \/ l \in Acks(h) /\ l < n /\ At(h, l)' = At(h, l)
              \/ l = n /\ At(h, l)'.off = m.off
        BY <1>7, <3>3
      <4>2. CASE k \in Acks(h) /\ k < n /\ At(h, k)' = At(h, k)
        BY <3>2, <3>3, <4>1, <4>2
      <4>3. CASE k = n /\ At(h, k)'.off = m.off
        <5>1. \A l \in Acks(h)' : ~(k < l)
          BY <1>0, <4>1, <4>3
        <5> QED BY <2>4, <3>2, <3>3, <4>3, <5>1
      <4> QED BY <4>1, <4>2, <4>3
    <3> QED BY <1>1, <1>7, <3>1, <3>2, <3>3 DEF SendInv
  <2>7. Brings(h, u)'
    <3>1. ASSUME NEW j \in Chunks(h)'
          PROVE  /\ outbox'[h][j].off \in (m.off + 1)..uploads[u]
                 /\ outbox'[h][j].data = IF outbox'[h][j].off < uploads[u]
                                           THEN <<u, outbox'[h][j].off + 1>> ELSE None
                 /\ \A i \in Chunks(h)' : i < j => outbox'[h][i].off < outbox'[h][j].off
      <4>1. outbox'[h][j].off \in (m.off + 1)..uploads[u]
        BY <1>4, <1>5, <2>4
      <4>2. outbox'[h][j].data = IF outbox'[h][j].off < uploads[u]
                                  THEN <<u, outbox'[h][j].off + 1>> ELSE None
        BY <1>3, <2>4 DEF Brings
      <4>3. \A i \in Chunks(h)' : i < j => outbox'[h][i].off < outbox'[h][j].off
        BY <2>5 DEF OutInv
      <4> QED BY <4>1, <4>2, <4>3
    <3>2. ASSUME NEW j \in Chunks(h)', NEW o \in (m.off + 1)..(outbox'[h][j].off - 1)
          PROVE  \E i \in Chunks(h)' : i < j /\ outbox'[h][i].off = o
      <4>1. o \in Len(got)..(outbox[h][j + 1].off - 1) /\ o # m.off
        BY <1>0, <1>5, <2>4
      <4>0. /\ j + 1 \in Chunks(h)
            /\ \A l \in Chunks(h) : \A p \in Len(got)..(outbox[h][l].off - 1) :
                 \E i \in Chunks(h) : i < l /\ outbox[h][i].off = p
        <5>1. j + 1 \in Chunks(h)
          BY <2>4
        <5>2. \A l \in Chunks(h) : \A p \in Len(got)..(outbox[h][l].off - 1) :
                \E i \in Chunks(h) : i < l /\ outbox[h][i].off = p
          BY <1>3 DEF Brings
        <5> QED BY ONLY <5>1, <5>2
      <4>2. PICK i \in Chunks(h) : i < j + 1 /\ outbox[h][i].off = o
        BY ONLY <4>0, <4>1
      <4>3. i - 1 \in Chunks(h)' /\ outbox'[h][i - 1] = outbox[h][i] /\ i - 1 < j
        BY <1>0, <1>2, <4>1, <4>2
      <4> QED BY <4>2, <4>3
    <3>3. m.off + 1 <= uploads[u]
      BY <1>4, <1>5, <2>1
    <3> QED BY <1>1, <2>3, <3>1, <3>2, <3>3 DEF Brings
  <2>8. SnapInv(h)'
    <3>1. ASSUME pc[h] \in Sending
          PROVE  /\ job[h].data = Content(u)' /\ m.off + 1 <= job[h].off
                 /\ \A o \in (m.off + 1)..(job[h].off - 1) :
                      \E j \in Chunks(h)' : outbox'[h][j].off = o
      <4>1. m.off < job[h].off
        BY <1>2, <3>1 DEF DownInv, SendInv
      <4>2. job[h].data = Content(u)' /\ m.off + 1 <= job[h].off
        BY <1>0, <1>1, <1>3, <1>5, <3>1, <4>1 DEF Content
      <4>3. ASSUME NEW o \in (m.off + 1)..(job[h].off - 1)
            PROVE  \E j \in Chunks(h)' : outbox'[h][j].off = o
        <5>1. o \in Len(got)..(job[h].off - 1) /\ o # m.off
          BY <1>0, <1>5
        <5>2. PICK i \in Chunks(h) : outbox[h][i].off = o
          BY <1>3, <3>1, <5>1
        <5> QED BY <1>2, <5>1, <5>2
      <4> QED BY <4>2, <4>3
    <3> QED BY <1>1, <2>3, <2>7, <3>1 DEF SnapInv
  <2> QED BY <1>7, <2>5, <2>6, <2>8 DEF DownInv, GetInv
<1> QED BY <1>8, <1>9

\* Whatever else a client does.
LEMMA ClientDown ==
  ASSUME IndInv, IndInv', NEW h \in Handlers, DownInv(h),
         \/ SendChunk(h) \/ Put(h) \/ GiveUp(h) \/ Stray(h) \/ Vanish(h)
         \/ Receive(h) /\ ~(client[h].st = "get" /\ Head(outbox[h]).type = "chunk")
  PROVE  DownInv(h)'
<1> USE DEF config, fileVars, rateVars, sessVars, taskVars, faultVars, rest
<1>0. TypeOK /\ TypeOK' /\ Ids
  BY DEF IndInv
<1>1. UNCHANGED <<v2, commits, cur, pc, job>>
  BY DEF SendChunk, Put, GiveUp, Stray, Vanish, Receive
<1>2. Grows
  <2>1. CASE Put(h)
    <3>1. PICK n \in UploadSizes : uploads' = Append(uploads, n)
      BY <2>1 DEF Put
    <3>2. uploads \in Seq(Nat) /\ n \in Nat
      BY <1>0, BoundAssumption DEF TypeOK
    <3> QED BY <1>1, <3>1, <3>2 DEF Grows
  <2>2. CASE ~Put(h)
    <3>1. uploads' = uploads
      BY <2>2 DEF SendChunk, GiveUp, Stray, Vanish, Receive
    <3> QED BY <1>0, <1>1, <3>1 DEF Grows, TypeOK
  <2> QED BY <2>1, <2>2
<1>3. \/ client'[h].st = client[h].st /\ client'[h].got = client[h].got
      \/ client'[h].st \in {"quit", "gone"}
      \/ client[h].st \in {"idle", "put"} /\ client'[h].st \in {"idle", "put"}
  <2>0. client[h] \in Peer
    BY <1>0 DEF TypeOK
  <2>1. CASE SendChunk(h)
    <3>1. client' = [client EXCEPT ![h].sent = @ + 1]
      BY <2>1 DEF SendChunk
    <3> QED BY <1>0, <2>0, <3>1 DEF TypeOK, Peer
  <2>2. CASE Put(h)
    <3>1. client'[h] = [NoClient EXCEPT !.st = "put", !.u = Len(uploads) + 1]
      BY <1>0, <2>2 DEF Put, TypeOK
    <3>2. client[h].st = "idle" /\ client'[h].st = "put"
      BY <2>2, <3>1 DEF Put, NoClient
    <3> QED BY <3>2
  <2>3. CASE GiveUp(h)
    <3>1. client'[h] = [NoClient EXCEPT !.st = "quit", !.u = client[h].u]
      BY <1>0, <2>3 DEF GiveUp, TypeOK
    <3> QED BY <3>1 DEF NoClient
  <2>4. CASE Vanish(h)
    <3>1. client'[h] = [NoClient EXCEPT !.st = "gone", !.u = client[h].u]
      BY <1>0, <2>4 DEF Vanish, TypeOK
    <3> QED BY <3>1 DEF NoClient
  <2>5. CASE Stray(h)
    BY <2>5 DEF Stray
  <2>6. CASE Receive(h) /\ ~(client[h].st = "get" /\ Head(outbox[h]).type = "chunk")
    <3> DEFINE m == Head(outbox[h])
    <3>1. client'[h] = After(h, m)
      BY <1>0, <2>6 DEF Receive, TypeOK
    <3>2. \/ After(h, m) = client[h]
          \/ After(h, m) = [NoClient EXCEPT !.st = "quit", !.u = client[h].u]
          \/ /\ client[h].st = "put"
             /\ After(h, m) \in {NoClient, [client[h] EXCEPT !.acked = m.off]}
      BY <2>6 DEF After
    <3>3. /\ [NoClient EXCEPT !.st = "quit", !.u = client[h].u].st = "quit"
          /\ NoClient.st = "idle"
          /\ [client[h] EXCEPT !.acked = m.off].st = client[h].st
      BY <2>0 DEF NoClient, Peer
    <3> QED BY <3>1, <3>2, <3>3
  <2> QED BY <2>1, <2>2, <2>3, <2>4, <2>5, <2>6
<1>4. OutMoves(h)
  <2>1. CASE outbox' = outbox
    BY <1>0, <2>1, WrittenMoves, Messages DEF ErrorMsg
  <2>2. CASE Vanish(h)
    <3>1. client'[h] = [NoClient EXCEPT !.st = "gone", !.u = client[h].u]
      BY <1>0, <2>2 DEF Vanish, TypeOK
    <3>2. client'[h].st # "get"
      BY <3>1 DEF NoClient
    <3>3. outbox'[h] = <<>>
      BY <1>0, <2>2 DEF Vanish, TypeOK
    <3> QED BY <1>0, <3>2, <3>3, TakenMoves
  <2>3. CASE Receive(h) /\ ~(client[h].st = "get" /\ Head(outbox[h]).type = "chunk")
    <3>1. outbox[h] # <<>> /\ outbox'[h] = Tail(outbox[h])
      BY <1>0, <2>3 DEF Receive, TypeOK
    <3>2. client'[h].st = "get" => client[h].st = "get"
      BY <1>3
    <3> QED BY <1>0, <2>3, <3>1, <3>2, TakenMoves
  <2> QED BY <2>1, <2>2, <2>3 DEF SendChunk, Put, GiveUp, Stray
<1>5. WayKeeps(h)
  <2>1. CASE SendChunk(h)
    <3>1. \E m \in Message : Send(h, m) /\ m.type = "chunk"
      <4>1. client[h].sent \in Nat /\ client[h].u \in Nat
        BY <1>0 DEF TypeOK, Peer
      <4> DEFINE d == IF client[h].sent < uploads[client[h].u]
                        THEN <<client[h].u, client[h].sent + 1>> ELSE None
      <4>2. d \in Pieces
        BY <4>1 DEF Pieces
      <4>3. Send(h, Chunk(client[h].sent, d))
        BY <2>1 DEF SendChunk
      <4> QED BY <4>1, <4>2, <4>3, Messages DEF Chunk
    <3> QED BY <1>0, <1>1, <3>1, SentKeeps
  <2>2. CASE Put(h)
    <3>1. \E m \in Message : Send(h, m) /\ m.type = "put"
      <4>1. PICK p \in Places : Send(h, [type |-> "put", u |-> Len(uploads) + 1, place |-> p])
        BY <2>2 DEF Put, Places
      <4>2. Len(uploads) + 1 \in Nat
        BY <1>0 DEF TypeOK
      <4>3. [type |-> "put", u |-> Len(uploads) + 1, place |-> p] \in Message
        BY <4>2 DEF Message
      <4> QED BY <4>1, <4>3
    <3> QED BY <1>0, <1>1, <3>1, SentKeeps
  <2>3. CASE GiveUp(h)
    BY <1>0, <1>1, <2>3, SentKeeps, Messages DEF GiveUp, ErrorMsg
  <2>4. CASE Stray(h)
    <3>1. /\ Ack(None) \in Message /\ Ack(None).type = "ack" /\ Ack(None).off = None
          /\ Chunk(None, None) \in Message /\ Chunk(None, None).type = "chunk"
          /\ [Ack(None) EXCEPT !.type = "other"] \in Message
          /\ [Ack(None) EXCEPT !.type = "other"].type = "other"
      BY Messages DEF Ack, Chunk, Pieces
    <3> QED BY <1>0, <1>1, <2>4, <3>1, SentKeeps DEF Stray
  <2>5. CASE Vanish(h)
    <3>1. PICK k \in 0..Len(inbox[h]) : inbox' = [inbox EXCEPT ![h] = SubSeq(@, 1, k)]
      BY <2>5 DEF Vanish
    <3>2. inbox'[h] = SubSeq(inbox[h], 1, k)
      BY <1>0, <3>1 DEF TypeOK
    <3> QED BY <1>0, <1>1, <3>2, CutKeeps
  <2>6. CASE Receive(h) /\ ~(client[h].st = "get" /\ Head(outbox[h]).type = "chunk")
    <3>1. inbox' = inbox
      BY <2>6 DEF Receive
    <3> QED BY <1>0, <1>1, <3>1, SentKeeps
  <2> QED BY <2>1, <2>2, <2>3, <2>4, <2>5, <2>6
<1>6. pc'[h] = pc[h] /\ job'[h] = job[h]
  BY <1>1
<1> QED BY <1>0, <1>2, <1>3, <1>4, <1>5, <1>6, DownKeeps

-----------------------------------------------------------------------------
\* A handler that a step leaves alone keeps its invariant.
LEMMA StillDown ==
  ASSUME TypeOK, TypeOK', Ids, Grows, NEW g \in Handlers, DownInv(g), Still(g)
  PROVE  DownInv(g)'
<1>0. Chunks(g) \subseteq Nat /\ Gets(g) \subseteq Nat /\ Acks(g) \subseteq Nat
  BY PlacesTyped
<1>1. Acks(g)' = Acks(g) /\ Gets(g)' = Gets(g) /\ Chunks(g)' = Chunks(g)
      /\ \A k \in Acks(g) : At(g, k)' = At(g, k)
  BY DEF Still, Acks, Gets, Chunks, Way, At
<1>2. WayKeeps(g)
  <2>1. /\ \A k \in Acks(g)' : k + 0 \in Acks(g) /\ At(g, k)'.off = At(g, k + 0).off
        /\ \A k \in Gets(g)' : k + 0 \in Gets(g)
    BY <1>0, <1>1
  <2> QED BY <2>1 DEF WayKeeps
<1>3. OutMoves(g)
  BY <1>0, <1>1 DEF OutMoves, Still
<1>4. client'[g] = client[g] /\ pc'[g] = pc[g] /\ job'[g] = job[g]
  BY DEF Still
<1> QED BY <1>2, <1>3, <1>4, DownKeeps

\* Uploads and commits only grow, and the file is always one of them.
LEMMA ByKeeps ==
  ASSUME IndInv, ByInv, NEW h \in Handlers,
         \/ Session(h) \/ Close(h) \/ Upload(h) \/ Download(h) \/ Client(h)
         \/ Put(h) \/ Get(h) \/ GiveUp(h) \/ Stray(h) \/ Vanish(h)
  PROVE  ByInv' /\ Grows
<1> USE DEF config, fileVars, peerVars, rest
<1>0. TypeOK
  BY DEF IndInv
<1>1. v2' = v2
  BY <1>0, OthersStill
<1>2. ASSUME UNCHANGED <<target, commits>> PROVE ByInv'
  BY <1>2 DEF ByInv
<1>3. CASE Session(h) \/ Close(h)
  <2>1. UNCHANGED <<target, commits, uploads>>
    BY <1>3 DEF Session, BeginUpload, RefuseUpload, BeginDownload, RefuseDownload, Answer,
                OfferMessage, NoTransferInProgress, Close, TimeOut, Interrupt, EndSession
  <2> QED BY <1>0, <1>1, <1>2, <2>1 DEF Grows, TypeOK
<1>4. CASE Download(h)
  <2>1. UNCHANGED <<target, commits, uploads>>
    BY <1>4 DEF Download, CopyChunk, CopyEnds, TakeAck, RejectAck, SendEof, Fail, Leave
  <2> QED BY <1>0, <1>1, <1>2, <2>1 DEF Grows, TypeOK
<1>5. CASE Client(h) \/ Get(h) \/ GiveUp(h) \/ Stray(h) \/ Vanish(h)
  <2>1. UNCHANGED <<target, commits, uploads>>
    BY <1>5 DEF Client, SendChunk, Receive, Get, GiveUp, Stray, Vanish
  <2> QED BY <1>0, <1>1, <1>2, <2>1 DEF Grows, TypeOK
<1>6. CASE Put(h)
  <2>1. UNCHANGED <<target, commits>>
    BY <1>6 DEF Put
  <2>2. PICK n \in UploadSizes : uploads' = Append(uploads, n)
    BY <1>6 DEF Put
  <2>3. uploads \in Seq(Nat) /\ n \in Nat
    BY <1>0, BoundAssumption DEF TypeOK
  <2> QED BY <1>1, <1>2, <2>1, <2>2, <2>3 DEF Grows
<1>7. CASE Upload(h)
  <2>1. uploads' = uploads
    BY <1>7, UploadFrame
  <2>2. CASE Rename(h) /\ ~Fail(h, TRUE)
    <3>1. /\ target' = [data |-> temp[h], by |-> job[h].u, owner |-> h, regular |-> TRUE]
          /\ commits' = commits \cup {job[h].u}
      BY <2>2 DEF Rename
    <3>2. target'.by \in {1} \cup commits'
      BY <3>1
    <3> QED BY <1>0, <1>1, <2>1, <3>1, <3>2 DEF Grows, ByInv, TypeOK
  <2>3. CASE Preserve(h) /\ ~Fail(h, TRUE)
    <3>1. target' = [target EXCEPT !.owner = Preserved(h)] /\ commits' = commits
      BY <2>3 DEF Preserve
    <3>2. target # None
      BY <1>0, <2>3 DEF Preserve, IndInv, HandlerInv, JobInv, FileInv
    <3>3. target'.by = target.by
      BY <1>0, <3>1, <3>2 DEF TypeOK, File
    <3> QED BY <1>0, <1>1, <2>1, <3>1, <3>2, <3>3 DEF Grows, ByInv, TypeOK
  <2>4. CASE ~(Rename(h) /\ ~Fail(h, TRUE)) /\ ~(Preserve(h) /\ ~Fail(h, TRUE))
    <3>1. UNCHANGED <<target, commits>>
      BY <1>7, <2>4 DEF Upload, CreateFile, FirstAck, WriteChunk, AfterChunk, EndOfFile,
           RejectChunk, ChannelClosed, BatchEnds, SendAck, Rename, Preserve, FinalAck,
           Release, Fail, Leave
    <3> QED BY <1>0, <1>1, <1>2, <2>1, <3>1 DEF Grows, TypeOK
  <2> QED BY <2>2, <2>3, <2>4
<1> QED BY <1>3, <1>4, <1>5, <1>6, <1>7

-----------------------------------------------------------------------------
DownIndInv == ByInv /\ \A h \in Handlers : DownInv(h)

LEMMA InitDown == ASSUME Init PROVE DownIndInv
<1>1. ByInv
  <2>1. target # None => target.by = 1
    BY DEF Init
  <2> QED BY <2>1 DEF ByInv
<1>2. ASSUME NEW h \in Handlers PROVE DownInv(h)
  <2>1. /\ inbox[h] = <<>> /\ outbox[h] = <<>> /\ cur[h] = None
        /\ pc[h] = "idle" /\ client[h] = NoClient
    BY DEF Init
  <2>2. Chunks(h) = {} /\ Gets(h) = {}
    BY <2>1 DEF Chunks, Gets
  <2>3. client[h].st = "idle" /\ pc[h] \notin Sending
    BY <2>1 DEF NoClient, Sending
  <2> QED BY <2>2, <2>3 DEF DownInv, OutInv, SendInv, GetInv, SnapInv
<1> QED BY <1>1, <1>2 DEF DownIndInv

\* The transfer of a download: a chunk, the EOF, the next window or an end.
LEMMA DownloadDown ==
  ASSUME IndInv, IndInv', NEW h \in Handlers, DownInv(h), Download(h)
  PROVE  DownInv(h)'
<1>0. TypeOK'
  BY DEF IndInv
<1>1. CASE Fail(h, TRUE)
  <2>1. \E tell \in BOOLEAN : Leave(h, tell)
    BY <1>1 DEF Fail
  <2> QED BY <1>0, <2>1, LeaveDown
<1>2. CASE CopyChunk(h) /\ ~Fail(h, TRUE)
  BY <1>2, CopyDown
<1>3. CASE SendEof(h) /\ ~Fail(h, TRUE)
  BY <1>3, EofDown
<1>4. CASE CopyEnds(h) \/ RejectAck(h)
  BY <1>0, <1>4, LeaveDown
<1>5. CASE TakeAck(h)
  BY <1>0, <1>5, LeaveDown, WaitDown
<1> QED BY <1>1, <1>2, <1>3, <1>4, <1>5 DEF Download

LEMMA NextDown == ASSUME IndInv, IndInv', DownIndInv, [Next]_vars PROVE DownIndInv'
<1>0. TypeOK /\ TypeOK' /\ Ids /\ ByInv /\ \A h \in Handlers : DownInv(h)
  BY DEF IndInv, DownIndInv
<1>1. CASE UNCHANGED vars \/ UpdateCounters
  <2>1. Grows /\ \A g \in Handlers : Still(g)
    BY <1>0, <1>1 DEF Grows, Still, TypeOK, vars, UpdateCounters, config, fileVars, peerVars,
                      sessVars, taskVars
  <2>2. ByInv'
    BY <1>0, <1>1 DEF ByInv, vars, UpdateCounters, fileVars
  <2>3. ASSUME NEW g \in Handlers PROVE DownInv(g)'
    BY <1>0, <2>1, StillDown
  <2> QED BY <2>2, <2>3 DEF DownIndInv
<1>2. ASSUME NEW h \in Handlers,
             \/ Session(h) \/ Close(h) \/ Upload(h) \/ Download(h) \/ Client(h)
             \/ Put(h) \/ Get(h) \/ GiveUp(h) \/ Stray(h) \/ Vanish(h)
      PROVE  DownIndInv'
  <2>1. ByInv' /\ Grows
    BY <1>0, <1>2, ByKeeps
  <2>2. \A g \in Handlers \ {h} : Still(g)
    BY <1>0, <1>2, OthersStill
  <2>3. ASSUME NEW g \in Handlers, g # h PROVE DownInv(g)'
    BY <1>0, <2>1, <2>2, <2>3, StillDown
  <2>4. DownInv(h)
    BY <1>0
  <2>5. DownInv(h)'
    <3>1. CASE BeginDownload(h)
      BY <1>0, <2>4, <3>1, BeginDown
    <3>2. CASE (Session(h) \/ Close(h)) /\ ~BeginDownload(h)
      BY <1>0, <2>4, <3>2, SessionDown DEF Session
    <3>3. CASE Upload(h)
      BY <2>4, <3>3, UploadDown
    <3>4. CASE Download(h)
      BY <2>4, <3>4, DownloadDown
    <3>5. CASE Get(h)
      BY <2>4, <3>5, GetDown
    <3>6. CASE Client(h) \/ Put(h) \/ GiveUp(h) \/ Stray(h) \/ Vanish(h)
      BY <2>4, <3>6, ClientDown, ChunkTaken DEF Client
    <3> QED BY <1>2, <3>1, <3>2, <3>3, <3>4, <3>5, <3>6
  <2> QED BY <2>1, <2>3, <2>5 DEF DownIndInv
<1> QED BY <1>1, <1>2 DEF Next

THEOREM DownInvariance == Spec => []DownIndInv
BY InitDown, NextDown, Invariance, PTL DEF Spec

\* A download brings one version of the file, from its beginning and without a
\* gap, though others replace the file meanwhile: DownloadHandler reads one fd,
\* and the next download of the session begins when nothing of the last one is
\* on its way any more.
THEOREM DownloadIsSnapshotHolds == Spec => []DownloadIsSnapshot
<1>1. DownIndInv => DownloadIsSnapshot
  BY DEF DownIndInv, DownInv, SnapInv, DownloadIsSnapshot
<1> QED BY <1>1, DownInvariance, PTL

\* The window of a download in version 1 has room for ACKSlidingWindowRecv
\* chunks (windowBytes of DownloadHandler): their offsets are all different and
\* in the window that the last acknowledgement opened.
THEOREM WindowKeptHolds == Spec => []WindowKept
<1>1. ASSUME IndInv, DownIndInv PROVE WindowKept
  <2> SUFFICES ASSUME NEW h \in Handlers \ v2
               PROVE  Cardinality({j \in Chunks(h) : outbox[h][j].data # None})
                        <= ACKSlidingWindowRecv
    BY DEF WindowKept
  <2> DEFINE S == {j \in Chunks(h) : outbox[h][j].data # None}
  <2> DEFINE f == [j \in S |-> outbox[h][j].off]
  <2>1. OutInv(h) /\ TypeOK
    BY <1>1 DEF DownIndInv, DownInv, IndInv
  <2>2. PICK b \in Nat : \A j \in S : outbox[h][j].off \in b..(b + ACKSlidingWindowRecv - 1)
    BY <2>1 DEF OutInv
  <2> DEFINE T == b..(b + ACKSlidingWindowRecv - 1)
  <2>3. Chunks(h) \subseteq Nat
    BY <2>1, PlacesTyped
  <2>4. \A i, j \in Chunks(h) : outbox[h][i].off = outbox[h][j].off => i = j
    BY <2>1, <2>3 DEF OutInv
  <2>5. f \in Injection(S, T)
    BY <2>2, <2>4 DEF Injection, IsInjective
  <2>6. b \in Int /\ b + ACKSlidingWindowRecv - 1 \in Int /\ ACKSlidingWindowRecv \in Nat
    BY WindowAssumption
  <2>7. IsFiniteSet(T) /\ Cardinality(T) = ACKSlidingWindowRecv
    <3> HIDE DEF S, f
    <3>1. /\ IsFiniteSet(T)
          /\ Cardinality(T) = IF b > b + ACKSlidingWindowRecv - 1 THEN 0
                              ELSE b + ACKSlidingWindowRecv - 1 - b + 1
      BY <2>6, FS_Interval
    <3> QED BY <2>6, <3>1, WindowAssumption
  <2>8. Cardinality(S) <= Cardinality(T)
    <3> HIDE DEF S, T, f
    <3> QED BY <2>5, <2>7, FS_Injection
  <2> QED BY <2>7, <2>8
<1> QED BY <1>1, Invariance, DownInvariance, PTL
=============================================================================
