------------------------------ MODULE Log_proofs ------------------------------
(***************************************************************************)
(* Proofs about Log, for every size of the buffer and any number of        *)
(* messages and sessions, with a signal anywhere.                          *)
(*                                                                         *)
(* The positions of the ring go round, so nothing ties a position to the   *)
(* message in it but the distance from the top: the slot d behind the top  *)
(* holds the d-th latest message (Ring), and the first message not yet in  *)
(* the file is as far behind the top as there are messages pending         *)
(* (WrittenOK), in a session that began with none.  Inside log() and process() the globals are updated one by   *)
(* one, and pc says which of them are ahead of the others.                 *)
(***************************************************************************)
EXTENDS Log, FiniteSetTheorems, TLAPS

Storing == pc \in {"size", "position", "count"}

Succ(i)    == IF i + 1 = bufferSize THEN 0 ELSE i + 1
Back(i, d) == IF d <= i THEN i - d ELSE i - d + bufferSize

(* The messages that are in the buffer, and the slot after the latest. *)
Received == IF Storing THEN Append(logged, sent) ELSE logged
Top      == IF pc \in {"size", "position"} THEN Succ(v_pos) ELSE v_pos

Ring ==
  /\ Len(Received) < bufferSize => Top = Len(Received)
  /\ \A d \in 1 .. bufferSize : d <= Len(Received) =>
       v_buffer[Back(Top, d)] = Received[Len(Received) - d + 1]
  /\ v_size = AtMost(Len(IF pc = "size" THEN logged ELSE Received), bufferSize)

(* How far behind the top the next message to write is. *)
Distance == Len(Received) - Len(v_file) + (IF pc = "begin" THEN 1 ELSE 0)

WrittenOK ==
  /\ Len(v_file) <= Len(logged)
  /\ \A i \in 1 .. Len(v_file) : v_file[i] = logged[i]
  /\ v_processCount = Len(logged) - Len(v_file)
                        + (IF pc \in {"begin", "decrement"} THEN 1 ELSE 0)
  /\ v_processBegin = Back(Top, Distance)

(* How many messages are pending, in a session or outside of one. *)
Counts ==
  /\ pc = "idle" \/ Storing => v_processCount < bufferSize
  /\ pc \in {"write", "begin", "decrement"} => v_processCount > 0
  /\ pc = "close" => v_processCount = 0
  /\ Storing => sent \in Messages

(* A session that began with nothing pending, and goes on. *)
Watched == open /\ ~carried /\ pc # "exited"

IInv ==
  /\ TypeOK /\ Counts
  /\ pc # "exited" => Ring
  /\ Watched => WrittenOK

(***************************************************************************)
(* Going round the ring.                                                   *)
(***************************************************************************)
LEMMA ModRange ==
  ASSUME NEW n \in Nat \ {0}, NEW x \in Nat
  PROVE  x % n \in 0 .. n - 1
OBVIOUS

LEMMA RingFacts ==
  ASSUME NEW i \in Slots
  PROVE  /\ (i + 1) % bufferSize = Succ(i)
         /\ Succ(i) \in Slots
         /\ Back(i, 0) = i
         /\ \A d \in 0 .. bufferSize : Back(i, d) \in Slots
         /\ \A d \in 1 .. bufferSize : /\ Back(Succ(i), d) = Back(i, d - 1)
                                       /\ Succ(Back(i, d)) = Back(i, d - 1)
         /\ \A d \in 1 .. bufferSize - 1 : Back(i, d) # i
<1>1. bufferSize \in Nat \ {0} /\ i \in Nat /\ i < bufferSize
  BY SizeAssumption DEF Slots
<1>2. (i + 1) % bufferSize = Succ(i)
  <2>1. \A k \in Nat : k < bufferSize =>
          (k + 1) % bufferSize = IF k + 1 < bufferSize THEN k + 1 ELSE k + 1 - bufferSize
    BY SizeAssumption
  <2>2. QED
    BY <1>1, <2>1 DEF Succ
<1>3. Succ(i) \in Slots /\ Back(i, 0) = i
  BY <1>1 DEF Succ, Back, Slots
<1>4. \A d \in 0 .. bufferSize : Back(i, d) \in Slots
  BY <1>1 DEF Back, Slots
<1>5. \A d \in 1 .. bufferSize : Back(Succ(i), d) = Back(i, d - 1)
  BY <1>1 DEF Succ, Back
<1>6. \A d \in 1 .. bufferSize : Succ(Back(i, d)) = Back(i, d - 1)
  BY <1>1 DEF Succ, Back
<1>7. \A d \in 1 .. bufferSize - 1 : Back(i, d) # i
  BY <1>1 DEF Back
<1>8. QED
  BY <1>2, <1>3, <1>4, <1>5, <1>6, <1>7

LEMMA AtMostFacts ==
  ASSUME NEW a \in Nat
  PROVE  /\ AtMost(a, bufferSize) \in 0 .. bufferSize
         /\ AtMost(AtMost(a, bufferSize) + 1, bufferSize) = AtMost(a + 1, bufferSize)
         /\ a > 0 => AtMost(a, bufferSize) > 0
         /\ AtMost(a, bufferSize) = IF a < bufferSize THEN a ELSE bufferSize
BY SizeAssumption DEF AtMost

(* What Received is made of. *)
LEMMA ReceivedFacts ==
  ASSUME TypeOK, Counts
  PROVE  /\ Received \in Seq(Messages) /\ logged \in Seq(Messages)
         /\ Len(logged) \in Nat
         /\ Len(Received) = Len(logged) + (IF Storing THEN 1 ELSE 0)
         /\ \A i \in 1 .. Len(logged) : Received[i] = logged[i]
         /\ Storing => Received[Len(logged) + 1] = sent
BY DEF TypeOK, Counts, Received

(***************************************************************************)
(* The initial state, and init().                                          *)
(***************************************************************************)
LEMMA EmptyRing ==
  ASSUME pc = "idle", v_pos = 0, v_size = 0, v_processBegin = 0,
         v_processCount = 0, v_file = <<>>, logged = <<>>
  PROVE  Ring /\ WrittenOK
<1>1. Received = <<>> /\ Len(Received) = 0 /\ Top = 0 /\ ~Storing
  BY DEF Received, Top, Storing
<1>2. Ring
  BY <1>1, SizeAssumption DEF Ring, AtMost
<1>3. Distance = 0 /\ Len(logged) = 0 /\ Len(v_file) = 0
  BY <1>1 DEF Distance
<1>4. WrittenOK
  BY <1>1, <1>3, SizeAssumption DEF WrittenOK, Back
<1>5. QED
  BY <1>2, <1>4

THEOREM InitInv == Init => IInv
<1> SUFFICES ASSUME Init PROVE IInv
  OBVIOUS
<1>1. 0 \in Slots /\ 0 \in 0 .. bufferSize /\ 0 \in 0 .. MaxMessages /\ 0 \in 0 .. MaxSessions
  BY SizeAssumption, BoundAssumption DEF Slots
<1>2. v_file \in Seq(Entries) /\ logged \in Seq(Messages)
  BY DEF Init
<1>3. v_buffer \in [Slots -> Entries]
  BY DEF Init, Entries
<1>4. TypeOK
  BY <1>1, <1>2, <1>3 DEF Init, TypeOK
<1>5. Counts
  BY SizeAssumption DEF Init, Counts, Storing
<1>6. Ring
  BY EmptyRing DEF Init
<1>7. ~Watched
  BY DEF Init, Watched
<1>8. QED
  BY <1>4, <1>5, <1>6, <1>7 DEF IInv

(***************************************************************************)
(* The steps of init() and log().                                          *)
(***************************************************************************)
LEMMA InitLogStep == ASSUME IInv, InitLog PROVE IInv'
<1>1. /\ v_processCount' = v_processCount /\ v_processCount \in 0 .. bufferSize
      /\ v_processCount < bufferSize
  BY DEF IInv, TypeOK, Counts, InitLog
<1>2. /\ open' /\ pc' = "idle" /\ v_pos' = 0 /\ v_size' = 0
      /\ v_processBegin' = 0 /\ logged' = <<>> /\ carried' = (v_processCount > 0)
  BY DEF InitLog
<1>3. v_file' = <<>>
  BY DEF InitLog
<1>4. Len(logged') = 0 /\ Len(v_file') = 0 /\ logged' \in Seq(Messages) /\ v_file' \in Seq(Entries)
  BY <1>2, <1>3
<1>5. 0 \in Slots /\ 0 \in 0 .. bufferSize
  BY SizeAssumption DEF Slots
<1>6. sessions' \in 0 .. MaxSessions
  BY BoundAssumption DEF IInv, TypeOK, InitLog
<1>7. TypeOK'
  BY <1>1, <1>2, <1>4, <1>5, <1>6 DEF IInv, TypeOK, InitLog
<1>8. ~Storing' /\ Counts'
  BY <1>1, <1>2 DEF Counts, Storing
<1>9. Len(Received') = 0 /\ Top' = 0
  BY <1>2, <1>4 DEF Received, Storing, Top
<1>10. Ring'
  BY <1>2, <1>4, <1>9, SizeAssumption DEF Ring, AtMost
<1>11. Distance' = 0
  BY <1>2, <1>4, <1>9 DEF Distance
<1>12. v_processBegin' = Back(Top', Distance')
  BY <1>2, <1>9, <1>11, SizeAssumption DEF Back
<1>13. \A i \in 1 .. Len(v_file') : v_file'[i] = logged'[i]
  BY <1>4
<1>14. ASSUME Watched' PROVE WrittenOK'
  <2>1. v_processCount' = 0
    <3>1. ~carried'
      BY <1>14, Zenon DEF Watched
    <3>2. ~(v_processCount > 0)
      BY <1>2, <3>1, Zenon
    <3>3. QED
      BY <1>1, <3>2
  <2>2. ~(pc' \in {"begin", "decrement"})
    BY <1>2
  <2>3. /\ Len(v_file') <= Len(logged')
        /\ v_processCount' = Len(logged') - Len(v_file')
             + (IF pc' \in {"begin", "decrement"} THEN 1 ELSE 0)
    BY <1>4, <2>1, <2>2
  <2>4. QED
    BY <1>12, <1>13, <2>3 DEF WrittenOK
<1>15. QED
  BY <1>7, <1>8, <1>10, <1>14 DEF IInv

LEMMA LogStoreStep == ASSUME IInv, LogStore PROVE IInv'
<1> DEFINE L == Len(logged)
<1>1. TypeOK /\ Counts /\ Ring /\ pc = "idle" /\ ~Storing
  BY DEF IInv, LogStore, Storing
<1>2. /\ sent' = sent + 1 /\ sent' \in Messages /\ sent' \in 0 .. MaxMessages
      /\ sent' \in Entries
  BY <1>1, BoundAssumption DEF TypeOK, LogStore, Messages, Entries
<1>3. /\ v_buffer \in [Slots -> Entries] /\ v_pos \in Slots
      /\ v_buffer' = [v_buffer EXCEPT ![v_pos] = sent']
  BY <1>1, <1>2 DEF TypeOK, LogStore
<1>4. TypeOK'
  BY <1>1, <1>2, <1>3 DEF TypeOK, LogStore, counters
<1>5. Storing' /\ pc' = "size" /\ UNCHANGED <<counters, v_file, logged, open, carried>>
  BY <1>1 DEF LogStore, Storing
<1>6. Counts'
  BY <1>1, <1>2, <1>5 DEF Counts, counters
<1>7. logged \in Seq(Messages) /\ L \in Nat /\ Received = logged /\ Top = v_pos
  BY <1>1 DEF TypeOK, Received, Top
<1>8. Received' = Append(logged, sent') /\ Top' = Succ(v_pos)
  BY <1>5 DEF Received, Top, counters
<1>9. /\ Len(Received') = L + 1 /\ Received'[L + 1] = sent'
      /\ \A i \in 1 .. L : Received'[i] = logged[i]
  BY <1>2, <1>7, <1>8
<1>10. \A d \in 1 .. bufferSize : d <= L => v_buffer[Back(v_pos, d)] = logged[L - d + 1]
  BY <1>1, <1>7 DEF Ring
<1>11. ASSUME NEW d \in 1 .. bufferSize, d <= L + 1
       PROVE  v_buffer'[Back(Top', d)] = Received'[L + 1 - d + 1]
  <2>1. Back(Top', d) = Back(v_pos, d - 1)
    BY <1>3, <1>8, RingFacts
  <2>2. CASE d = 1
    <3>1. Back(v_pos, d - 1) = v_pos
      BY <1>3, <2>2, RingFacts
    <3>2. L + 1 - d + 1 = L + 1
      BY <1>7, <2>2
    <3>3. QED
      BY <1>3, <1>9, <2>1, <3>1, <3>2
  <2>3. CASE d # 1
    <3>1. d - 1 \in 1 .. bufferSize - 1 /\ d - 1 \in 1 .. bufferSize /\ d - 1 \in 0 .. bufferSize
          /\ d - 1 <= L /\ L + 1 - d + 1 = L - (d - 1) + 1 /\ L - (d - 1) + 1 \in 1 .. L
      BY <1>7, <1>11, <2>3, SizeAssumption
    <3>2. Back(v_pos, d - 1) # v_pos /\ Back(v_pos, d - 1) \in Slots
      BY <1>3, <3>1, RingFacts
    <3>3. v_buffer'[Back(v_pos, d - 1)] = v_buffer[Back(v_pos, d - 1)]
      BY <1>3, <3>2
    <3>4. v_buffer[Back(v_pos, d - 1)] = logged[L - (d - 1) + 1]
      BY <1>10, <3>1
    <3>5. QED
      BY <1>9, <2>1, <3>1, <3>3, <3>4
  <2>4. QED
    BY <2>2, <2>3
<1>12. L + 1 < bufferSize => Top' = L + 1
  BY <1>1, <1>7, <1>8, SizeAssumption DEF Ring, Succ
<1>13. v_size' = AtMost(Len(logged'), bufferSize)
  BY <1>1, <1>5, <1>7 DEF Ring, counters
<1>14. Ring'
  BY <1>5, <1>9, <1>11, <1>12, <1>13 DEF Ring
<1>15. ASSUME Watched' PROVE WrittenOK'
  <2>1. WrittenOK
    BY <1>1, <1>5, <1>15 DEF IInv, Watched
  <2>2. /\ v_processBegin = Back(v_pos, L - Len(v_file)) /\ Len(v_file) \in Nat
        /\ Len(v_file) <= L /\ v_processCount = L - Len(v_file) /\ v_processCount < bufferSize
    BY <1>1, <1>7, <2>1 DEF WrittenOK, Distance, TypeOK, Counts
  <2>3. L + 1 - Len(v_file) \in 1 .. bufferSize
        /\ L + 1 - Len(v_file) - 1 = L - Len(v_file)
    BY <1>7, <2>2, SizeAssumption
  <2>4. Distance' = L + 1 - Len(v_file)
    BY <1>5, <1>7, <1>9, <2>2 DEF Distance
  <2>5. Back(Top', Distance') = v_processBegin
    BY <1>3, <1>8, <2>2, <2>3, <2>4, RingFacts
  <2>6. QED
    BY <1>1, <1>5, <2>1, <2>2, <2>5 DEF WrittenOK, counters
<1>16. QED
  BY <1>4, <1>6, <1>14, <1>15 DEF IInv

(* What depends on neither the place in the program nor the counters. *)
LEMMA SameRing ==
  ASSUME Ring, Received' = Received, Top' = Top, v_buffer' = v_buffer,
         v_size' = AtMost(Len(IF pc' = "size" THEN logged' ELSE Received'), bufferSize)
  PROVE  Ring'
BY DEF Ring

LEMMA LogSizeStep == ASSUME IInv, LogSize PROVE IInv'
<1>1. TypeOK /\ Counts /\ Ring /\ pc = "size" /\ pc' = "position"
  BY DEF IInv, LogSize
<1>2. Storing /\ Storing' /\ Received' = Received /\ Top' = Top
  BY <1>1 DEF LogSize, Storing, Received, Top
<1>3. logged \in Seq(Messages) /\ Len(logged) \in Nat /\ Len(Received) = Len(logged) + 1
  BY <1>1, <1>2, ReceivedFacts
<1>4. v_size' = AtMost(Len(Received), bufferSize) /\ v_size' \in 0 .. bufferSize
  BY <1>1, <1>3, AtMostFacts DEF Ring, LogSize
<1>5. TypeOK'
  BY <1>1, <1>4 DEF TypeOK, LogSize
<1>6. Counts'
  BY <1>1, <1>2 DEF Counts, LogSize
<1>7. Ring'
  BY <1>1, <1>2, <1>4, SameRing DEF LogSize
<1>8. Watched' => WrittenOK'
  BY <1>1, <1>2 DEF IInv, Watched, WrittenOK, Distance, LogSize
<1>9. QED
  BY <1>5, <1>6, <1>7, <1>8 DEF IInv

LEMMA LogPositionStep == ASSUME IInv, LogPosition PROVE IInv'
<1>1. TypeOK /\ Counts /\ Ring /\ pc = "position" /\ pc' = "count"
  BY DEF IInv, LogPosition
<1>2. v_pos' = Succ(v_pos) /\ v_pos' \in Slots
  BY <1>1, RingFacts DEF TypeOK, LogPosition
<1>3. Storing /\ Storing' /\ Received' = Received /\ Top' = Top
  BY <1>1, <1>2 DEF LogPosition, Storing, Received, Top
<1>4. TypeOK'
  BY <1>1, <1>2 DEF TypeOK, LogPosition
<1>5. Counts'
  BY <1>1, <1>3 DEF Counts, LogPosition
<1>6. Ring'
  BY <1>1, <1>3, SameRing DEF LogPosition, Ring
<1>7. Watched' => WrittenOK'
  BY <1>1, <1>3 DEF IInv, Watched, WrittenOK, Distance, LogPosition
<1>8. QED
  BY <1>4, <1>5, <1>6, <1>7 DEF IInv

LEMMA LogCountStep == ASSUME IInv, LogCount PROVE IInv'
<1>1. TypeOK /\ Counts /\ Ring /\ pc = "count"
      /\ pc' \in {"loop", "idle"} /\ Storing /\ ~Storing'
  BY DEF IInv, LogCount, Storing
<1>2. /\ logged \in Seq(Messages) /\ Len(logged) \in Nat /\ sent \in Messages
      /\ logged' = Append(logged, sent) /\ logged' \in Seq(Messages)
      /\ Len(logged') = Len(logged) + 1
      /\ \A i \in 1 .. Len(logged) : logged'[i] = logged[i]
  BY <1>1 DEF TypeOK, Counts, LogCount
<1>3. Received' = Received /\ Top' = Top
  BY <1>1, <1>2 DEF Received, Top, LogCount
<1>4. /\ v_processCount' = v_processCount + 1 /\ v_processCount \in 0 .. bufferSize
      /\ v_processCount < bufferSize
      /\ pc' = IF v_processCount' >= bufferSize THEN "loop" ELSE "idle"
  BY <1>1 DEF LogCount, TypeOK, Counts
<1>5. v_processCount' \in 0 .. bufferSize
  BY <1>4, SizeAssumption
<1>6. TypeOK'
  BY <1>1, <1>2, <1>5 DEF TypeOK, LogCount
<1>7. Counts'
  BY <1>1, <1>4, <1>5, SizeAssumption DEF Counts
<1>8. Ring'
  BY <1>1, <1>3, SameRing DEF LogCount, Ring
<1>9. ASSUME Watched' PROVE WrittenOK'
  <2>1. WrittenOK
    BY <1>1, <1>9 DEF IInv, Watched, LogCount
  <2>2. Len(v_file) \in Nat /\ v_file' = v_file
    BY <1>1 DEF TypeOK, LogCount
  <2>3. v_processCount = Len(logged) - Len(v_file) + 0
    BY <1>1, <2>1 DEF WrittenOK
  <2>4. Len(v_file) <= Len(logged) /\ \A i \in 1 .. Len(v_file) : v_file[i] = logged[i]
    BY <2>1 DEF WrittenOK
  <2>5. Distance' = Distance /\ v_processBegin' = v_processBegin
    BY <1>1, <1>3, <2>2 DEF Distance, LogCount
  <2>6. v_processBegin' = Back(Top', Distance')
    BY <1>3, <2>1, <2>5 DEF WrittenOK
  <2>7. /\ v_processCount' = Len(logged') - Len(v_file')
        /\ Len(v_file') <= Len(logged')
        /\ \A i \in 1 .. Len(v_file') : v_file'[i] = logged'[i]
    BY <1>2, <1>4, <2>2, <2>3, <2>4
  <2>8. v_processCount' = Len(logged') - Len(v_file') + (IF pc' \in {"begin", "decrement"} THEN 1 ELSE 0)
    BY <1>1, <1>2, <2>2, <2>7
  <2>9. QED
    BY <2>6, <2>7, <2>8 DEF WrittenOK
<1>10. QED
  BY <1>6, <1>7, <1>8, <1>9 DEF IInv

(***************************************************************************)
(* The steps of process(), and shutdown().                                 *)
(***************************************************************************)
(* Outside log() what was received is what was logged. *)
LEMMA OutsideLog ==
  ASSUME TypeOK, ~Storing
  PROVE  /\ Received = logged /\ Top = v_pos /\ v_pos \in Slots
         /\ logged \in Seq(Messages) /\ Len(logged) \in Nat
         /\ v_file \in Seq(Entries) /\ Len(v_file) \in Nat
BY DEF TypeOK, Storing, Received, Top

LEMMA OutsideLogNext ==
  ASSUME ~Storing'
  PROVE  Received' = logged' /\ Top' = v_pos'
BY DEF Storing, Received, Top

(* A step of process() leaves the buffer as it is. *)
LEMMA RingUnchanged ==
  ASSUME TypeOK, ~Storing, ~Storing', Ring, UNCHANGED <<v_buffer, v_pos, v_size, logged>>
  PROVE  Ring'
<1>1. Received' = Received /\ Top' = Top
  BY OutsideLog, OutsideLogNext
<1>2. v_size' = AtMost(Len(Received'), bufferSize) /\ pc' # "size"
  BY <1>1 DEF Ring, Storing
<1>3. QED
  BY <1>1, <1>2, SameRing

LEMMA ProcessStep == ASSUME IInv, Process PROVE IInv'
<1>1. TypeOK /\ Counts /\ Ring /\ pc = "idle" /\ pc' = "loop"
      /\ ~Storing /\ ~Storing' /\ after' \in {"idle", "close"}
  BY DEF IInv, Process, Storing
<1>2. TypeOK'
  BY <1>1 DEF TypeOK, Process, counters
<1>3. Counts'
  BY <1>1 DEF Counts
<1>4. Ring'
  BY <1>1, RingUnchanged DEF Process, counters
<1>5. Distance' = Distance /\ Top' = Top
  BY <1>1, OutsideLog, OutsideLogNext DEF Distance, Process, counters
<1>6. Watched' => WrittenOK'
  BY <1>1, <1>5 DEF IInv, Watched, WrittenOK, Process, counters
<1>7. QED
  BY <1>2, <1>3, <1>4, <1>6 DEF IInv

LEMMA ProcessLoopStep == ASSUME IInv, ProcessLoop PROVE IInv'
<1>1. /\ TypeOK /\ Counts /\ Ring /\ pc = "loop"
      /\ pc' \in {"write", "idle", "close"} /\ after \in {"idle", "close"}
      /\ pc' = IF v_processCount > 0 THEN "write" ELSE after
  BY DEF IInv, ProcessLoop, TypeOK
<1>2. ~Storing /\ ~Storing'
  BY <1>1 DEF Storing
<1>3. UNCHANGED <<v_buffer, v_pos, v_processBegin, v_processCount, v_size, v_file, open, after,
                  sent, logged, carried, sessions>>
  BY DEF ProcessLoop, counters
<1>4. TypeOK'
  BY <1>1, <1>3 DEF TypeOK
<1>5. v_processCount \in Nat /\ (pc' # "write" => v_processCount' = 0)
      /\ (pc' = "write" => v_processCount' > 0)
  BY <1>1, <1>3 DEF TypeOK
<1>6. Counts'
  BY <1>1, <1>2, <1>5, SizeAssumption DEF Counts
<1>7. Ring'
  BY <1>1, <1>2, <1>3, RingUnchanged
<1>8. Distance' = Distance /\ Top' = Top
  BY <1>1, <1>2, <1>3, OutsideLog, OutsideLogNext DEF Distance
<1>9. Watched' => WrittenOK'
  BY <1>1, <1>3, <1>8 DEF IInv, Watched, WrittenOK
<1>10. QED
  BY <1>4, <1>6, <1>7, <1>9 DEF IInv

(* The next message to write is in its slot, and below v_size. *)
LEMMA NextToWrite ==
  ASSUME IInv, Watched, pc = "write"
  PROVE  /\ v_processBegin \in Slots /\ v_size > 0 /\ v_processBegin % v_size = v_processBegin
         /\ Len(v_file) + 1 <= Len(logged)
         /\ v_buffer[v_processBegin] = logged[Len(v_file) + 1]
<1>1. TypeOK /\ Counts /\ Ring /\ WrittenOK /\ ~Storing
  BY DEF IInv, Storing
<1>2. /\ Received = logged /\ Top = v_pos /\ v_pos \in Slots
      /\ Len(logged) \in Nat /\ Len(v_file) \in Nat
  BY <1>1, OutsideLog
<1> DEFINE L == Len(logged)
           D == L - Len(v_file)
<1>3. /\ Distance = D /\ v_processCount = D /\ D \in 1 .. bufferSize
      /\ Len(v_file) + 1 <= L /\ L - D + 1 = Len(v_file) + 1 /\ D <= L
  <2>1. v_processCount = D + 0 /\ v_processCount > 0 /\ Distance = D + 0
    BY <1>1, <1>2 DEF WrittenOK, Distance, Counts
  <2>2. v_processCount \in 0 .. bufferSize
    BY <1>1 DEF TypeOK
  <2>3. QED
    BY <1>2, <2>1, <2>2, SizeAssumption
<1>4. v_processBegin = Back(v_pos, D) /\ v_processBegin \in Slots
  BY <1>1, <1>2, <1>3 DEF WrittenOK, TypeOK
<1>5. v_buffer[v_processBegin] = logged[Len(v_file) + 1]
  <2>1. \A d \in 1 .. bufferSize : d <= L => v_buffer[Back(v_pos, d)] = logged[L - d + 1]
    BY <1>1, <1>2 DEF Ring
  <2>2. v_buffer[Back(v_pos, D)] = logged[L - D + 1]
    BY <1>3, <2>1
  <2>3. QED
    BY <1>3, <1>4, <2>2
<1>6. v_size = AtMost(L, bufferSize) /\ (L < bufferSize => v_pos = L)
  BY <1>1, <1>2 DEF Ring
<1>7. v_processBegin < v_size /\ v_size \in Nat \ {0} /\ v_processBegin \in Nat
  <2>1. v_pos \in Nat /\ v_pos < bufferSize /\ v_processBegin \in Nat /\ v_processBegin < bufferSize
    BY <1>2, <1>4, SizeAssumption DEF Slots
  <2>2. L \in Nat /\ D \in Nat /\ D >= 1 /\ D <= L
    BY <1>2, <1>3, SizeAssumption
  <2>3. CASE L < bufferSize
    BY <1>4, <1>6, <2>1, <2>2, <2>3 DEF AtMost, Back
  <2>4. CASE ~(L < bufferSize)
    BY <1>6, <2>1, <2>2, <2>4, SizeAssumption DEF AtMost
  <2>5. QED
    BY <2>3, <2>4
<1>8. v_processBegin % v_size = v_processBegin
  <2>1. \A n \in Nat \ {0} : \A x \in Nat : x < n => x % n = x
    OBVIOUS
  <2>2. QED
    BY <1>7, <2>1
<1>9. QED
  BY <1>3, <1>4, <1>5, <1>7, <1>8

LEMMA ProcessWriteStep == ASSUME IInv, ProcessWrite PROVE IInv'
<1>1. TypeOK /\ Counts /\ Ring /\ pc = "write" /\ pc' = "begin" /\ ~Storing /\ ~Storing'
      /\ v_size > 0
  BY DEF IInv, ProcessWrite, Storing
<1> DEFINE next == v_buffer[v_processBegin % v_size]
           k    == Len(v_file)
<1>2. v_file' = IF open THEN Append(v_file, next) ELSE v_file
  BY DEF ProcessWrite
<1>3. next \in Entries /\ v_file \in Seq(Entries) /\ k \in Nat /\ Len(logged) \in Nat
  <2>1. /\ v_size \in Nat \ {0} /\ v_size <= bufferSize /\ v_processBegin \in Nat
        /\ v_buffer \in [Slots -> Entries] /\ v_file \in Seq(Entries) /\ logged \in Seq(Messages)
    BY <1>1, SizeAssumption DEF TypeOK, Slots
  <2>2. v_processBegin % v_size \in 0 .. v_size - 1
    BY <2>1, ModRange
  <2>3. v_processBegin % v_size \in Slots
    BY <2>1, <2>2, SizeAssumption DEF Slots
  <2>4. QED
    BY <2>1, <2>3
<1> HIDE DEF next
<1>4. v_file' \in Seq(Entries)
        /\ (open => /\ Len(v_file') = k + 1 /\ v_file'[k + 1] = next
                    /\ \A i \in 1 .. k : v_file'[i] = v_file[i])
  BY <1>2, <1>3
<1>5. UNCHANGED <<v_buffer, v_pos, v_processBegin, v_processCount, v_size, open, after,
                  sent, logged, carried, sessions>>
  BY DEF ProcessWrite, counters
<1>6. TypeOK'
  BY <1>1, <1>4, <1>5 DEF TypeOK
<1>7. Counts'
  BY <1>1, <1>5 DEF Counts
<1>8. Ring'
  BY <1>1, <1>5, RingUnchanged
<1>9. ASSUME Watched' PROVE WrittenOK'
  <2>1. Watched /\ open /\ WrittenOK
    BY <1>1, <1>5, <1>9 DEF IInv, Watched
  <2>2. next = logged[k + 1] /\ k + 1 <= Len(logged)
    BY <1>1, <2>1, NextToWrite DEF next
  <2>3. Received = logged /\ Received' = logged /\ Top' = Top
    BY <1>1, <1>5, OutsideLog, OutsideLogNext
  <2>4. Distance' = Len(logged) - (k + 1) + 1 /\ Distance = Len(logged) - k + 0
    BY <1>1, <1>4, <2>1, <2>3 DEF Distance
  <2>5. Distance' = Distance
    BY <1>3, <2>4
  <2>6. v_processCount = Len(logged) - k + 0
        /\ \A i \in 1 .. k : v_file[i] = logged[i]
    BY <1>1, <2>1 DEF WrittenOK
  <2>7. v_processCount' = Len(logged') - Len(v_file') + 1
    BY <1>3, <1>4, <1>5, <2>1, <2>6
  <2>8. \A i \in 1 .. Len(v_file') : v_file'[i] = logged'[i]
    BY <1>3, <1>4, <1>5, <2>1, <2>2, <2>6
  <2>9. v_processBegin' = Back(Top', Distance')
    BY <1>5, <2>1, <2>3, <2>5 DEF WrittenOK
  <2>10. Len(v_file') <= Len(logged')
    BY <1>4, <1>5, <2>1, <2>2
  <2>11. QED
    BY <1>1, <2>7, <2>8, <2>9, <2>10 DEF WrittenOK
<1>10. QED
  BY <1>6, <1>7, <1>8, <1>9 DEF IInv

LEMMA ProcessBeginStep == ASSUME IInv, ProcessBegin PROVE IInv'
<1>1. TypeOK /\ Counts /\ Ring /\ pc = "begin" /\ pc' = "decrement" /\ ~Storing /\ ~Storing'
  BY DEF IInv, ProcessBegin, Storing
<1>2. UNCHANGED <<v_buffer, v_pos, v_processCount, v_size, v_file, open, after,
                  sent, logged, carried, sessions>>
  BY DEF ProcessBegin
<1>3. v_processBegin \in Slots /\ v_processBegin' = Succ(v_processBegin)
      /\ v_processBegin' \in Slots
  BY <1>1, RingFacts DEF TypeOK, ProcessBegin
<1>4. TypeOK'
  BY <1>1, <1>2, <1>3 DEF TypeOK
<1>5. Counts'
  BY <1>1, <1>2 DEF Counts
<1>6. Ring'
  BY <1>1, <1>2, RingUnchanged
<1>7. ASSUME Watched' PROVE WrittenOK'
  <2>1. WrittenOK
    BY <1>1, <1>2, <1>7 DEF IInv, Watched
  <2>2. /\ Received = logged /\ Received' = logged /\ Top = v_pos /\ Top' = v_pos
        /\ v_pos \in Slots /\ Len(logged) \in Nat /\ Len(v_file) \in Nat
    BY <1>1, <1>2, OutsideLog, OutsideLogNext
  <2> DEFINE D == Len(logged) - Len(v_file)
  <2>3. /\ Distance = D + 1 /\ Distance' = D /\ v_processCount = D + 1
        /\ D + 1 \in 1 .. bufferSize /\ D \in Int /\ (D + 1) - 1 = D
    <3>1. Distance = D + 1 /\ Distance' = D + 0 /\ v_processCount = D + 1 /\ v_processCount > 0
      BY <1>1, <1>2, <2>1, <2>2 DEF Distance, WrittenOK, Counts
    <3>2. v_processCount \in 0 .. bufferSize
      BY <1>1 DEF TypeOK
    <3>3. QED
      BY <2>2, <3>1, <3>2, SizeAssumption
  <2>4. v_processBegin = Back(v_pos, D + 1)
    BY <2>1, <2>2, <2>3 DEF WrittenOK
  <2> HIDE DEF D
  <2>5. v_processBegin' = Back(v_pos, D)
    <3>1. Succ(Back(v_pos, D + 1)) = Back(v_pos, (D + 1) - 1)
      BY <2>2, <2>3, RingFacts
    <3>2. QED
      BY <1>3, <2>3, <2>4, <3>1
  <2>6. QED
    BY <1>1, <1>2, <2>1, <2>2, <2>3, <2>5 DEF WrittenOK
<1>8. QED
  BY <1>4, <1>5, <1>6, <1>7 DEF IInv

LEMMA ProcessDecrementStep == ASSUME IInv, ProcessDecrement PROVE IInv'
<1>1. TypeOK /\ Counts /\ Ring /\ pc = "decrement" /\ pc' = "loop" /\ ~Storing /\ ~Storing'
  BY DEF IInv, ProcessDecrement, Storing
<1>2. UNCHANGED <<v_buffer, v_pos, v_processBegin, v_size, v_file, open, after,
                  sent, logged, carried, sessions>>
      /\ v_processCount' = v_processCount - 1
  BY DEF ProcessDecrement
<1>3. v_processCount \in 0 .. bufferSize /\ v_processCount > 0
  BY <1>1 DEF TypeOK, Counts
<1>4. v_processCount' \in 0 .. bufferSize
  BY <1>2, <1>3, SizeAssumption
<1>5. TypeOK'
  BY <1>1, <1>2, <1>4 DEF TypeOK
<1>6. Counts'
  BY <1>1 DEF Counts
<1>7. Ring'
  BY <1>1, <1>2, RingUnchanged
<1>8. /\ Received = logged /\ Received' = logged /\ Top' = Top
      /\ Len(logged) \in Nat /\ Len(v_file) \in Nat
  BY <1>1, <1>2, OutsideLog, OutsideLogNext
<1>9. Distance' = Distance
  BY <1>1, <1>2, <1>8 DEF Distance
<1>10. ASSUME Watched' PROVE WrittenOK'
  <2>1. WrittenOK
    BY <1>1, <1>2, <1>10 DEF IInv, Watched
  <2>2. v_processCount = Len(logged) - Len(v_file) + 1
    BY <1>1, <2>1 DEF WrittenOK
  <2>3. v_processCount' = Len(logged') - Len(v_file') + 0
    BY <1>2, <1>8, <2>2
  <2>4. QED
    BY <1>1, <1>2, <1>8, <1>9, <2>1, <2>3 DEF WrittenOK
<1>11. QED
  BY <1>5, <1>6, <1>7, <1>10 DEF IInv

LEMMA CloseFileStep == ASSUME IInv, CloseFile PROVE IInv'
<1>1. TypeOK /\ Counts /\ Ring /\ pc = "close" /\ pc' = "idle" /\ ~open' /\ v_processCount = 0
      /\ ~Storing /\ ~Storing'
  BY DEF IInv, CloseFile, Counts, Storing
<1>2. TypeOK'
  BY <1>1 DEF TypeOK, CloseFile, counters
<1>3. Counts'
  BY <1>1, SizeAssumption DEF Counts, CloseFile, counters
<1>4. Ring'
  BY <1>1, RingUnchanged DEF CloseFile, counters
<1>5. ~Watched'
  BY <1>1 DEF Watched
<1>6. QED
  BY <1>2, <1>3, <1>4, <1>5 DEF IInv

(***************************************************************************)
(* The signal handler.  What is left to show is that it writes inside the  *)
(* buffer: with the message it logs, the size it divides by is not zero.   *)
(***************************************************************************)
LEMMA SignalStep == ASSUME IInv, Signal PROVE IInv'
<1> DEFINE stored == [v_buffer EXCEPT ![v_pos] = SignalMessage]
           size   == AtMost(v_size + 1, bufferSize)
           lines  == [i \in 1 .. v_processCount + 1 |->
                        stored[((v_processBegin + i - 1) % bufferSize) % size]]
<1>1. TypeOK /\ open /\ pc' = "exited" /\ ~open' /\ UNCHANGED <<after, sent, logged, carried, sessions>>
  BY DEF IInv, Signal
<1>2. /\ v_buffer' = stored /\ v_size' = size
      /\ v_pos' = (v_pos + 1) % bufferSize
      /\ v_processBegin' = (v_processBegin + v_processCount + 1) % bufferSize
      /\ v_processCount' = 0
      /\ v_file' = v_file \o lines
  BY DEF Signal
<1>3. v_size \in 0 .. bufferSize /\ v_processCount \in Nat /\ v_processBegin \in Nat /\ v_pos \in Nat
  BY <1>1, SizeAssumption DEF TypeOK, Slots
<1>4. size \in Nat \ {0} /\ size <= bufferSize /\ size \in 0 .. bufferSize
  BY <1>3, SizeAssumption DEF AtMost
<1>5. stored \in [Slots -> Entries]
  BY <1>1 DEF TypeOK, Entries
<1> HIDE DEF stored, size
<1>6. \A x \in Nat : x % bufferSize \in Slots
  BY SizeAssumption, ModRange DEF Slots
<1>7. \A x \in Nat : (x % bufferSize) % size \in Slots
  <2> SUFFICES ASSUME NEW x \in Nat PROVE (x % bufferSize) % size \in Slots
    OBVIOUS
  <2>1. x % bufferSize \in Nat
    BY <1>6, SizeAssumption DEF Slots
  <2>2. (x % bufferSize) % size \in 0 .. size - 1
    BY <1>4, <2>1, ModRange
  <2>3. QED
    BY <1>4, <2>2, SizeAssumption DEF Slots
<1>8. \A i \in 1 .. v_processCount + 1 : v_processBegin + i - 1 \in Nat
  BY <1>3
<1>9. lines \in [1 .. v_processCount + 1 -> Entries]
  BY <1>5, <1>7, <1>8
<1>10. lines \in Seq(Entries)
  <2>1. v_processCount + 1 \in Nat
    BY <1>3
  <2>2. QED
    BY <1>9, <2>1
<1> HIDE DEF lines
<1>11. v_file' \in Seq(Entries)
  BY <1>1, <1>2, <1>10 DEF TypeOK
<1>12. v_pos' \in Slots /\ v_processBegin' \in Slots
  <2>1. v_pos + 1 \in Nat /\ v_processBegin + v_processCount + 1 \in Nat
    BY <1>3
  <2>2. QED
    BY <1>2, <1>6, <2>1
<1>13. v_processCount' \in 0 .. bufferSize
  BY <1>2, SizeAssumption
<1>14. TypeOK'
  <2>1. v_buffer' \in [Slots -> Entries] /\ v_size' \in 0 .. bufferSize
    BY <1>2, <1>4, <1>5
  <2>2. /\ after' \in {"idle", "close"} /\ sent' \in 0 .. MaxMessages /\ logged' \in Seq(Messages)
        /\ sessions' \in 0 .. MaxSessions /\ carried' \in BOOLEAN
    BY <1>1 DEF TypeOK
  <2>3. open' \in BOOLEAN
    BY DEF Signal
  <2>4. QED
    BY <1>1, <1>11, <1>12, <1>13, <2>1, <2>2, <2>3 DEF TypeOK
<1>15. Counts'
  BY <1>1 DEF Counts, Storing
<1>16. ~Watched'
  BY <1>1 DEF Watched
<1>17. QED
  BY <1>1, <1>14, <1>15, <1>16 DEF IInv

(***************************************************************************)
(* Every step, and the theorems.                                           *)
(***************************************************************************)
LEMMA StutterStep == ASSUME IInv, UNCHANGED vars PROVE IInv'
<1>1. UNCHANGED <<v_buffer, v_pos, v_processBegin, v_processCount, v_size, v_file, open, pc,
                  after, sent, logged, carried, sessions>>
  BY DEF vars, counters
<1>2. TypeOK' /\ Counts'
  <2>1. TypeOK' = TypeOK
    BY <1>1 DEF TypeOK
  <2>2. Counts' = Counts
    BY <1>1 DEF Counts, Storing
  <2>3. QED
    BY <2>1, <2>2 DEF IInv
<1>3. Ring' = Ring
  BY <1>1 DEF Ring, Received, Top, Storing
<1>4. WrittenOK' = WrittenOK
  BY <1>1 DEF WrittenOK, Distance, Received, Top, Storing
<1>5. QED
  BY <1>1, <1>2, <1>3, <1>4 DEF IInv, Watched

THEOREM NextInv == IInv /\ [Next]_vars => IInv'
<1> SUFFICES ASSUME IInv, [Next]_vars PROVE IInv'
  OBVIOUS
<1>1. CASE InitLog
  BY <1>1, InitLogStep
<1>2. CASE LogStore
  BY <1>2, LogStoreStep
<1>3. CASE LogSize
  BY <1>3, LogSizeStep
<1>4. CASE LogPosition
  BY <1>4, LogPositionStep
<1>5. CASE LogCount
  BY <1>5, LogCountStep
<1>6. CASE Process
  BY <1>6, ProcessStep
<1>7. CASE ProcessLoop
  BY <1>7, ProcessLoopStep
<1>8. CASE ProcessWrite
  BY <1>8, ProcessWriteStep
<1>9. CASE ProcessBegin
  BY <1>9, ProcessBeginStep
<1>10. CASE ProcessDecrement
  BY <1>10, ProcessDecrementStep
<1>11. CASE CloseFile
  BY <1>11, CloseFileStep
<1>12. CASE Signal
  BY <1>12, SignalStep
<1>13. CASE UNCHANGED vars
  BY <1>13, StutterStep
<1>14. QED
  BY <1>1, <1>2, <1>3, <1>4, <1>5, <1>6, <1>7, <1>8, <1>9, <1>10, <1>11, <1>12, <1>13 DEF Next

(* Every index into the buffer stays in it, whatever the size of the       *)
(* buffer, and a full buffer is processed before it overflows.             *)
THEOREM TypeCorrect == Spec => []TypeOK
<1>1. IInv => TypeOK
  BY DEF IInv
<1>2. QED
  BY InitInv, NextInv, <1>1, PTL DEF Spec

(***************************************************************************)
(* The two invariants of the idle logger.                                  *)
(***************************************************************************)
(* What an idle logger holds. *)
LEMMA IdleFacts ==
  ASSUME IInv, pc = "idle"
  PROVE  /\ Received = logged /\ Top = v_pos /\ v_pos \in Slots
         /\ logged \in Seq(Messages) /\ Len(logged) \in Nat
         /\ v_file \in Seq(Entries) /\ Len(v_file) \in Nat
         /\ v_size = AtMost(Len(logged), bufferSize)
         /\ Len(logged) < bufferSize => v_pos = Len(logged)
         /\ \A d \in 1 .. bufferSize : d <= Len(logged) =>
              v_buffer[Back(v_pos, d)] = logged[Len(logged) - d + 1]
<1>1. TypeOK /\ Ring /\ ~Storing
  BY DEF IInv, Storing
<1>2. /\ Received = logged /\ Top = v_pos /\ v_pos \in Slots
      /\ logged \in Seq(Messages) /\ Len(logged) \in Nat
      /\ v_file \in Seq(Entries) /\ Len(v_file) \in Nat
  BY <1>1, OutsideLog
<1>3. QED
  BY <1>1, <1>2 DEF Ring

LEMMA PendingFacts ==
  ASSUME IInv, Watched, pc = "idle"
  PROVE  /\ WrittenOK
         /\ v_processCount = Len(logged) - Len(v_file)
         /\ v_processCount \in 0 .. bufferSize - 1
         /\ v_processBegin = Back(v_pos, v_processCount)
<1>1. TypeOK /\ Counts /\ WrittenOK
  BY DEF IInv
<1>2. /\ v_processCount = Len(logged) - Len(v_file) + 0
      /\ Distance = Len(logged) - Len(v_file) + 0
      /\ v_processCount < bufferSize /\ Top = v_pos
      /\ Len(logged) \in Nat /\ Len(v_file) \in Nat
  BY <1>1, IdleFacts DEF WrittenOK, Distance, Counts
<1>3. v_processCount = Len(logged) - Len(v_file) /\ v_processCount = Distance
      /\ v_processCount \in 0 .. bufferSize - 1
  BY <1>1, <1>2, SizeAssumption DEF TypeOK
<1>4. v_processBegin = Back(v_pos, v_processCount)
  BY <1>1, <1>2, <1>3 DEF WrittenOK
<1>5. QED
  BY <1>1, <1>3, <1>4

(* The k-th latest message is found with one wrap around v_size, which     *)
(* is the number of slots in use.                                          *)
LEMMA SlotOf ==
  ASSUME NEW top \in Slots, NEW len \in Nat, len < bufferSize => top = len,
         NEW d \in 1 .. bufferSize, d <= len,
         NEW start \in Nat, start = top - d \/ start = top - d + AtMost(len, bufferSize)
  PROVE  start % AtMost(len, bufferSize) = Back(top, d)
<1> DEFINE size == AtMost(len, bufferSize)
<1>1. /\ size \in Nat \ {0} /\ bufferSize \in Nat /\ top \in Nat /\ top < bufferSize
      /\ d \in Nat /\ d <= size /\ d >= 1 /\ top <= size
      /\ size = bufferSize \/ (size = len /\ top = len)
  BY SizeAssumption DEF AtMost, Slots
<1> HIDE DEF size
<1>2. start \in Nat /\ (start = top - d \/ start = top - d + size)
  BY DEF size
<1>3. \A n \in Nat \ {0} : \A x \in Nat : x < n + n => x % n = IF x < n THEN x ELSE x - n
  OBVIOUS
<1>4. start < size + size
  BY <1>1, <1>2
<1>5. start % size = IF start < size THEN start ELSE start - size
  BY <1>1, <1>2, <1>3, <1>4
<1>6. start % size = Back(top, d)
  BY <1>1, <1>2, <1>5 DEF Back
<1>7. QED
  BY <1>6 DEF size

LEMMA IdleFile == IInv => FileAndPending
<1> SUFFICES ASSUME IInv, Watched, pc = "idle"
             PROVE  v_file \o [i \in 1 .. v_processCount |->
                       v_buffer[(v_processBegin + i - 1) % v_size]] = logged
  BY DEF FileAndPending, Watched
<1> DEFINE L    == Len(logged)
           k    == Len(v_file)
           n    == v_processCount
           rest == [i \in 1 .. n |-> v_buffer[(v_processBegin + i - 1) % v_size]]
<1>1. /\ v_pos \in Slots /\ logged \in Seq(Messages) /\ L \in Nat
      /\ v_file \in Seq(Entries) /\ k \in Nat
      /\ n = L - k /\ n \in 0 .. bufferSize - 1
      /\ v_processBegin = Back(v_pos, n)
      /\ v_size = AtMost(L, bufferSize)
      /\ L < bufferSize => v_pos = L
  BY IdleFacts, PendingFacts
<1>2. \A d \in 1 .. bufferSize : d <= L => v_buffer[Back(v_pos, d)] = logged[L - d + 1]
  BY IdleFacts
<1>3. \A i \in 1 .. k : v_file[i] = logged[i]
  BY PendingFacts DEF WrittenOK
<1>4. ASSUME NEW i \in 1 .. n
      PROVE  rest[i] = logged[k + i]
  <2> DEFINE d     == n - i + 1
             start == v_processBegin + i - 1
  <2>1. bufferSize \in Nat /\ v_pos \in Nat /\ v_pos < bufferSize /\ i \in Nat /\ n \in Nat
    BY <1>1, SizeAssumption DEF Slots
  <2>2. d \in 1 .. bufferSize /\ d <= L /\ L - d + 1 = k + i
    BY <1>1, <2>1
  <2>3. ASSUME n <= v_pos
        PROVE  start \in Nat /\ (start = v_pos - d \/ start = v_pos - d + AtMost(L, bufferSize))
    <3>1. v_processBegin = v_pos - n
      BY <1>1, <2>3 DEF Back
    <3>2. QED
      BY <2>1, <2>3, <3>1
  <2>4. ASSUME ~(n <= v_pos)
        PROVE  start \in Nat /\ (start = v_pos - d \/ start = v_pos - d + AtMost(L, bufferSize))
    <3>1. v_processBegin = v_pos - n + bufferSize
      BY <1>1, <2>4 DEF Back
    <3>2. AtMost(L, bufferSize) = bufferSize
      BY <1>1, <2>1, <2>4 DEF AtMost
    <3>3. start \in Nat /\ start = v_pos - d + bufferSize
      BY <1>1, <2>1, <2>4, <3>1
    <3>4. QED
      BY <3>2, <3>3
  <2>5. start \in Nat /\ (start = v_pos - d \/ start = v_pos - d + AtMost(L, bufferSize))
    BY <2>3, <2>4
  <2>6. start % v_size = Back(v_pos, d)
    <3> HIDE DEF d, start
    <3>1. QED
      BY <1>1, <2>2, <2>5, SlotOf
  <2>7. v_buffer[Back(v_pos, d)] = logged[L - d + 1]
    BY <1>2, <2>2
  <2>8. QED
    BY <2>2, <2>6, <2>7
<1>5. \A i \in 1 .. k : v_file[i] \in Messages
  BY <1>1, <1>3
<1>6. \A i \in 1 .. n : rest[i] \in Messages
  <2> SUFFICES ASSUME NEW i \in 1 .. n PROVE rest[i] \in Messages
    OBVIOUS
  <2>1. k + i \in 1 .. L
    BY <1>1
  <2>2. logged[k + i] \in Messages
    BY <1>1, <2>1
  <2>3. QED
    BY <1>4, <2>2
<1>7. rest \in [1 .. n -> Messages] /\ n \in Nat
  BY <1>1, <1>6, SizeAssumption
<1>8. rest \in Seq(Messages) /\ Len(rest) = n
  BY <1>7
<1> HIDE DEF rest
<1>9. v_file \in Seq(Messages)
  <2>1. v_file \in [1 .. k -> Messages]
    BY <1>1, <1>5
  <2>2. QED
    BY <1>1, <2>1
<1>10. /\ v_file \o rest \in Seq(Messages) /\ Len(v_file \o rest) = L
       /\ \A i \in 1 .. L : (v_file \o rest)[i] = IF i <= k THEN v_file[i] ELSE rest[i - k]
  BY <1>1, <1>8, <1>9
<1>11. \A i \in 1 .. L : (v_file \o rest)[i] = logged[i]
  <2> SUFFICES ASSUME NEW i \in 1 .. L PROVE (v_file \o rest)[i] = logged[i]
    OBVIOUS
  <2>1. CASE i <= k
    BY <1>3, <1>10, <2>1, <1>1
  <2>2. CASE ~(i <= k)
    <3>1. i - k \in 1 .. n /\ k + (i - k) = i
      BY <1>1, <2>2
    <3>2. rest[i - k] = logged[i]
      BY <1>4, <3>1
    <3>3. QED
      BY <1>10, <2>2, <3>2
  <2>3. QED
    BY <2>1, <2>2
<1>12. v_file \o rest = logged
  <2> DEFINE all == v_file \o rest
  <2>1. all \in Seq(Messages) /\ Len(all) = L /\ \A i \in 1 .. L : all[i] = logged[i]
    BY <1>10, <1>11
  <2> HIDE DEF all
  <2>2. all = logged
    BY <1>1, <2>1
  <2>3. QED
    BY <2>2 DEF all
<1>13. QED
  BY <1>12 DEF rest

LEMMA IdleBuffer == IInv => BufferShowsLatest
<1> SUFFICES ASSUME IInv, pc = "idle"
             PROVE  /\ v_size = AtMost(Len(logged), bufferSize)
                    /\ \A i \in 0 .. v_size - 1 :
                         getBuffer(i) = logged[Len(logged) - v_size + 1 + i]
  BY DEF BufferShowsLatest
<1> DEFINE L == Len(logged)
<1>1. /\ v_pos \in Slots /\ L \in Nat
      /\ v_size = AtMost(L, bufferSize)
      /\ L < bufferSize => v_pos = L
  BY IdleFacts
<1>2. \A d \in 1 .. bufferSize : d <= L => v_buffer[Back(v_pos, d)] = logged[L - d + 1]
  BY IdleFacts
<1>3. ASSUME NEW i \in 0 .. v_size - 1
      PROVE  getBuffer(i) = logged[L - v_size + 1 + i]
  <2> DEFINE d == v_size - i
  <2>1. bufferSize \in Nat /\ v_pos \in Nat /\ v_size \in 0 .. bufferSize /\ v_size <= L
    BY <1>1, SizeAssumption DEF Slots, AtMost
  <2>2. d \in 1 .. bufferSize /\ d <= L /\ L - d + 1 = L - v_size + 1 + i
        /\ v_pos + i \in Nat /\ v_pos + i = v_pos - d + v_size
    BY <1>1, <2>1
  <2>3. (v_pos + i) % v_size = Back(v_pos, d)
    <3> HIDE DEF d
    <3>1. QED
      BY <1>1, <2>2, SlotOf
  <2>4. v_buffer[Back(v_pos, d)] = logged[L - d + 1]
    BY <1>2, <2>2
  <2>5. QED
    BY <2>2, <2>3, <2>4 DEF getBuffer
<1>4. QED
  BY <1>1, <1>3

(* Between two calls of a session that began with nothing pending, the     *)
(* file and the pending part of the buffer are exactly what was logged, in *)
(* order, whatever was processed, wrapped      *)
(* around or reopened before.                                              *)
THEOREM FileCorrect == Spec => []FileAndPending
  BY InitInv, NextInv, IdleFile, PTL DEF Spec

(* Between two calls, getBuffer() shows the latest messages, oldest first. *)
THEOREM BufferCorrect == Spec => []BufferShowsLatest
  BY InitInv, NextInv, IdleBuffer, PTL DEF Spec

(***************************************************************************)
(* A signal in the middle of anything.                                     *)
(*                                                                         *)
(* The messages of a session are numbered upwards, so no two are the same  *)
(* and those not yet in the file are as many as there are pending.         *)
(***************************************************************************)
Increasing ==
  /\ \A i, j \in 1 .. Len(logged) : i < j => logged[i] < logged[j]
  /\ \A i \in 1 .. Len(logged) : /\ logged[i] <= sent
                                 /\ Storing => logged[i] < sent

LEMMA InitIncreasing == Init => Increasing
  BY DEF Init, Increasing

LEMMA NextIncreasing == IInv /\ Increasing /\ [Next]_vars => Increasing'
<1> SUFFICES ASSUME IInv, Increasing, [Next]_vars PROVE Increasing'
  OBVIOUS
<1>1. /\ logged \in Seq(Messages) /\ sent \in Nat
      /\ \A i \in 1 .. Len(logged) : logged[i] \in Nat
      /\ Storing => sent \in Messages
  BY BoundAssumption DEF IInv, TypeOK, Counts, Messages
<1>2. CASE InitLog
  <2>1. logged' = <<>>
    BY <1>2 DEF InitLog
  <2>2. Len(logged') = 0
    BY <2>1
  <2>3. QED
    BY <2>2 DEF Increasing
<1>3. CASE LogStore
  BY <1>1, <1>3 DEF LogStore, Increasing, Storing
<1>4. CASE LogCount
  <2>1. /\ Storing /\ ~Storing' /\ sent' = sent
        /\ logged' = Append(logged, sent) /\ sent \in Messages
    BY <1>1, <1>4 DEF LogCount, Storing
  <2>2. /\ Len(logged') = Len(logged) + 1
        /\ logged'[Len(logged) + 1] = sent
        /\ \A i \in 1 .. Len(logged) : logged'[i] = logged[i]
    BY <1>1, <2>1
  <2>3. QED
    BY <1>1, <2>1, <2>2 DEF Increasing
<1>5. CASE \/ LogSize \/ LogPosition
           \/ Process \/ ProcessLoop \/ ProcessWrite \/ ProcessBegin
           \/ ProcessDecrement \/ CloseFile \/ Signal \/ UNCHANGED vars
  <2>1. UNCHANGED <<sent, logged>> /\ (Storing' => Storing)
    BY <1>5 DEF IInv, TypeOK, LogSize, LogPosition, Process, ProcessLoop,
       ProcessWrite, ProcessBegin, ProcessDecrement, CloseFile, Signal,
       Storing, vars
  <2>2. QED
    BY <2>1 DEF Increasing
<1>6. QED
  BY <1>2, <1>3, <1>4, <1>5 DEF Next

(* The messages whose log() returned and that are not in the file: at      *)
(* least as many as the buffer still has to write.                         *)
LEMMA PendingCount ==
  ASSUME IInv, Increasing, WrittenOK
  PROVE  Len(logged) - Len(v_file) <= Cardinality(Completed \ Written)
<1> DEFINE L == Len(logged)
           F == Len(v_file)
           S == F + 1 .. L
           T == Completed \ Written
           f == [k \in S |-> logged[k]]
           g == [k \in 1 .. L |-> logged[k]]
<1>1. /\ L \in Nat /\ F \in Nat /\ F <= L
      /\ DOMAIN logged = 1 .. L /\ DOMAIN v_file = 1 .. F
      /\ \A i \in 1 .. F : v_file[i] = logged[i]
      /\ \A i \in 1 .. L : logged[i] \in Nat
  BY BoundAssumption DEF IInv, TypeOK, WrittenOK, Messages
<1>2. IsFiniteSet(1 .. L) /\ IsFiniteSet(S) /\ Cardinality(S) = L - F
  BY <1>1, FS_Interval
<1>3. IsFiniteSet(Completed)
  <2>1. g \in Surjection(1 .. L, Completed)
    BY <1>1 DEF Surjection, Completed
  <2>2. QED
    BY <1>2, <2>1, FS_Surjection
<1>4. IsFiniteSet(T)
  BY <1>3, FS_Subset
<1>5. \A i, j \in 1 .. L : logged[i] = logged[j] => i = j
  BY <1>1 DEF Increasing
<1>6. \A k \in S : logged[k] \in T
  BY <1>1, <1>5 DEF Completed, Written
<1>7. f \in Injection(S, T)
  BY <1>1, <1>5, <1>6 DEF Injection, IsInjective
<1>8. Cardinality(S) <= Cardinality(T)
  BY <1>4, <1>7, FS_Injection
<1>9. QED
  BY <1>2, <1>8

(* Stepping forward along the ring. *)
LEMMA RingForward ==
  ASSUME NEW top \in Slots, NEW D \in 0 .. bufferSize, NEW j \in Nat, j <= D
  PROVE  (Back(top, D) + j) % bufferSize = Back(top, D - j)
<1>1. /\ bufferSize \in Nat \ {0} /\ top \in Nat /\ top < bufferSize
      /\ D \in Nat /\ D <= bufferSize
  BY SizeAssumption DEF Slots
<1>2. \A n \in Nat \ {0} : \A x \in Nat :
         x < n + n => x % n = IF x < n THEN x ELSE x - n
  OBVIOUS
<1> DEFINE x == Back(top, D) + j
<1>3. x \in Nat /\ x < bufferSize + bufferSize
  BY <1>1 DEF Back
<1>4. x % bufferSize = IF x < bufferSize THEN x ELSE x - bufferSize
  BY <1>1, <1>2, <1>3
<1>5. (IF x < bufferSize THEN x ELSE x - bufferSize) = Back(top, D - j)
  BY <1>1 DEF Back
<1>6. QED
  BY <1>4, <1>5

(* The handler finds every message that is pending: its own goes to a slot *)
(* no pending message uses, and all of them are below the size it computes. *)
LEMMA SignalWrites ==
  ASSUME IInv, Signal, ~carried, Len(logged) - Len(v_file) + 1 < bufferSize,
         NEW k \in 1 .. Len(logged), k > Len(v_file)
  PROVE  \E i \in DOMAIN v_file' : v_file'[i] = logged[k]
<1> DEFINE L == Len(logged)
           F == Len(v_file)
           R == Len(Received)
           B == bufferSize
           stored == [v_buffer EXCEPT ![v_pos] = SignalMessage]
           size   == AtMost(v_size + 1, B)
           lines  == [i \in 1 .. v_processCount + 1 |->
                        stored[((v_processBegin + i - 1) % B) % size]]
           b == IF pc = "begin" THEN 1 ELSE 0
           c == IF pc \in {"begin", "decrement"} THEN 1 ELSE 0
           w == IF Storing THEN 1 ELSE 0
           d == R - k + 1
           i == k - F + b
           slot == Back(Top, d)
<1>1. /\ TypeOK /\ Counts /\ open /\ pc # "exited" /\ Ring /\ WrittenOK
      /\ v_file' = v_file \o lines
  BY DEF IInv, Watched, Signal
<1>2. /\ L \in Nat /\ F \in Nat /\ F <= L /\ B \in Nat \ {0}
      /\ R = L + w /\ k \in Nat /\ k <= L
      /\ Received[k] = logged[k]
      /\ v_file \in Seq(Entries)
      /\ v_pos \in Slots /\ v_buffer \in [Slots -> Entries]
  BY <1>1, ReceivedFacts, SizeAssumption DEF TypeOK, WrittenOK
<1>3. Top \in Slots /\ (Top = v_pos \/ (Storing /\ Top = Succ(v_pos)))
  BY <1>2, RingFacts DEF Top, Storing
<1>4. /\ v_processCount = L - F + c
      /\ v_processCount \in 0 .. B
      /\ Storing => v_processCount < B
      /\ Distance = R - F + b /\ v_processBegin = Back(Top, Distance)
  BY <1>1 DEF WrittenOK, Distance, TypeOK, Counts
<1>5. /\ b \in {0, 1} /\ c \in {0, 1} /\ b <= c
      /\ IF Storing THEN w = 1 /\ b = 0 /\ c = 0 ELSE w = 0
  BY DEF Storing
<1> HIDE DEF w, b, c
<1>6. Distance \in 0 .. B
  <2>1. CASE Storing
    BY <1>2, <1>4, <1>5, <2>1
  <2>2. CASE ~Storing
    BY <1>2, <1>4, <1>5, <2>2
  <2>3. QED
    BY <2>1, <2>2
<1>7. /\ d \in 1 .. B - 1 /\ d <= R /\ (Storing => d >= 2)
      /\ R - d + 1 = k /\ R \in Nat
      /\ i \in Nat /\ i >= 1 /\ i <= v_processCount + 1
      /\ i - 1 <= Distance /\ Distance - (i - 1) = d
  <2>1. w \in {0, 1} /\ R \in Nat /\ R = L + w
    BY <1>2, <1>5
  <2> HIDE DEF R
  <2>2. QED
    BY <1>2, <1>4, <1>5, <2>1
<1> HIDE DEF d, i
<1>8. v_buffer[slot] = logged[k] /\ slot \in Slots
  <2>1. d \in 1 .. B /\ d \in 0 .. B
    BY <1>7, SizeAssumption
  <2>2. v_buffer[slot] = Received[R - d + 1]
    BY <1>1, <1>7, <2>1 DEF Ring
  <2>3. slot \in Slots
    BY <1>3, <2>1, RingFacts
  <2>4. QED
    BY <1>2, <1>7, <2>2, <2>3
<1>9. slot # v_pos
  <2>1. CASE Top = v_pos
    BY <1>2, <1>7, <2>1, RingFacts
  <2>2. CASE Storing /\ Top = Succ(v_pos)
    <3>1. d \in 1 .. B /\ d - 1 \in 1 .. B - 1
      BY <1>7, <2>2, SizeAssumption
    <3>2. slot = Back(v_pos, d - 1)
      BY <1>2, <2>2, <3>1, RingFacts
    <3>3. QED
      BY <1>2, <3>1, <3>2, RingFacts
  <2>3. QED
    BY <1>3, <2>1, <2>2
<1>10. v_size \in Nat /\ v_size >= AtMost(L, B) /\ v_size <= B
  <2>1. v_size = AtMost(L, B) \/ v_size = AtMost(R, B)
    BY <1>1 DEF Ring
  <2>2. R >= L /\ R \in Nat
    BY <1>2, <1>5, <1>7
  <2> HIDE DEF R, L
  <2>3. QED
    BY <1>2, <2>1, <2>2 DEF AtMost
<1>11. slot < size /\ size \in Nat \ {0} /\ slot \in Nat
  <2>1. slot \in Nat /\ slot < B
    BY <1>2, <1>8 DEF Slots
  <2>2. CASE R < B
    <3>1. Top = R
      BY <1>1, <2>2 DEF Ring
    <3>2. slot = k - 1
      BY <1>2, <1>7, <3>1 DEF Back
    <3>3. QED
      BY <1>2, <1>10, <2>1, <3>2 DEF AtMost
  <2>3. CASE R >= B
    <3>1. L + 1 >= B
      <4>1. w \in {0, 1} /\ R = L + w /\ L \in Nat /\ B \in Nat
        BY <1>2, <1>5
      <4> HIDE DEF R, L
      <4>2. QED
        BY <2>3, <4>1
    <3>2. size = B
      BY <1>2, <1>10, <3>1 DEF AtMost
    <3>3. QED
      BY <1>2, <2>1, <3>2
  <2>4. QED
    BY <1>2, <2>2, <2>3
<1>12. (v_processBegin + i - 1) % B = slot
  <2>1. i - 1 \in Nat
    BY <1>7
  <2>2. (Back(Top, Distance) + (i - 1)) % B = Back(Top, Distance - (i - 1))
    <3>1. i - 1 <= Distance
      BY <1>7
    <3>2. \A D \in 0 .. B : \A j \in Nat : j <= D =>
            (Back(Top, D) + j) % B = Back(Top, D - j)
      BY <1>3, RingForward
    <3>3. QED
      BY <1>6, <2>1, <3>1, <3>2
  <2>3. Back(Top, Distance) \in Nat
    <3>1. Back(Top, Distance) \in Slots
      BY <1>3, <1>6, RingFacts
    <3>2. QED
      BY <3>1, SizeAssumption DEF Slots
  <2>4. v_processBegin + i - 1 = Back(Top, Distance) + (i - 1)
    BY <1>4, <1>7, <2>3
  <2>5. QED
    BY <1>7, <2>2, <2>4
<1>13. stored[slot] = logged[k]
  BY <1>2, <1>8, <1>9
<1> HIDE DEF stored, size, slot, i, d
<1>14. slot % size = slot
  BY <1>11
<1>15. lines[i] = logged[k] /\ i \in 1 .. v_processCount + 1
  BY <1>4, <1>7, <1>12, <1>13, <1>14
<1>16. v_processCount + 1 \in Nat /\ Len(lines) = v_processCount + 1
      /\ lines = [j \in 1 .. v_processCount + 1 |-> lines[j]]
  BY <1>4
<1> HIDE DEF lines
<1>17. F + i \in DOMAIN v_file' /\ v_file'[F + i] = lines[i]
  BY <1>1, <1>2, <1>4, <1>15, <1>16
<1>18. QED
  BY <1>15, <1>17

(* What was in the file stays in it. *)
LEMMA SignalAppends ==
  ASSUME IInv, Signal, NEW k \in 1 .. Len(v_file)
  PROVE  k \in DOMAIN v_file' /\ v_file'[k] = v_file[k]
<1> DEFINE n == v_processCount + 1
           line(i) == [v_buffer EXCEPT ![v_pos] = SignalMessage]
                        [((v_processBegin + i - 1) % bufferSize)
                           % AtMost(v_size + 1, bufferSize)]
           lines == [i \in 1 .. n |-> line(i)]
<1>1. n \in Nat /\ v_file \in Seq(Entries) /\ v_file' = v_file \o lines
  BY DEF IInv, TypeOK, Signal
<1> HIDE DEF n, line
<1>2. Len(lines) = n
  BY <1>1
<1> HIDE DEF lines
<1>3. QED
  BY <1>1, <1>2

LEMMA SignalKeeps ==
  ASSUME IInv, Increasing, Signal, ~carried,
         Cardinality(Completed \ Written) + 1 < bufferSize
  PROVE  Completed \subseteq Written'
<1>1. /\ WrittenOK /\ logged \in Seq(Messages) /\ v_file \in Seq(Entries)
      /\ IsFiniteSet(Completed \ Written)
      /\ DOMAIN v_file' = 1 .. Len(v_file')
  <2>1. WrittenOK /\ logged \in Seq(Messages) /\ v_file \in Seq(Entries)
    BY DEF IInv, TypeOK, Watched, Signal
  <2>2. v_file' \in Seq(Entries)
    <3>1. IInv'
      BY SignalStep
    <3>2. TypeOK'
      BY <3>1 DEF IInv
    <3>3. QED
      BY <3>2 DEF TypeOK
  <2>3. Completed \subseteq 1 .. MaxMessages
    <3>1. \A i \in DOMAIN logged : logged[i] \in Messages
      BY <2>1
    <3>2. QED
      BY <3>1 DEF Completed, Messages
  <2>4. IsFiniteSet(1 .. MaxMessages)
    BY FS_Interval, BoundAssumption
  <2>5. IsFiniteSet(Completed \ Written)
    BY <2>3, <2>4, FS_Subset
  <2>6. QED
    BY <2>1, <2>2, <2>5
<1>2. Len(logged) - Len(v_file) + 1 < bufferSize
  <2>1. Cardinality(Completed \ Written) \in Nat
    BY <1>1, FS_CardinalityType
  <2>2. Len(logged) \in Nat /\ Len(v_file) \in Nat
    BY <1>1
  <2>3. QED
    BY <1>1, <2>1, <2>2, PendingCount, SizeAssumption
<1>3. ASSUME NEW k \in 1 .. Len(logged)
      PROVE  logged[k] \in Written'
  <2>1. CASE k > Len(v_file)
    BY <1>2, <2>1, SignalWrites DEF Written
  <2>2. CASE k <= Len(v_file)
    <3>1. k \in 1 .. Len(v_file) /\ v_file[k] = logged[k]
      BY <1>1, <2>2 DEF WrittenOK
    <3>2. k \in DOMAIN v_file' /\ v_file'[k] = v_file[k]
      BY <1>1, <3>1, SignalAppends
    <3>3. QED
      BY <3>1, <3>2 DEF Written
  <2>3. QED
    BY <1>1, <2>1, <2>2
<1>4. QED
  BY <1>1, <1>3 DEF Completed

(* Only a signal ends the program. *)
LEMMA OnlySignalExits ==
  ASSUME IInv, [Next]_vars, pc # "exited", pc' = "exited"
  PROVE  Signal
  BY DEF IInv, TypeOK, Next, InitLog, LogStore, LogSize, LogPosition, LogCount,
     Process, ProcessLoop, ProcessWrite, ProcessBegin, ProcessDecrement,
     CloseFile, vars

(* Whatever the size of the buffer and wherever the signal strikes, between *)
(* any two updates of the counters, the file the handler leaves holds every *)
(* message whose log() had returned, if the buffer had room for its own    *)
(* and the session began with nothing pending.                             *)
THEOREM SignalLosesNothing == Spec => SignalKeepsCompleted
<1>1. IInv /\ Increasing /\ [Next]_vars =>
        [pc # "exited" /\ pc' = "exited" /\ ~carried
           /\ Cardinality(Completed \ Written) + 1 < bufferSize
         => Completed \subseteq Written']_vars
  BY SignalKeeps, OnlySignalExits
<1>2. QED
  BY <1>1, InitInv, InitIncreasing, NextInv, NextIncreasing, PTL
  DEF Spec, SignalKeepsCompleted
=============================================================================
