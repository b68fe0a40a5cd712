------------------------ MODULE FirmwareUpdateProofs ------------------------
(***************************************************************************)
(* What FirmwareUpdate keeps for every set of builds and of streams, every *)
(* size of an image and any number of connections.                         *)
(*                                                                         *)
(* The engine has no lock, so a task may use a hash, a session or a chunk  *)
(* that the other has begun anew meanwhile.  Why what is accepted is the   *)
(* signed image all the same:                                              *)
(*   Counted     the session holds at least the chunks that were counted;  *)
(*   Common      while it receives, one of the chunks written is also one  *)
(*               of the chunks hashed, except right after a beginning,     *)
(*               when at most one chunk in flight is of the time before.   *)
(* A complete image that shares a chunk with the package is the package.   *)
(* (Were an image one chunk long, the chunk of before could be all of it.) *)
(* A session has written nothing while there is still an image to boot: its *)
(* first write erases that.  So from the verification on, only an install  *)
(* the other task writes can put another image in its place (Ending,       *)
(* Selected, Chosen), and that is what overtaken records.  A trial is safe *)
(* because nothing is in progress in PENDING_VERIFY (AtRest), and the only *)
(* call that is accepted then sets FAILED (Trial).                         *)
(***************************************************************************)
EXTENDS FirmwareUpdate, SequenceTheorems, WellFoundedInduction, TLAPS

AnyTransfer == CHOOSE x \in Transfers : TRUE
Busy        == {"open", "hash", "flash", "finish", "end", "announce"}
Early       == {"idle", "clear", "verify"}
Ended       == {"finish", "end", "announce"}

EngineTyped ==
  /\ updateState \in {"IDLE", "RECEIVING", "FINALIZING", "PENDING_REBOOT",
                      "PENDING_VERIFY", "VALID", "FAILED", "ROLLBACK"}
  /\ received \in 0..Size /\ (hash = NoHash \/ hash \in Seq(Chunks))
  /\ package \in newer \cup {0} /\ age \in 0..3

ConnsTyped ==
  /\ pc \in [Tasks -> Early \cup Busy]
  /\ who \in [Tasks -> Transfers \cup {AnyTransfer}]
  /\ todo \in [Transfers -> Seq(Chunks) \cup {Closed}]

FlagsTyped ==
  /\ sessionOpen \in BOOLEAN /\ available \in BOOLEAN /\ writing \in BOOLEAN
  /\ selected \in BOOLEAN /\ fallback \in BOOLEAN
  /\ derailed \in BOOLEAN /\ overtaken \in BOOLEAN

FlashTyped ==
  /\ running \in Builds /\ runState \in {"VALID", "PENDING"}
  /\ other \in Seq(Chunks) /\ Len(other) <= Size

\* A task in the install works for a transfer of its own, which is still open;
\* nothing is left to deliver only once the last chunk is written.
Owned == \A t \in Tasks : pc[t] \in Busy =>
           /\ who[t] \in Transfers /\ TaskOf(who[t]) = t /\ todo[who[t]] # Closed
Loaded == \A x \in Transfers : todo[x] = <<>> =>
            pc[TaskOf(x)] \in Ended /\ who[TaskOf(x)] = x

\* A partition that may be booted holds a complete image.
Whole == selected \/ fallback => other \in Images

\* In PENDING_VERIFY the running image is on trial and nothing is going on.
AtRest ==
  updateState = "PENDING_VERIFY" =>
    /\ runState = "PENDING" /\ package = 0 /\ ~sessionOpen /\ ~writing /\ ~selected
    /\ \A t \in Tasks : pc[t] = "idle"
    /\ \A x \in Transfers : todo[x] = Closed

Trial == runState = "PENDING" /\ ~derailed => updateState = "PENDING_VERIFY" /\ fallback

Receiving == updateState = "RECEIVING"
Flying(t) == IF pc[t] = "flash" THEN 1 ELSE 0

\* Only a chunk on its way to the flash is hashed and not counted.
HashBound ==
  /\ hash = NoHash \/ Len(hash) <= received + Flying("http") + Flying("ota")
  /\ Receiving => hash # NoHash
Room == (\A t \in Tasks : pc[t] = "flash") => received < Size

\* What is counted is in the session, or belongs to one that was closed.
Counted ==
  /\ writing /\ (Receiving \/ \E t \in Tasks : pc[t] = "flash") => received <= Len(session)
  /\ \A t, u \in Tasks :
       t # u /\ pc[t] = "open" /\ received # 0 /\ (Receiving \/ pc[u] = "flash") =>
          writing /\ pc[u] # "end"

\* The chunk a task has in flight is one the hash was fed since the beginning.
Hashed(c) == \E i \in 1..Len(hash) : hash[i] = c
Fresh(t)  == pc[t] = "flash" => Hashed(Head(todo[who[t]]))
Shares    == \E j \in 1..Len(session) : Hashed(session[j])

Common ==
  Receiving /\ writing =>
    \/ Shares
    \/ received = 0 /\ (Fresh("http") \/ Fresh("ota"))
    \/ received = 1 /\ Fresh("http") /\ Fresh("ota")

NewImages == {Image(b) : b \in newer}

\* What a task that has verified an install will find in a session written to.
Ending == \A t \in Tasks :
            ~overtaken /\ pc[t] = "end" /\ writing /\ session # <<>> =>
            Len(other) = Size /\ (other \in Images => other \in NewImages)

\* It stays selected for boot until the restart, and is the package.
Selected ==
  ~overtaken /\ (updateState = "PENDING_REBOOT" \/ \E t \in Tasks : pc[t] = "announce") =>
     selected
Chosen == selected /\ ~overtaken => other \in NewImages

IInv ==
  /\ EngineTyped /\ ConnsTyped /\ FlagsTyped /\ FlashTyped
  /\ Owned /\ Loaded /\ Whole /\ AtRest /\ Trial
  /\ HashBound /\ Room /\ Counted /\ Common /\ Ending /\ Selected /\ Chosen

-----------------------------------------------------------------------------
(* The data *)

\* A set of naturals that is not empty has a least element.
LEMMA Least ==
  ASSUME NEW S, S \subseteq Nat, S # {}
  PROVE  \E i \in S : \A j \in S : i <= j
<1>1. PICK i \in S : \A j \in S : <<j, i>> \notin OpToRel(<, Nat)
  BY NatLessThanWellFounded, WFMin, Zenon
<1>2. \A j \in S : ~(j < i)
  BY <1>1, Zenon DEF OpToRel
<1> QED BY <1>2

LEMMA Constants ==
  /\ Size \in Nat /\ Size > 1
  /\ Builds \subseteq Nat /\ Signed \subseteq Builds
  /\ \A b \in Builds : b > 0
BY UpdateAssumption

\* NoHash and Closed are no sequences of chunks, and the empty one is.
LEMMA Marks ==
  /\ NoHash \notin Seq(Chunks) /\ Closed \notin Seq(Chunks)
  /\ Len(NoHash) = 1 /\ <<>> \in Seq(Chunks) /\ NoHash # <<>> /\ Closed # <<>>
<1>1. <<0, 0>> \notin Chunks
  BY DEF Chunks
<1>2. \A s \in Seq(Chunks) : \A i \in 1..Len(s) : s[i] \in Chunks
  OBVIOUS
<1>3. Len(NoHash) = 1 /\ NoHash[1] = <<0, 0>> /\ Len(Closed) = 1 /\ Closed[1] = <<0, 0>>
  BY DEF NoHash, Closed
<1>4. 1 \in 1..Len(NoHash) /\ 1 \in 1..Len(Closed)
  BY <1>3
<1>5. NoHash \notin Seq(Chunks) /\ Closed \notin Seq(Chunks)
  BY <1>1, <1>2, <1>3, <1>4
<1>6. <<>> \in Seq(Chunks)
  OBVIOUS
<1> QED BY <1>3, <1>5, <1>6

LEMMA HeadTail ==
  ASSUME NEW s \in Seq(Chunks), s # <<>>
  PROVE  /\ Head(s) \in Chunks /\ Tail(s) \in Seq(Chunks)
         /\ Tail(s) = <<>> <=> Len(s) = 1
<1>1. Head(s) \in Chunks /\ Tail(s) \in Seq(Chunks) /\ Len(Tail(s)) = Len(s) - 1
  BY HeadTailProperties
<1>2. Tail(s) = <<>> <=> Len(Tail(s)) = 0
  BY <1>1, EmptySeq
<1> QED BY <1>1, <1>2, LenProperties

LEMMA TailOrClosed ==
  ASSUME NEW s \in Seq(Chunks)
  PROVE  /\ Len(s) > 1 => Tail(s) \in Seq(Chunks) /\ Tail(s) # <<>>
         /\ Closed # <<>>
<1>1. CASE s = <<>>
  BY <1>1, Marks
<1>2. CASE s # <<>>
  <2>1. Len(s) > 1 => Len(s) # 1
    BY LenProperties
  <2> QED BY <1>2, <2>1, HeadTail, Marks
<1> QED BY <1>1, <1>2

LEMMA TaskOfType == \A x : TaskOf(x) \in Tasks
BY DEF TaskOf, Tasks

\* An image is a sequence of Size chunks that name its build.
LEMMA ImageOfBuild ==
  ASSUME NEW b \in Builds
  PROVE  Image(b) \in Seq(Chunks) /\ Len(Image(b)) = Size /\ Image(b)[1][1] = b
<1>1. \A i \in 1..Size : <<b, i>> \in Chunks
  BY DEF Chunks
<1> QED BY <1>1, Constants DEF Image

LEMMA ImagesAre ==
  ASSUME NEW i \in Images
  PROVE  i \in Seq(Chunks) /\ Len(i) = Size /\ i[1][1] \in Builds /\ i = Image(i[1][1])
BY ImageOfBuild DEF Images

\* The hash of a package that is not there is of nothing that was streamed.
LEMMA NoPackage == Image(0) \notin Seq(Chunks) /\ Image(0) # NoHash
<1>1. Len(Image(0)) = Size /\ Image(0)[1] = <<0, 1>>
  BY Constants DEF Image
<1>2. <<0, 1>> \notin Chunks
  BY Constants DEF Chunks
<1>3. \A s \in Seq(Chunks) : Len(s) > 0 => s[1] \in Chunks
  OBVIOUS
<1>4. Len(Image(0)) > 0 /\ Len(Image(0)) # 1
  <2>1. Size > 0 /\ Size # 1
    BY Constants
  <2> QED BY <1>1, <2>1
<1>5. Image(0) # NoHash
  BY <1>4, Marks
<1> QED BY <1>1, <1>2, <1>3, <1>4, <1>5

\* Two images with a chunk in common are one.
LEMMA CommonChunk ==
  ASSUME NEW b \in Builds, NEW c \in Builds,
         NEW i \in 1..Size, NEW j \in 1..Size, Image(b)[i] = Image(c)[j]
  PROVE  b = c
BY ImageOfBuild DEF Image

-----------------------------------------------------------------------------
(* The invariant *)

LEMMA InitIInv == Init => IInv
<1> SUFFICES ASSUME Init PROVE IInv
  OBVIOUS
<1> USE Constants DEF Init, Booted
<1>1. \E b \in Builds : \A c \in Builds : b <= c
  BY Least, UpdateAssumption
<1>2. running \in Builds
  BY <1>1
<1>3. \A t \in Tasks : pc[t] = "idle"
  OBVIOUS
<1>4. \A x \in Transfers : todo[x] = Closed
  OBVIOUS
<1>5. EngineTyped
  BY DEF EngineTyped
<1>6. ConnsTyped
  BY DEF ConnsTyped, AnyTransfer, Early
<1>7. FlagsTyped
  BY DEF FlagsTyped
<1>8. FlashTyped
  BY <1>2, Marks DEF FlashTyped
<1>9. Owned
  BY <1>3 DEF Owned, Busy
<1>10. Loaded
  BY <1>4, Marks DEF Loaded
<1>11. Whole /\ AtRest /\ Trial
  BY DEF Whole, AtRest, Trial
<1>12. HashBound /\ Room
  BY DEF HashBound, Room, Receiving, Tasks
<1>13. Counted
  BY DEF Counted
<1>14. Common
  BY DEF Common
<1>15. Ending /\ Selected /\ Chosen
  BY <1>3 DEF Ending, Selected, Chosen
<1> QED BY <1>5, <1>6, <1>7, <1>8, <1>9, <1>10, <1>11, <1>12, <1>13, <1>14, <1>15 DEF IInv

\* The transfer of a task in the install has chunks left up to the last write.
LEMMA Working ==
  ASSUME IInv, NEW t \in Tasks, pc[t] \in {"open", "hash", "flash"}
  PROVE  /\ who[t] \in Transfers /\ TaskOf(who[t]) = t
         /\ todo[who[t]] \in Seq(Chunks) /\ todo[who[t]] # <<>>
         /\ Head(todo[who[t]]) \in Chunks /\ Tail(todo[who[t]]) \in Seq(Chunks)
         /\ Tail(todo[who[t]]) = <<>> <=> Len(todo[who[t]]) = 1
<1>1. who[t] \in Transfers /\ TaskOf(who[t]) = t /\ todo[who[t]] # Closed
  BY DEF IInv, Owned, Busy
<1>2. todo[who[t]] \in Seq(Chunks)
  BY <1>1 DEF IInv, ConnsTyped
<1>3. todo[who[t]] # <<>>
  BY <1>1 DEF IInv, Loaded, Ended
<1> QED BY <1>1, <1>2, <1>3, HeadTail

\* Two tasks never work for one transfer.
LEMMA Apart ==
  ASSUME IInv, NEW t \in Tasks, NEW u \in Tasks, t # u, pc[t] \in Busy, pc[u] \in Busy
  PROVE  who[t] # who[u] /\ who[t] \in Transfers /\ who[u] \in Transfers
BY DEF IInv, Owned

\* Steps of preparePackage(): they touch the package only.
LEMMA Prepared ==
  ASSUME IInv, NEW t \in Tasks, NEW l \in Early, pc[t] \in Early,
         Goto(t, l), package' \in newer \cup {0}, available' \in BOOLEAN,
         updateState = "PENDING_VERIFY" => l = "idle" /\ package' = 0,
         UNCHANGED <<updateState, received, sessionOpen, hash, age, who, todo, flash, past>>
  PROVE  IInv'
<1> USE DEF IInv, Goto, Early, flash, past
<1>s. session' = session
  BY DEF session, bootable
<1>a. pc'[t] = l /\ \A u \in Tasks : u # t => pc'[u] = pc[u]
  BY DEF ConnsTyped
<1>1. EngineTyped'
  BY DEF EngineTyped, newer
<1>2. ConnsTyped'
  BY DEF ConnsTyped, Early, Busy, Tasks
<1>3. FlagsTyped'
  BY DEF FlagsTyped
<1>4. FlashTyped'
  BY DEF FlashTyped
<1>5. Owned'
  BY <1>a DEF Owned, Busy
<1>6. Loaded'
  BY <1>a DEF Loaded, Ended
<1>7. Whole'
  BY DEF Whole
<1>8. AtRest'
  BY <1>a DEF AtRest
<1>9. Trial'
  BY DEF Trial
<1>10. HashBound'
  BY <1>a DEF HashBound, Flying, Receiving, Tasks
<1>11. Room'
  BY <1>a DEF Room
<1>12. Counted'
  BY <1>s, <1>a DEF Counted, Receiving
<1>13. Common'
  BY <1>s, <1>a DEF Common, Receiving, Fresh, Shares, Hashed, Tasks
<1>14. Ending'
  BY <1>s, <1>a DEF Ending, NewImages, newer
<1>15. Selected'
  BY <1>a DEF Selected
<1>16. Chosen'
  BY DEF Chosen, NewImages, newer
<1> QED BY <1>1, <1>2, <1>3, <1>4, <1>5, <1>6, <1>7, <1>8, <1>9, <1>10, <1>11,
           <1>12, <1>13, <1>14, <1>15, <1>16 DEF IInv

\* The engine refuses a call and fails: its session is closed, its hash dropped.
LEMMA Failed ==
  ASSUME IInv, NEW t \in Tasks, pc[t] \in Busy, failUpdate, Return(t),
         UNCHANGED <<received, package, noFlash, past>>
  PROVE  IInv'
<1> USE DEF IInv, failUpdate, SetState, noFlash, past
<1>s. session' = session
  BY DEF session, bootable
<1>a. pc'[t] = "idle" /\ \A u \in Tasks : u # t => pc'[u] = pc[u]
  BY DEF ConnsTyped, Return, Goto
<1>b. /\ who[t] \in Transfers /\ TaskOf(who[t]) = t
      /\ todo[who[t]] \in Seq(Chunks) /\ who' = who
  BY DEF Owned, ConnsTyped, Return
<1>c. /\ todo' \in [Transfers -> Seq(Chunks) \cup {Closed}] /\ todo'[who[t]] # <<>>
      /\ \A x \in Transfers : x # who[t] => todo'[x] = todo[x]
  BY <1>b, TailOrClosed DEF Return, ConnsTyped
<1>d. \A u \in Tasks : u # t /\ pc[u] \in Busy => todo'[who[u]] = todo[who[u]]
  BY <1>b, <1>c DEF Owned
<1>1. EngineTyped'
  BY DEF EngineTyped, newer
<1>2. ConnsTyped'
  BY <1>a, <1>b, <1>c DEF ConnsTyped, Return, Goto, Early
<1>3. FlagsTyped'
  BY DEF FlagsTyped, Return
<1>4. FlashTyped'
  BY DEF FlashTyped
<1>5. Owned'
  BY <1>a, <1>b, <1>d DEF Owned, Busy
<1>6. Loaded'
  BY <1>a, <1>b, <1>c, TaskOfType DEF Loaded
<1>7. Whole'
  BY DEF Whole
<1>8. AtRest'
  BY DEF AtRest
<1>9. Trial'
  BY DEF Trial, AtRest, Busy
<1>10. HashBound'
  BY <1>a DEF HashBound, Flying, Receiving, Tasks
<1>11. Room'
  BY <1>a DEF Room
<1>12. Counted'
  BY <1>s, <1>a DEF Counted, Receiving, Tasks
<1>13. Common'
  BY <1>s DEF Common, Receiving
<1>14. Ending'
  BY <1>s, <1>a DEF Ending, NewImages, newer
<1>15. Selected'
  BY <1>a DEF Selected
<1>16. Chosen'
  BY DEF Chosen, NewImages, newer
<1> QED BY <1>1, <1>2, <1>3, <1>4, <1>5, <1>6, <1>7, <1>8, <1>9, <1>10, <1>11,
           <1>12, <1>13, <1>14, <1>15, <1>16 DEF IInv

\* A first write fails after it has erased what was there.
LEMMA Erased ==
  ASSUME IInv, NEW t \in Tasks, pc[t] = "flash", failUpdate, Return(t),
         UNCHANGED <<received, package>>, writing, bootable, Write(<<>>)
  PROVE  IInv'
<1> USE DEF IInv, failUpdate, SetState
<1>0. /\ session = <<>> /\ session' = <<>> /\ Len(session') = 0 /\ Len(session) = 0
      /\ other' = <<>> /\ selected' = FALSE /\ fallback' = FALSE
      /\ overtaken' \in BOOLEAN /\ UNCHANGED <<running, runState, derailed>>
  BY DEF session, Write
<1>h. ~overtaken' => \A u \in Tasks : pc[u] # "announce"
  BY <1>0 DEF Write
<1>r. pc[t] \in Busy /\ received = 0
  BY <1>0 DEF Busy, Counted, EngineTyped
<1>a. pc'[t] = "idle" /\ \A u \in Tasks : u # t => pc'[u] = pc[u]
  BY DEF ConnsTyped, Return, Goto
<1>b. /\ who[t] \in Transfers /\ TaskOf(who[t]) = t
      /\ todo[who[t]] \in Seq(Chunks) /\ who' = who
  BY <1>r DEF Owned, ConnsTyped, Return
<1>c. /\ todo' \in [Transfers -> Seq(Chunks) \cup {Closed}] /\ todo'[who[t]] # <<>>
      /\ \A x \in Transfers : x # who[t] => todo'[x] = todo[x]
  BY <1>b, TailOrClosed DEF Return, ConnsTyped
<1>d. \A u \in Tasks : u # t /\ pc[u] \in Busy => todo'[who[u]] = todo[who[u]]
  BY <1>b, <1>c DEF Owned
<1>1. EngineTyped'
  BY <1>0 DEF EngineTyped, newer
<1>2. ConnsTyped'
  BY <1>a, <1>b, <1>c DEF ConnsTyped, Return, Goto, Early
<1>3. FlagsTyped'
  BY <1>0 DEF FlagsTyped, Return
<1>4. FlashTyped'
  BY <1>0, Marks, Constants DEF FlashTyped
<1>5. Owned'
  BY <1>a, <1>b, <1>d DEF Owned, Busy
<1>6. Loaded'
  BY <1>a, <1>b, <1>c, TaskOfType DEF Loaded
<1>7. Whole'
  BY <1>0 DEF Whole
<1>8. AtRest'
  BY DEF AtRest
<1>9. Trial'
  BY <1>0 DEF Trial, AtRest
<1>10. HashBound'
  BY <1>a DEF HashBound, Flying, Receiving, Tasks
<1>11. Room'
  BY <1>a DEF Room
<1>12. Counted'
  BY <1>0, <1>r, <1>a DEF Counted, Receiving
<1>13. Common'
  BY DEF Common, Receiving
<1>14. Ending'
  BY <1>0 DEF Ending
<1>15. Selected'
  BY <1>a, <1>h DEF Selected
<1>16. Chosen'
  BY <1>0 DEF Chosen
<1> QED BY <1>1, <1>2, <1>3, <1>4, <1>5, <1>6, <1>7, <1>8, <1>9, <1>10, <1>11,
           <1>12, <1>13, <1>14, <1>15, <1>16 DEF IInv

\* The engine refuses a call, as it is not receiving any more.
LEMMA Refused ==
  ASSUME IInv, NEW t \in Tasks, pc[t] \in {"hash", "finish"}, Return(t), updateState # "RECEIVING",
         UNCHANGED <<ram, flash, past>>
  PROVE  IInv'
<1> USE DEF IInv, ram, flash, past, Busy
<1>s. session' = session
  BY DEF session, bootable
<1>a. pc'[t] = "idle" /\ \A u \in Tasks : u # t => pc'[u] = pc[u]
  BY DEF ConnsTyped, Return, Goto
<1>b. /\ who[t] \in Transfers /\ TaskOf(who[t]) = t
      /\ todo[who[t]] \in Seq(Chunks) /\ who' = who
  BY DEF Owned, ConnsTyped, Return
<1>c. /\ todo' \in [Transfers -> Seq(Chunks) \cup {Closed}] /\ todo'[who[t]] # <<>>
      /\ \A x \in Transfers : x # who[t] => todo'[x] = todo[x]
  BY <1>b, TailOrClosed DEF Return, ConnsTyped
<1>d. \A u \in Tasks : u # t /\ pc[u] \in Busy => todo'[who[u]] = todo[who[u]]
  BY <1>b, <1>c DEF Owned
<1>1. EngineTyped'
  BY DEF EngineTyped, newer
<1>2. ConnsTyped'
  BY <1>a, <1>b, <1>c DEF ConnsTyped, Return, Goto, Early
<1>3. FlagsTyped'
  BY DEF FlagsTyped, Return
<1>4. FlashTyped'
  BY DEF FlashTyped
<1>5. Owned'
  BY <1>a, <1>b, <1>d DEF Owned, Busy
<1>6. Loaded'
  BY <1>a, <1>b, <1>c, TaskOfType DEF Loaded
<1>7. Whole'
  BY DEF Whole
<1>8. AtRest'
  BY DEF AtRest, Busy
<1>9. Trial'
  BY DEF Trial
<1>10. HashBound'
  BY <1>a DEF HashBound, Flying, Receiving, Tasks
<1>11. Room'
  BY <1>a DEF Room
<1>12. Counted'
  BY <1>s, <1>a DEF Counted, Receiving
<1>13. Common'
  BY <1>s, <1>a DEF Common, Receiving
<1>14. Ending'
  BY <1>s, <1>a DEF Ending, NewImages, newer
<1>15. Selected'
  BY <1>a DEF Selected
<1>16. Chosen'
  BY DEF Chosen, NewImages, newer
<1> QED BY <1>1, <1>2, <1>3, <1>4, <1>5, <1>6, <1>7, <1>8, <1>9, <1>10, <1>11,
           <1>12, <1>13, <1>14, <1>15, <1>16 DEF IInv

\* A prepared package: a new hash and a new count, whatever the other task is at.
LEMMA BeganInstall ==
  ASSUME IInv, NEW x \in Transfers, NEW s \in Streams, BeginInstall(x, s), package # 0,
         updateState' = "RECEIVING", hash' = <<>>, Goto(TaskOf(x), "open"),
         who' = [who EXCEPT ![TaskOf(x)] = x], todo' = [todo EXCEPT ![x] = s],
         UNCHANGED <<sessionOpen, writing, past>>
  PROVE  IInv'
<1> USE DEF IInv, BeginInstall, SetState, noFlash, past
<1> DEFINE t == TaskOf(x)
<1>s. session' = session
  BY DEF session, bootable
<1>a. /\ pc[t] = "idle" /\ pc'[t] = "open" /\ t \in Tasks
      /\ \A u \in Tasks : u # t => pc'[u] = pc[u]
  BY TaskOfType DEF ConnsTyped, Goto
<1>b. /\ who' \in [Tasks -> Transfers \cup {AnyTransfer}] /\ who'[t] = x
      /\ \A u \in Tasks : u # t => who'[u] = who[u]
  BY TaskOfType DEF ConnsTyped
<1>c. /\ s \in Seq(Chunks) /\ s # <<>> /\ todo[x] = Closed
      /\ todo' \in [Transfers -> Seq(Chunks) \cup {Closed}] /\ todo'[x] = s
      /\ \A y \in Transfers : y # x => todo'[y] = todo[y]
  BY UpdateAssumption DEF ConnsTyped
<1>d. \A u \in Tasks : u # t /\ pc[u] \in Busy => who[u] # x /\ todo'[who[u]] = todo[who[u]]
  BY <1>c DEF Owned
<1>e. received' = 0 /\ hash' = <<>> /\ Len(hash') = 0 /\ Size \in Nat
      /\ pc'[t] = "open" /\ pc' \in [Tasks -> Early \cup Busy]
  BY <1>a, Constants DEF ConnsTyped, Goto, Early, Busy
<1>1. EngineTyped'
  BY <1>e, Marks, Constants DEF EngineTyped, newer
<1>2. ConnsTyped'
  BY <1>b, <1>c DEF ConnsTyped, Early, Busy, Tasks, Goto
<1>3. FlagsTyped'
  BY DEF FlagsTyped
<1>4. FlashTyped'
  BY DEF FlashTyped
<1>5. Owned'
  BY <1>a, <1>b, <1>c, <1>d, Marks DEF Owned
<1>6. Loaded'
  BY <1>a, <1>b, <1>c, Marks, TaskOfType DEF Loaded, Ended
<1>7. Whole'
  BY DEF Whole
<1>8. AtRest'
  BY DEF AtRest
<1>9. Trial'
  BY DEF Trial, AtRest
<1>10. HashBound'
  BY <1>e, Marks DEF HashBound, Flying, Receiving
<1>11. Room'
  BY <1>e, Constants DEF Room
<1>12. Counted'
  BY <1>s, <1>e DEF Counted, Receiving
<1>13. Common'
  BY <1>s, <1>a, <1>b, <1>e DEF Common, Fresh, Tasks
<1>14. Ending'
  BY <1>s, <1>a DEF Ending, NewImages, newer, Tasks
<1>15. Selected'
  BY <1>a DEF Selected
<1>16. Chosen'
  BY DEF Chosen, NewImages, newer
<1> QED BY <1>1, <1>2, <1>3, <1>4, <1>5, <1>6, <1>7, <1>8, <1>9, <1>10, <1>11,
           <1>12, <1>13, <1>14, <1>15, <1>16 DEF IInv

\* No package, or no luck: FAILED, also for the image on trial.
LEMMA BeganNothing ==
  ASSUME IInv, NEW x \in Transfers, NEW s \in Streams, BeginInstall(x, s),
         failUpdate, Derail, UNCHANGED <<pc, who>>,
         todo' = [todo EXCEPT ![x] =
                    IF TaskOf(x) = "http" /\ Len(s) > 1 THEN Tail(s) ELSE Closed]
  PROVE  IInv'
<1> USE DEF IInv, BeginInstall, failUpdate, Derail, SetState, noFlash
<1>s. session' = session
  BY DEF session, bootable
<1>c. /\ todo' \in [Transfers -> Seq(Chunks) \cup {Closed}] /\ todo'[x] # <<>>
      /\ \A y \in Transfers : y # x => todo'[y] = todo[y]
  <2>1. s \in Seq(Chunks)
    BY UpdateAssumption
  <2>2. (IF TaskOf(x) = "http" /\ Len(s) > 1 THEN Tail(s) ELSE Closed)
           \in (Seq(Chunks) \cup {Closed}) \ {<<>>}
    BY <2>1, TailOrClosed
  <2> QED BY <2>2 DEF ConnsTyped
<1>d. \A u \in Tasks : pc[u] \in Busy => who[u] # x
  BY DEF Owned, Busy
<1>e. received' = 0
  OBVIOUS
<1>1. EngineTyped'
  BY Constants DEF EngineTyped, newer
<1>2. ConnsTyped'
  BY <1>c DEF ConnsTyped
<1>3. FlagsTyped'
  BY DEF FlagsTyped
<1>4. FlashTyped'
  BY DEF FlashTyped
<1>5. Owned'
  BY <1>c, <1>d DEF Owned
<1>6. Loaded'
  BY <1>c DEF Loaded
<1>7. Whole'
  BY DEF Whole
<1>8. AtRest'
  BY DEF AtRest
<1>9. Trial'
  BY DEF Trial
<1>10. HashBound'
  BY DEF HashBound, Receiving
<1>11. Room'
  BY <1>e, Constants DEF Room
<1>12. Counted'
  BY <1>s, <1>e DEF Counted, Receiving
<1>13. Common'
  BY <1>s DEF Common, Receiving
<1>14. Ending'
  BY <1>s DEF Ending, NewImages, newer, Tasks
<1>15. Selected'
  BY DEF Selected
<1>16. Chosen'
  BY DEF Chosen, NewImages, newer
<1> QED BY <1>1, <1>2, <1>3, <1>4, <1>5, <1>6, <1>7, <1>8, <1>9, <1>10, <1>11,
           <1>12, <1>13, <1>14, <1>15, <1>16 DEF IInv

\* A session; its chunks are still to come, and the first will erase what is there.
LEMMA Opened ==
  ASSUME IInv, NEW t \in Tasks, Open(t), ~writing, writing' = TRUE
  PROVE  IInv'
<1> USE DEF IInv, Open, Goto, failUpdate
<1>0. UNCHANGED <<updateState, received, hash, package, age, who, todo, available, running,
                  runState, selected, fallback, derailed, overtaken>>
  BY DEF FlagsTyped, past
<1>a. /\ pc[t] = "open" /\ pc'[t] = "hash" /\ session' = <<>> /\ Len(session') = 0
      /\ \A u \in Tasks : u # t => pc'[u] = pc[u]
  <2>1. other' = IF bootable THEN other ELSE <<>>
    BY DEF FlagsTyped
  <2>2. session' = <<>>
    BY <1>0, <2>1 DEF session, bootable
  <2> QED BY <2>2 DEF ConnsTyped
<1>z. other' = other \/ (~bootable /\ other' = <<>>)
  BY DEF FlagsTyped
<1>b. \A u \in Tasks : Receiving \/ pc[u] = "flash" => received = 0
  <2>1. PICK v \in Tasks : v # t
    BY DEF Tasks
  <2> QED BY <1>a, <2>1 DEF Counted
<1>c. Flying("http")' = Flying("http") /\ Flying("ota")' = Flying("ota")
  BY <1>a DEF Flying, Tasks
<1>1. EngineTyped'
  BY DEF EngineTyped, newer
<1>2. ConnsTyped'
  BY DEF ConnsTyped, Early, Busy, Tasks
<1>3. FlagsTyped'
  BY <1>0 DEF FlagsTyped
<1>4. FlashTyped'
  <2>1. <<>> \in Seq(Chunks) /\ Len(<<>>) = 0 /\ 0 <= Size
    BY Marks, Constants
  <2>2. other \in Seq(Chunks) /\ Len(other) <= Size
    BY DEF FlashTyped
  <2>3. other' \in Seq(Chunks) /\ Len(other') <= Size
    BY <1>z, <2>1, <2>2
  <2> QED BY <1>0, <2>3 DEF FlashTyped
<1>5. Owned'
  BY <1>a DEF Owned, Busy
<1>6. Loaded'
  BY <1>a, TaskOfType DEF Loaded, Ended
<1>7. Whole'
  BY <1>0, <1>z DEF Whole, bootable
<1>8. AtRest'
  BY <1>a DEF AtRest
<1>9. Trial'
  BY <1>0 DEF Trial
<1>10. HashBound'
  BY <1>c DEF HashBound, Receiving
<1>11. Room'
  BY <1>a DEF Room
<1>12. Counted'
  <2>1. writing' /\ (Receiving' \/ \E u \in Tasks : pc'[u] = "flash") => received' = 0
    BY <1>0, <1>a, <1>b DEF Receiving
  <2>2. \A u \in Tasks : pc'[u] = "open" => pc'[u] # pc'[t] /\ u # t
    BY <1>a
  <2>3. \A u, v \in Tasks : u # v /\ u # t => v = t
    BY DEF Tasks
  <2> QED BY <1>a, <2>1, <2>2, <2>3 DEF Counted
<1>13. Common'
  BY <1>a, <1>b DEF Common, Receiving, Fresh, Tasks
<1>14. Ending'
  BY <1>a DEF Ending
<1>15. Selected'
  BY <1>0, <1>a DEF Selected
<1>16. Chosen'
  BY <1>0, <1>z DEF Chosen, bootable, NewImages, newer
<1> QED BY <1>1, <1>2, <1>3, <1>4, <1>5, <1>6, <1>7, <1>8, <1>9, <1>10, <1>11,
           <1>12, <1>13, <1>14, <1>15, <1>16 DEF IInv

\* The next chunk of an upload.
LEMMA Chunked ==
  ASSUME IInv, NEW x \in Transfers, Chunk(x)
  PROVE  IInv'
<1> USE DEF IInv, Chunk, Goto, ram, flash, past
<1>s. session' = session
  BY DEF session, bootable
<1>a. /\ "http" \in Tasks /\ TaskOf(x) = "http" /\ pc["http"] = "idle" /\ pc'["http"] = "hash"
      /\ \A u \in Tasks : u # "http" => pc'[u] = pc[u]
  BY DEF ConnsTyped, Tasks, TaskOf
<1>b. /\ who' \in [Tasks -> Transfers \cup {AnyTransfer}] /\ who'["http"] = x
      /\ \A u \in Tasks : u # "http" => who'[u] = who[u]
  BY DEF ConnsTyped, Tasks
<1>1. EngineTyped'
  BY DEF EngineTyped, newer
<1>2. ConnsTyped'
  BY <1>b DEF ConnsTyped, Early, Busy, Tasks
<1>3. FlagsTyped'
  BY DEF FlagsTyped
<1>4. FlashTyped'
  BY DEF FlashTyped
<1>5. Owned'
  BY <1>a, <1>b DEF Owned
<1>6. Loaded'
  BY <1>a, <1>b, TaskOfType DEF Loaded, Ended
<1>7. Whole'
  BY DEF Whole
<1>8. AtRest'
  BY DEF AtRest
<1>9. Trial'
  BY DEF Trial
<1>10. HashBound'
  BY <1>a, <1>b DEF HashBound, Flying, Receiving, Tasks
<1>11. Room'
  BY <1>a DEF Room
<1>12. Counted'
  BY <1>s, <1>a, <1>b DEF Counted, Receiving
<1>13. Common'
  BY <1>s, <1>a, <1>b DEF Common, Receiving, Fresh, Shares, Hashed, Tasks
<1>14. Ending'
  BY <1>s, <1>a, <1>b DEF Ending, NewImages, newer
<1>15. Selected'
  BY <1>a, <1>b DEF Selected
<1>16. Chosen'
  BY DEF Chosen, NewImages, newer
<1> QED BY <1>1, <1>2, <1>3, <1>4, <1>5, <1>6, <1>7, <1>8, <1>9, <1>10, <1>11,
           <1>12, <1>13, <1>14, <1>15, <1>16 DEF IInv

\* The hash is fed while the session still receives.
LEMMA Hashing ==
  ASSUME IInv, NEW t \in Tasks, pc[t] = "hash", Receiving, hash # NoHash, received < Size,
         hash' = Append(hash, Head(todo[who[t]])), Goto(t, "flash"),
         UNCHANGED <<updateState, sessionOpen, age, who, todo, available, writing,
                     received, package, noFlash, past>>
  PROVE  IInv'
<1> USE DEF IInv, Goto, noFlash, past, Receiving
<1> DEFINE c == Head(todo[who[t]])
<1>s. session' = session
  BY DEF session, bootable
<1>a. /\ pc[t] = "hash" /\ pc'[t] = "flash" /\ UNCHANGED <<who, todo, overtaken, derailed>>
      /\ \A u \in Tasks : u # t => pc'[u] = pc[u]
  BY DEF ConnsTyped
<1>b. hash \in Seq(Chunks) /\ c \in Chunks
  BY Working, <1>a DEF EngineTyped
<1>c. hash' = Append(hash, c) /\ hash' \in Seq(Chunks) /\ Len(hash') = Len(hash) + 1
  BY <1>b, AppendProperties
<1>d. /\ Flying("http")' + Flying("ota")' = Flying("http") + Flying("ota") + 1
      /\ Flying("http") \in Nat /\ Flying("ota") \in Nat /\ Len(hash) \in Nat
      /\ Flying("http")' \in Nat /\ Flying("ota")' \in Nat
  BY <1>a, <1>b DEF Flying, Tasks
<1>e. (\A k : Hashed(k) => Hashed(k)') /\ Hashed(c)'
  <2>1. /\ hash'[Len(hash')] = c /\ Len(hash') \in 1..Len(hash')
        /\ \A i \in 1..Len(hash) : i \in 1..Len(hash') /\ hash'[i] = hash[i]
    BY <1>b, <1>c, AppendProperties
  <2> QED BY <2>1 DEF Hashed
<1>1. EngineTyped'
  BY <1>c DEF EngineTyped, newer
<1>2. ConnsTyped'
  BY DEF ConnsTyped, Early, Busy, Tasks
<1>3. FlagsTyped'
  BY DEF FlagsTyped
<1>4. FlashTyped'
  BY DEF FlashTyped
<1>5. Owned'
  BY <1>a DEF Owned, Busy
<1>6. Loaded'
  BY <1>a, TaskOfType DEF Loaded, Ended
<1>7. Whole'
  BY DEF Whole
<1>8. AtRest'
  BY DEF AtRest
<1>9. Trial'
  BY DEF Trial
<1>10. HashBound'
  <2>1. Len(hash) <= received + Flying("http") + Flying("ota") /\ received \in Nat
    BY DEF HashBound, EngineTyped
  <2>2. Len(hash') <= received' + Flying("http")' + Flying("ota")'
    BY <1>c, <1>d, <2>1
  <2> QED BY <1>c, <2>2, Marks DEF HashBound
<1>11. Room'
  BY DEF Room
<1>12. Counted'
  BY <1>s, <1>a DEF Counted
<1>13. Common'
  <2>1. \A u \in Tasks : Fresh(u) => Fresh(u)'
    BY <1>a, <1>e DEF Fresh
  <2>2. Fresh(t)'
    BY <1>e DEF Fresh
  <2>3. Shares => Shares'
    BY <1>s, <1>e DEF Shares
  <2>4. "http" \in Tasks /\ "ota" \in Tasks
    BY DEF Tasks
  <2>5. CASE Shares
    BY <2>3, <2>5 DEF Common
  <2>6. CASE received = 0 /\ (Fresh("http") \/ Fresh("ota"))
    BY <2>1, <2>4, <2>6 DEF Common
  <2>7. CASE received = 1 /\ Fresh("http") /\ Fresh("ota")
    BY <2>1, <2>4, <2>7 DEF Common
  <2> QED BY <2>5, <2>6, <2>7 DEF Common
<1>14. Ending'
  BY <1>s, <1>a DEF Ending, NewImages, newer
<1>15. Selected'
  BY <1>a DEF Selected
<1>16. Chosen'
  BY DEF Chosen, NewImages, newer
<1> QED BY <1>1, <1>2, <1>3, <1>4, <1>5, <1>6, <1>7, <1>8, <1>9, <1>10, <1>11,
           <1>12, <1>13, <1>14, <1>15, <1>16 DEF IInv

\* A chunk is written and counted, into whatever session is open.
LEMMA Written ==
  ASSUME IInv, NEW t \in Tasks, Flash(t), updateState' # "FAILED" \/ updateState = "FAILED",
         writing, Len(session) < Size, Write(Append(session, Head(todo[who[t]]))),
         received' = received + 1,
         todo' = [todo EXCEPT ![who[t]] = Tail(@)],
         Goto(t, IF Len(todo[who[t]]) = 1 THEN "finish"
                 ELSE IF t = "http" THEN "idle" ELSE "hash"),
         UNCHANGED <<updateState, sessionOpen, hash, package, age, who, available,
                     writing>>
  PROVE  IInv'
<1> USE DEF IInv, Goto
<1> DEFINE x == who[t]
<1>0. /\ other' = Append(session, Head(todo[x])) /\ session' = other'
      /\ selected' = FALSE /\ fallback' = FALSE
      /\ overtaken' \in BOOLEAN /\ UNCHANGED <<running, runState, derailed>>
  <2>1. /\ other' = Append(session, Head(todo[x])) /\ UNCHANGED <<running, runState, derailed>>
        /\ selected' = FALSE /\ fallback' = FALSE /\ overtaken' \in BOOLEAN
    BY DEF Write
  <2>2. ~bootable'
    BY <2>1 DEF bootable
  <2> QED BY <2>1, <2>2 DEF session
<1>g. session # <<>> => session = other /\ ~selected
  BY DEF session, bootable
<1>h. ~overtaken' => /\ ~overtaken
                     /\ session = <<>> => /\ updateState # "PENDING_REBOOT"
                                          /\ \A u \in Tasks : pc[u] \notin {"end", "announce"}
  BY DEF Write
<1>a. /\ pc[t] = "flash" /\ pc'[t] \in {"finish", "idle", "hash"}
      /\ \A u \in Tasks : u # t => pc'[u] = pc[u]
  BY DEF ConnsTyped, Flash
<1>b. /\ x \in Transfers /\ TaskOf(x) = t /\ todo[x] \in Seq(Chunks) /\ todo[x] # <<>>
      /\ Head(todo[x]) \in Chunks /\ Tail(todo[x]) \in Seq(Chunks)
      /\ Tail(todo[x]) = <<>> <=> Len(todo[x]) = 1
      /\ Len(todo[x]) = 1 <=> pc'[t] = "finish"
  <2>1. pc'[t] = IF Len(todo[x]) = 1 THEN "finish" ELSE IF t = "http" THEN "idle" ELSE "hash"
    BY DEF ConnsTyped
  <2> QED BY <1>a, <2>1, Working
<1>c. /\ todo' \in [Transfers -> Seq(Chunks) \cup {Closed}] /\ todo'[x] = Tail(todo[x])
      /\ \A y \in Transfers : y # x => todo'[y] = todo[y]
      /\ \A u \in Tasks : u # t /\ pc[u] \in Busy => todo'[who[u]] = todo[who[u]]
  BY <1>b DEF ConnsTyped, Owned
<1>d. /\ session \in Seq(Chunks) /\ Len(session) \in Nat /\ Size \in Nat
      /\ other' \in Seq(Chunks) /\ Len(other') = Len(session) + 1 /\ Len(other') <= Size
      /\ received \in Nat /\ received <= Len(session) /\ received' \in 0..Size
  <2>1. session \in Seq(Chunks)
    BY Marks DEF FlashTyped, session
  <2>2. received \in Nat /\ received <= Len(session)
    BY <1>a DEF EngineTyped, Counted
  <2>3. other' \in Seq(Chunks) /\ Len(other') = Len(session) + 1
    BY <1>0, <1>b, <2>1, AppendProperties
  <2> QED BY <2>1, <2>2, <2>3, Constants
<1>e. /\ received' + Flying("http")' + Flying("ota")' = received + Flying("http") + Flying("ota")
      /\ Flying("http") + Flying("ota") \in Nat
  BY <1>a, <1>d DEF Flying, Tasks
<1>f. /\ other'[Len(other')] = Head(todo[x]) /\ Len(other') \in 1..Len(other')
      /\ \A i \in 1..Len(session) : i \in 1..Len(other') /\ other'[i] = session[i]
  BY <1>0, <1>b, <1>d, AppendProperties
<1>1. EngineTyped'
  BY <1>0, <1>d DEF EngineTyped, newer
<1>2. ConnsTyped'
  BY <1>b, <1>c DEF ConnsTyped, Early, Busy, Tasks
<1>3. FlagsTyped'
  BY <1>0 DEF FlagsTyped
<1>4. FlashTyped'
  BY <1>0, <1>d DEF FlashTyped
<1>5. Owned'
  BY <1>a, <1>b, <1>c, Marks DEF Owned, Busy
<1>6. Loaded'
  BY <1>a, <1>b, <1>c, TaskOfType DEF Loaded, Ended
<1>7. Whole'
  BY <1>0 DEF Whole
<1>8. AtRest'
  BY <1>a DEF AtRest
<1>9. Trial'
  BY <1>0, <1>a DEF Trial, AtRest
<1>10. HashBound'
  BY <1>d, <1>e, Marks DEF HashBound, Receiving
<1>11. Room'
  BY <1>a DEF Room
<1>12. Counted'
  <2>1. \A u \in Tasks : pc'[u] = "open" => u # t
    BY <1>a
  <2>2. \A u, v \in Tasks : u # v /\ u # t => v = t
    BY DEF Tasks
  <2> QED BY <1>0, <1>a, <1>d, <2>1, <2>2 DEF Counted
<1>13. Common'
  <2>1. "http" \in Tasks /\ "ota" \in Tasks /\ Tasks = {"http", "ota"}
    BY DEF Tasks
  <2>2. Fresh(t)' /\ \A u \in Tasks : Fresh(u) => Fresh(u)'
    BY <1>a, <1>c DEF Fresh, Hashed, Busy
  <2>3. Shares => Shares'
    BY <1>0, <1>f DEF Shares, Hashed
  <2>4. Fresh(t) => Shares'
    BY <1>0, <1>a, <1>f DEF Fresh, Shares, Hashed
  <2>5. CASE Shares
    BY <2>3, <2>5 DEF Common
  <2>6. CASE Fresh(t)
    BY <2>4, <2>6 DEF Common
  <2>7. CASE received = 0 /\ ~Fresh(t) /\ (Fresh("http") \/ Fresh("ota"))
    <3>1. Fresh("http")' /\ Fresh("ota")' /\ received' = 1
      BY <2>1, <2>2, <2>7
    <3> QED BY <3>1 DEF Common
  <2> QED BY <2>1, <2>5, <2>6, <2>7 DEF Common, Receiving
<1>14. Ending'
  <2>1. SUFFICES ASSUME NEW u \in Tasks, ~overtaken', pc'[u] = "end" PROVE FALSE
    BY <1>a DEF Ending
  <2>2. pc[u] = "end" /\ ~overtaken /\ session # <<>>
    BY <1>a, <1>h, <2>1
  <2>3. Len(session) = Size
    BY <1>g, <2>2 DEF Ending
  <2> QED BY <1>d, <2>3
<1>15. Selected'
  <2>1. SUFFICES ASSUME ~overtaken',
                        updateState' = "PENDING_REBOOT" \/ \E u \in Tasks : pc'[u] = "announce"
               PROVE  FALSE
    BY DEF Selected
  <2>2. updateState = "PENDING_REBOOT" \/ \E u \in Tasks : pc[u] = "announce"
    BY <1>a, <2>1
  <2>3. ~overtaken /\ ~selected
    BY <1>g, <1>h, <2>1, <2>2
  <2> QED BY <2>2, <2>3 DEF Selected
<1>16. Chosen'
  BY <1>0 DEF Chosen
<1> QED BY <1>1, <1>2, <1>3, <1>4, <1>5, <1>6, <1>7, <1>8, <1>9, <1>10, <1>11,
           <1>12, <1>13, <1>14, <1>15, <1>16 DEF IInv

\* What is verified is the package, and so is what a session holds that is whole.
LEMMA Finished ==
  ASSUME IInv, NEW t \in Tasks, pc[t] = "finish", Receiving, verified,
         SetState("FINALIZING"), hash' = NoHash, Goto(t, "end"),
         UNCHANGED <<sessionOpen, who, todo, available, writing, received, package,
                     noFlash, past>>
  PROVE  IInv'
<1> USE DEF IInv, SetState, Goto, noFlash, past, Receiving
<1>s. session' = session
  BY DEF session, bootable
<1>a. pc'[t] = "end" /\ \A u \in Tasks : u # t => pc'[u] = pc[u]
  BY DEF ConnsTyped
<1>b. package \in newer /\ package \in Builds /\ received = Size /\ hash = Image(package)
  <2>1. package # 0
    BY NoPackage DEF verified, EngineTyped
  <2> QED BY <2>1, Constants DEF verified, sizeOf, EngineTyped, newer
<1>c. writing => session = other /\ Len(other) = Size /\ Shares
  <2>1. SUFFICES ASSUME writing PROVE session = other /\ Len(other) = Size /\ Shares
    OBVIOUS
  <2>2. Size <= Len(session)
    BY <1>b, <2>1 DEF Counted
  <2>3. session = other
    <3>1. session # <<>>
      BY <2>2, Constants
    <3> QED BY <3>1 DEF session
  <2>4. Len(other) <= Size /\ Len(other) \in Nat
    BY DEF FlashTyped
  <2>5. Shares
    BY <1>b, <2>1, Constants DEF Common
  <2> QED BY <2>2, <2>3, <2>4, <2>5, Constants
<1>d. ASSUME Shares, session = other, Len(other) = Size, other \in Images PROVE other \in NewImages
  <2>1. PICK b \in Builds : other = Image(b)
    BY <1>d DEF Images
  <2>2. PICK j \in 1..Size, i \in 1..Size : Image(package)[i] = Image(b)[j]
    BY <1>b, <1>d, <2>1, ImageOfBuild DEF Shares, Hashed
  <2>3. b = package
    BY <1>b, <2>2, CommonChunk
  <2> QED BY <1>b, <2>1, <2>3 DEF NewImages
<1>1. EngineTyped'
  BY DEF EngineTyped, newer
<1>2. ConnsTyped'
  BY DEF ConnsTyped, Early, Busy, Tasks
<1>3. FlagsTyped'
  BY DEF FlagsTyped
<1>4. FlashTyped'
  BY DEF FlashTyped
<1>5. Owned'
  BY <1>a DEF Owned, Busy
<1>6. Loaded'
  BY <1>a, TaskOfType DEF Loaded, Ended
<1>7. Whole'
  BY DEF Whole
<1>8. AtRest'
  BY DEF AtRest
<1>9. Trial'
  BY DEF Trial
<1>10. HashBound'
  BY DEF HashBound, Receiving
<1>11. Room'
  BY <1>a DEF Room
<1>12. Counted'
  BY <1>s, <1>a DEF Counted, Receiving, Tasks
<1>13. Common'
  BY <1>s DEF Common, Receiving
<1>14. Ending'
  <2>1. writing => Len(other) = Size /\ (other \in Images => other \in NewImages)
    BY <1>c, <1>d
  <2>2. NewImages' = NewImages
    BY DEF NewImages, newer
  <2> QED BY <1>a, <2>1, <2>2 DEF Ending
<1>15. Selected'
  BY <1>a DEF Selected
<1>16. Chosen'
  BY DEF Chosen, NewImages, newer
<1> QED BY <1>1, <1>2, <1>3, <1>4, <1>5, <1>6, <1>7, <1>8, <1>9, <1>10, <1>11,
           <1>12, <1>13, <1>14, <1>15, <1>16 DEF IInv

\* Update.end() selects what the session holds.
LEMMA Selecting ==
  ASSUME IInv, NEW t \in Tasks, pc[t] = "end", writing, session \in Images,
         writing' = FALSE, selected' = TRUE, Goto(t, "announce"),
         UNCHANGED <<ram, who, todo, available, running, runState, other, fallback, past>>
  PROVE  IInv'
<1> USE DEF IInv, Goto, past, ram
<1>a. pc'[t] = "announce" /\ \A u \in Tasks : u # t => pc'[u] = pc[u]
  BY DEF ConnsTyped
<1>b. Flying("http")' = Flying("http") /\ Flying("ota")' = Flying("ota")
  BY <1>a DEF Flying, Tasks
<1>c. session # <<>> /\ session = other /\ other \in Images
  <2>1. session # <<>>
    BY ImagesAre, Constants
  <2> QED BY <2>1 DEF session
<1>1. EngineTyped'
  BY DEF EngineTyped, newer
<1>2. ConnsTyped'
  BY DEF ConnsTyped, Early, Busy, Tasks
<1>3. FlagsTyped'
  BY DEF FlagsTyped
<1>4. FlashTyped'
  BY DEF FlashTyped
<1>5. Owned'
  BY <1>a DEF Owned, Busy
<1>6. Loaded'
  BY <1>a, TaskOfType DEF Loaded, Ended
<1>7. Whole'
  BY <1>c DEF Whole
<1>8. AtRest'
  BY DEF AtRest
<1>9. Trial'
  BY DEF Trial
<1>10. HashBound'
  BY <1>b DEF HashBound, Receiving
<1>11. Room'
  BY <1>a DEF Room
<1>12. Counted'
  <2>1. \A u, v \in Tasks : u # v /\ u # t => v = t
    BY DEF Tasks
  <2>2. \A u \in Tasks : pc'[u] = "open" => u # t /\ pc[u] = "open"
    BY <1>a
  <2>3. ~(pc'[t] = "flash") /\ UNCHANGED <<updateState, received>>
    BY <1>a
  <2> QED BY <2>1, <2>2, <2>3 DEF Counted, Receiving
<1>13. Common'
  BY DEF Common
<1>14. Ending'
  BY DEF Ending
<1>15. Selected'
  BY DEF Selected
<1>16. Chosen'
  BY <1>c DEF Ending, Chosen, NewImages, newer
<1> QED BY <1>1, <1>2, <1>3, <1>4, <1>5, <1>6, <1>7, <1>8, <1>9, <1>10, <1>11,
           <1>12, <1>13, <1>14, <1>15, <1>16 DEF IInv

\* The restart is ordered.
LEMMA Announced ==
  ASSUME IInv, NEW t \in Tasks, Announce(t)
  PROVE  IInv'
<1> USE DEF IInv, Announce, SetState, flash, past
<1> USE DEF Busy
<1>s. session' = session
  BY DEF session, bootable
<1>a. pc'[t] = "idle" /\ \A u \in Tasks : u # t => pc'[u] = pc[u]
  BY DEF ConnsTyped, Return, Goto
<1>b. /\ who[t] \in Transfers /\ TaskOf(who[t]) = t
      /\ todo[who[t]] \in Seq(Chunks) /\ who' = who
  BY DEF Owned, ConnsTyped, Return
<1>c. /\ todo' \in [Transfers -> Seq(Chunks) \cup {Closed}] /\ todo'[who[t]] # <<>>
      /\ \A x \in Transfers : x # who[t] => todo'[x] = todo[x]
  BY <1>b, TailOrClosed DEF Return, ConnsTyped
<1>d. \A u \in Tasks : u # t /\ pc[u] \in Busy => todo'[who[u]] = todo[who[u]]
  BY <1>b, <1>c DEF Owned
<1>1. EngineTyped'
  BY DEF EngineTyped, newer
<1>2. ConnsTyped'
  BY <1>a, <1>b, <1>c DEF ConnsTyped, Return, Goto, Early
<1>3. FlagsTyped'
  BY DEF FlagsTyped, Return
<1>4. FlashTyped'
  BY DEF FlashTyped
<1>5. Owned'
  BY <1>a, <1>b, <1>d DEF Owned, Busy
<1>6. Loaded'
  BY <1>a, <1>b, <1>c, TaskOfType DEF Loaded, Ended
<1>7. Whole'
  BY DEF Whole
<1>8. AtRest'
  BY DEF AtRest
<1>9. Trial'
  BY DEF Trial, AtRest
<1>10. HashBound'
  BY <1>a DEF HashBound, Flying, Receiving, Tasks
<1>11. Room'
  BY <1>a DEF Room
<1>12. Counted'
  BY <1>s, <1>a DEF Counted, Receiving, EngineTyped, Tasks
<1>13. Common'
  BY <1>s DEF Common, Receiving
<1>14. Ending'
  BY <1>s, <1>a DEF Ending, NewImages, newer
<1>15. Selected'
  BY <1>a DEF Selected
<1>16. Chosen'
  BY DEF Chosen, NewImages, newer
<1> QED BY <1>1, <1>2, <1>3, <1>4, <1>5, <1>6, <1>7, <1>8, <1>9, <1>10, <1>11,
           <1>12, <1>13, <1>14, <1>15, <1>16 DEF IInv

\* A transfer breaks off, and the engine is not told.
LEMMA Abandoned ==
  ASSUME IInv, NEW x \in Transfers, Abandon(x)
  PROVE  IInv'
<1> USE DEF IInv, Abandon, Goto, ram, flash, past
<1>s. session' = session
  BY DEF session, bootable
<1>a. /\ pc' \in [Tasks -> Early \cup Busy] /\ UNCHANGED who
      /\ \A u \in Tasks : pc'[u] = pc[u] \/ (pc[u] = "hash" /\ pc'[u] = "idle")
  <2>1. UNCHANGED who /\ TaskOf(x) \in Tasks /\ pc \in [Tasks -> Early \cup Busy]
    BY TaskOfType DEF ConnsTyped
  <2>2. pc' = pc \/ (pc[TaskOf(x)] = "hash" /\ pc' = [pc EXCEPT ![TaskOf(x)] = "idle"])
    OBVIOUS
  <2>3. CASE pc' = pc
    BY <2>1, <2>3
  <2>4. CASE pc[TaskOf(x)] = "hash" /\ pc' = [pc EXCEPT ![TaskOf(x)] = "idle"]
    BY <2>1, <2>4 DEF Early
  <2> QED BY <2>2, <2>3, <2>4
<1>b. /\ todo' \in [Transfers -> Seq(Chunks) \cup {Closed}] /\ todo'[x] = Closed
      /\ \A y \in Transfers : y # x => todo'[y] = todo[y]
  BY DEF ConnsTyped
<1>c. \A u \in Tasks : pc'[u] \in Busy => who[u] # x /\ pc'[u] = pc[u]
  BY <1>a DEF Owned, Tasks, Busy, ConnsTyped
<1>d. Flying("http")' = Flying("http") /\ Flying("ota")' = Flying("ota")
  BY <1>a DEF Flying, Tasks
<1>1. EngineTyped'
  BY DEF EngineTyped, newer
<1>2. ConnsTyped'
  BY <1>a DEF ConnsTyped, Early, Busy, Tasks
<1>3. FlagsTyped'
  BY DEF FlagsTyped
<1>4. FlashTyped'
  BY DEF FlashTyped
<1>5. Owned'
  BY <1>a, <1>b, <1>c DEF Owned
<1>6. Loaded'
  BY <1>a, <1>b, Marks, TaskOfType DEF Loaded, Ended
<1>7. Whole'
  BY DEF Whole
<1>8. AtRest'
  BY DEF AtRest
<1>9. Trial'
  BY DEF Trial
<1>10. HashBound'
  BY <1>d DEF HashBound, Receiving
<1>11. Room'
  BY <1>a DEF Room
<1>12. Counted'
  BY <1>s, <1>a DEF Counted, Receiving, EngineTyped, Tasks
<1>13. Common'
  <2>1. \A u \in Tasks : Fresh(u) => Fresh(u)'
    BY <1>a, <1>b, <1>c DEF Fresh, Hashed, Busy
  <2>2. "http" \in Tasks /\ "ota" \in Tasks
    BY DEF Tasks
  <2>3. (Shares => Shares') /\ UNCHANGED <<updateState, writing, received>>
    BY <1>s DEF Shares, Hashed
  <2> QED BY <2>1, <2>2, <2>3 DEF Common, Receiving
<1>14. Ending'
  BY <1>s, <1>a DEF Ending, NewImages, newer
<1>15. Selected'
  BY <1>a DEF Selected
<1>16. Chosen'
  BY DEF Chosen, NewImages, newer
<1> QED BY <1>1, <1>2, <1>3, <1>4, <1>5, <1>6, <1>7, <1>8, <1>9, <1>10, <1>11,
           <1>12, <1>13, <1>14, <1>15, <1>16 DEF IInv

\* A restart: nothing is left of what was going on.
LEMMA Booting ==
  ASSUME IInv, Restarted, FlashTyped', fallback' \in BOOLEAN,
         other' \in Images \/ ~fallback',
         runState' = "PENDING" /\ ~derailed' => fallback' 
  PROVE  IInv'
<1> USE DEF IInv, Restarted
<1>b. /\ \A t \in Tasks : pc'[t] = "idle"
      /\ \A x \in Transfers : todo'[x] = Closed
  OBVIOUS
<1>1. EngineTyped'
  BY Constants DEF EngineTyped
<1>2. ConnsTyped'
  BY DEF ConnsTyped, Early, Busy, Tasks
<1>3. FlagsTyped'
  BY DEF FlagsTyped
<1>4. FlashTyped'
  OBVIOUS
<1>5. Owned'
  BY <1>b DEF Owned, Busy
<1>6. Loaded'
  BY <1>b, Marks DEF Loaded
<1>7. Whole'
  BY DEF Whole
<1>8. AtRest'
  BY <1>b DEF AtRest, FlashTyped
<1>9. Trial'
  BY DEF Trial
<1>10. HashBound'
  BY DEF HashBound, Receiving
<1>11. Room'
  BY Constants DEF Room
<1>12. Counted'
  BY <1>b DEF Counted
<1>13. Common'
  BY DEF Common
<1>14. Ending'
  BY DEF Ending
<1>15. Selected'
  BY <1>b DEF Selected
<1>16. Chosen'
  BY DEF Chosen
<1> QED BY <1>1, <1>2, <1>3, <1>4, <1>5, <1>6, <1>7, <1>8, <1>9, <1>10, <1>11,
           <1>12, <1>13, <1>14, <1>15, <1>16 DEF IInv

\* Time passes, or a trial without an image to go back to is left in ROLLBACK.
LEMMA Waited ==
  ASSUME IInv, updateState' \in {updateState, "ROLLBACK"}, age' \in 0..3,
         updateState' # updateState => updateState = "PENDING_VERIFY" /\ ~fallback,
         UNCHANGED <<received, sessionOpen, hash, package, conns, flash, past>>
  PROVE  IInv'
<1> USE DEF IInv, conns, flash, past
<1>s. session' = session
  BY DEF session, bootable
<1>b. Flying("http")' = Flying("http") /\ Flying("ota")' = Flying("ota")
  BY DEF Flying
<1>1. EngineTyped'
  BY DEF EngineTyped, newer
<1>2. ConnsTyped'
  BY DEF ConnsTyped, Early, Busy, Tasks
<1>3. FlagsTyped'
  BY DEF FlagsTyped
<1>4. FlashTyped'
  BY DEF FlashTyped
<1>5. Owned'
  BY DEF Owned, Busy
<1>6. Loaded'
  BY DEF Loaded, Ended
<1>7. Whole'
  BY DEF Whole
<1>8. AtRest'
  BY DEF AtRest
<1>9. Trial'
  BY DEF Trial
<1>10. HashBound'
  BY <1>b DEF HashBound, Receiving
<1>11. Room'
  BY DEF Room
<1>12. Counted'
  BY <1>s DEF Counted, Receiving
<1>13. Common'
  BY <1>s DEF Common, Receiving, Fresh, Shares, Hashed
<1>14. Ending'
  BY <1>s DEF Ending, NewImages, newer
<1>15. Selected'
  BY DEF Selected
<1>16. Chosen'
  BY DEF Chosen, NewImages, newer
<1> QED BY <1>1, <1>2, <1>3, <1>4, <1>5, <1>6, <1>7, <1>8, <1>9, <1>10, <1>11,
           <1>12, <1>13, <1>14, <1>15, <1>16 DEF IInv

\* The image on trial is valid, or could not be marked so.
LEMMA Judged ==
  ASSUME IInv, TickAccept
  PROVE  IInv'
<1> USE DEF IInv, TickAccept, SetState, failUpdate, Derail, conns, past
<1>s. session' = session
  BY DEF session, bootable
<1>a. \A t \in Tasks : pc'[t] = "idle"
  BY DEF AtRest
<1>b. Flying("http")' = Flying("http") /\ Flying("ota")' = Flying("ota")
  BY DEF Flying
<1>1. EngineTyped'
  BY Constants DEF EngineTyped, newer
<1>2. ConnsTyped'
  BY DEF ConnsTyped, Early, Busy, Tasks
<1>3. FlagsTyped'
  BY DEF FlagsTyped
<1>4. FlashTyped'
  BY DEF FlashTyped
<1>5. Owned'
  BY DEF Owned
<1>6. Loaded'
  BY DEF Loaded
<1>7. Whole'
  BY DEF Whole
<1>8. AtRest'
  BY DEF AtRest
<1>9. Trial'
  BY DEF Trial
<1>10. HashBound'
  BY <1>b DEF HashBound, Receiving
<1>11. Room'
  BY <1>a DEF Room
<1>12. Counted'
  BY <1>s, <1>a DEF Counted, Receiving
<1>13. Common'
  BY <1>s DEF Common, Receiving
<1>14. Ending'
  BY <1>s, <1>a DEF Ending, NewImages, newer
<1>15. Selected'
  BY <1>a DEF Selected
<1>16. Chosen'
  BY DEF Chosen, NewImages, newer
<1> QED BY <1>1, <1>2, <1>3, <1>4, <1>5, <1>6, <1>7, <1>8, <1>9, <1>10, <1>11,
           <1>12, <1>13, <1>14, <1>15, <1>16 DEF IInv

\* Power loss, a reset, the restart after an install: one image or the other.
LEMMA BootIInv == ASSUME IInv, Boot PROVE IInv'
<1> USE DEF IInv, Boot, Swap
<1>1. Restarted /\ other \in Seq(Chunks) /\ running \in Builds
  BY DEF FlashTyped
<1>2. CASE selected /\ Swap(other, "PENDING") /\ fallback' = (runState = "VALID")
  <2>1. other \in Images /\ other[1][1] \in Builds
    BY <1>2, ImagesAre DEF Whole
  <2>2. other' \in Images /\ FlashTyped'
    BY <1>1, <1>2, <2>1, ImageOfBuild, Constants DEF FlashTyped, Images
  <2>3. runState' = "PENDING" /\ ~derailed' => fallback'
    BY <1>1, <1>2 DEF Restarted, Trial, AtRest, FlashTyped
  <2> QED BY <1>1, <1>2, <2>2, <2>3, Booting
<1>3. CASE GoBack /\ fallback /\ Swap(other, "VALID") /\ fallback' = FALSE
  <2>1. other \in Images /\ other[1][1] \in Builds
    BY <1>3, ImagesAre DEF Whole
  <2>2. FlashTyped'
    BY <1>1, <1>3, <2>1, ImageOfBuild, Constants DEF FlashTyped
  <2> QED BY <1>1, <1>3, <2>2, Booting
<1>4. CASE ~selected /\ ~GoBack /\ UNCHANGED <<running, other, runState, fallback>>
  <2>1. FlashTyped' /\ fallback' \in BOOLEAN
    BY <1>4 DEF FlashTyped, FlagsTyped
  <2>2. other' \in Images \/ ~fallback'
    BY <1>4 DEF Whole
  <2>3. runState' # "PENDING"
    BY <1>4 DEF GoBack
  <2> QED BY <1>1, <2>1, <2>2, <2>3, Booting
<1> QED BY <1>2, <1>3, <1>4

\* Every call of the install engine keeps the invariant.
LEMMA InstallIInv ==
  ASSUME IInv, NEW t \in Tasks, InstallStep(t)
  PROVE  IInv'
<1>1. CASE Open(t)
  <2>1. ASSUME failUpdate, Return(t), UNCHANGED <<received, package, noFlash, past>> PROVE IInv'
    BY <1>1, <2>1, Failed DEF Open, Busy
  <2>2. ASSUME ~writing, writing' = TRUE PROVE IInv'
    BY <1>1, <2>2, Opened
  <2> QED BY <1>1, <2>1, <2>2 DEF Open, past
<1>2. CASE Hash(t)
  <2>1. pc[t] \in Busy /\ pc[t] = "hash" /\ UNCHANGED <<received, package, noFlash, past>>
    BY <1>2 DEF Hash, Busy
  <2>2. CASE updateState # "RECEIVING"
    BY <1>2, <2>1, <2>2, Refused DEF Hash, ram, flash, noFlash
  <2>3. CASE updateState = "RECEIVING" /\ (received + 1 > sizeOf \/ hash = NoHash)
    BY <1>2, <2>1, <2>3, Failed DEF Hash
  <2>4. CASE updateState = "RECEIVING" /\ ~(received + 1 > sizeOf \/ hash = NoHash)
    <3>1. received < Size
      BY <2>4, Constants DEF sizeOf, IInv, EngineTyped
    <3> QED BY <1>2, <2>1, <2>4, <3>1, Hashing DEF Hash, Receiving
  <2> QED BY <2>2, <2>3, <2>4
<1>3. CASE Flash(t)
  <2>1. CASE failUpdate /\ Return(t) /\ UNCHANGED <<received, package>>
             /\ (\/ UNCHANGED <<noFlash, past>>
                 \/ writing /\ bootable /\ Write(<<>>))
    <3>1. CASE UNCHANGED <<noFlash, past>>
      BY <1>3, <2>1, <3>1, Failed DEF Flash, Busy
    <3>2. CASE writing /\ bootable /\ Write(<<>>)
      BY <1>3, <2>1, <3>2, Erased DEF Flash
    <3> QED BY <2>1, <3>1, <3>2
  <2>2. CASE writing /\ Len(session) < Size /\ Write(Append(session, Head(todo[who[t]])))
             /\ received' = received + 1
             /\ todo' = [todo EXCEPT ![who[t]] = Tail(@)]
             /\ Goto(t, IF Len(todo[who[t]]) = 1 THEN "finish"
                        ELSE IF t = "http" THEN "idle" ELSE "hash")
             /\ UNCHANGED <<updateState, sessionOpen, hash, package, age, who, available,
                            writing>>
    BY <1>3, <2>2, Written DEF Flash
  <2> QED BY <1>3, <2>1, <2>2 DEF Flash
<1>4. CASE Finish(t)
  <2>1. pc[t] \in Busy /\ pc[t] = "finish" /\ UNCHANGED <<received, package, noFlash, past>>
    BY <1>4 DEF Finish, Busy
  <2>2. CASE updateState # "RECEIVING"
    BY <1>4, <2>1, <2>2, Refused DEF Finish, ram, flash, noFlash
  <2>3. CASE updateState = "RECEIVING" /\ ~verified
    BY <1>4, <2>1, <2>3, Failed DEF Finish
  <2>4. CASE updateState = "RECEIVING" /\ verified
    BY <1>4, <2>1, <2>4, Finished DEF Finish, Receiving
  <2> QED BY <2>2, <2>3, <2>4
<1>5. CASE End(t)
  <2>1. CASE failUpdate /\ Return(t) /\ UNCHANGED <<received, package, noFlash>>
    BY <1>5, <2>1, Failed DEF End, Busy
  <2>2. CASE writing /\ session \in Images /\ writing' = FALSE /\ selected' = TRUE
             /\ Goto(t, "announce")
             /\ UNCHANGED <<ram, who, todo, available, running, runState, other, fallback>>
    BY <1>5, <2>2, Selecting DEF End
  <2> QED BY <1>5, <2>1, <2>2 DEF End
<1>6. CASE Announce(t)
  BY <1>6, Announced
<1> QED BY <1>1, <1>2, <1>3, <1>4, <1>5, <1>6 DEF InstallStep

\* So does every step of preparePackage().
LEMMA PrepareIInv ==
  ASSUME IInv, NEW t \in Tasks, Prepare(t) \/ PrepareStep(t)
  PROVE  IInv'
<1>1. /\ package \in newer \cup {0} /\ available \in BOOLEAN
      /\ updateState = "PENDING_VERIFY" => pc[t] = "idle" /\ package = 0
      /\ pc \in [Tasks -> Early \cup Busy]
  BY DEF IInv, EngineTyped, FlagsTyped, ConnsTyped, AtRest
<1>2. CASE Prepare(t)
  <2>1. /\ pc[t] = "idle" /\ available' \in BOOLEAN
        /\ UNCHANGED <<updateState, received, sessionOpen, hash, package, age, who, todo,
                       flash, past>>
    BY <1>1, <1>2 DEF Prepare, ram
  <2>2. CASE canPreparePackage /\ Goto(t, "clear")
    BY <1>1, <2>1, <2>2, Prepared DEF canPreparePackage, Early
  <2>3. CASE UNCHANGED pc
    <3>1. Goto(t, "idle")
      BY <1>1, <2>1, <2>3 DEF Goto
    <3> QED BY <1>1, <2>1, <3>1, Prepared DEF Early
  <2> QED BY <1>2, <2>2, <2>3 DEF Prepare
<1>3. CASE Clear(t)
  BY <1>1, <1>3, Prepared DEF Clear, Early
<1>4. CASE Verify(t)
  <2>1. available' \in BOOLEAN
    BY <1>1, <1>4 DEF Verify
  <2> QED BY <1>1, <1>4, <2>1, Prepared DEF Verify, Early
<1> QED BY <1>2, <1>3, <1>4 DEF PrepareStep

LEMMA NextIInv == IInv /\ [Next]_vars => IInv'
<1> SUFFICES ASSUME IInv, [Next]_vars PROVE IInv'
  OBVIOUS
<1>1. ASSUME NEW t \in Tasks, Prepare(t) \/ PrepareStep(t) \/ InstallStep(t) PROVE IInv'
  BY <1>1, PrepareIInv, InstallIInv
<1>2. ASSUME NEW x \in Transfers, NEW s \in Streams, BeginInstall(x, s) PROVE IInv'
  <2>1. CASE failUpdate /\ Derail /\ UNCHANGED <<pc, who>>
             /\ todo' = [todo EXCEPT ![x] =
                           IF TaskOf(x) = "http" /\ Len(s) > 1 THEN Tail(s) ELSE Closed]
    BY <1>2, <2>1, BeganNothing
  <2>2. CASE package # 0 /\ SetState("RECEIVING") /\ hash' = <<>>
             /\ Goto(TaskOf(x), "open") /\ who' = [who EXCEPT ![TaskOf(x)] = x]
             /\ todo' = [todo EXCEPT ![x] = s]
             /\ UNCHANGED <<sessionOpen, writing, past>>
    BY <1>2, <2>2, BeganInstall DEF SetState
  <2> QED BY <1>2, <2>1, <2>2 DEF BeginInstall
<1>3. ASSUME NEW x \in Transfers, Chunk(x) \/ Abandon(x) PROVE IInv'
  BY <1>3, Chunked, Abandoned
<1>4. CASE TickRestart \/ Boot
  BY <1>4, BootIInv DEF TickRestart
<1>5. CASE TickAccept
  BY <1>5, Judged
<1>6. CASE TickReject
  <2>1. CASE fallback
    <3>1. GoBack
      BY <1>6 DEF TickReject, GoBack, IInv, AtRest
    <3> QED BY <1>6, <2>1, <3>1, BootIInv DEF TickReject, Boot
  <2>2. CASE ~fallback
    BY <1>6, <2>2, Waited DEF TickReject, SetState
  <2> QED BY <2>1, <2>2
<1>7. CASE Age
  <2>1. age' \in 0..3
    BY <1>7 DEF Age, IInv, EngineTyped
  <2> QED BY <1>7, <2>1, Waited DEF Age
<1>8. CASE UNCHANGED vars
  <2>1. age' \in 0..3
    BY <1>8 DEF vars, ram, IInv, EngineTyped
  <2> QED BY <1>8, <2>1, Waited DEF vars, ram
<1> QED BY <1>1, <1>2, <1>3, <1>4, <1>5, <1>6, <1>7, <1>8 DEF Next, Tick

-----------------------------------------------------------------------------
(* The theorems *)

LEMMA Invariant == Spec => []IInv
<1>1. Init => IInv
  BY InitIInv
<1>2. IInv /\ [Next]_vars => IInv'
  BY NextIInv
<1> QED BY <1>1, <1>2, PTL DEF Spec

\* The engine's state, its hash and its count, and what the partitions hold
\* keep their types: a hash of at most one chunk more than an image, a prepared
\* package that is signed (update_service.cpp, firmware_package_verifier.cpp).
THEOREM TypeCorrect == Spec => []TypeOK
<1>1. IInv => TypeOK
  <2> SUFFICES ASSUME IInv PROVE TypeOK
    OBVIOUS
  <2> USE Constants DEF IInv
  <2>1. (hash = NoHash \/ hash \in Seq(Chunks)) /\ Len(hash) <= Size + 1
    <3>1. CASE hash = NoHash
      BY <3>1, Marks
    <3>2. CASE hash # NoHash
      <4>1. received <= Size /\ Len(hash) \in Nat /\ received \in Nat /\ Size \in Nat
        BY <3>2 DEF EngineTyped
      <4>2. Flying("http") + Flying("ota") <= 1 \/ received < Size
        BY DEF Flying, Room, Tasks
      <4>3. Flying("http") \in 0..1 /\ Flying("ota") \in 0..1
        BY DEF Flying
      <4>4. Len(hash) <= received + Flying("http") + Flying("ota")
        BY <3>2 DEF HashBound
      <4> QED BY <4>1, <4>2, <4>3, <4>4 DEF EngineTyped
    <3> QED BY <3>1, <3>2
  <2>2. package \in Signed \cup {0}
    BY DEF EngineTyped, newer
  <2>3. /\ pc \in [Tasks -> {"idle", "clear", "verify", "open", "hash", "flash",
                             "finish", "end", "announce"}]
        /\ \A t \in Tasks : pc[t] \notin Early => TaskOf(who[t]) = t
        /\ \A x \in Transfers : todo[x] = Closed \/ todo[x] \in Seq(Chunks)
    BY DEF ConnsTyped, Owned, Early, Busy
  <2> QED BY <2>1, <2>2, <2>3 DEF TypeOK, EngineTyped, FlagsTyped, FlashTyped, Early
<1> QED BY <1>1, Invariant, PTL

\* Whatever is prepared, streamed and broken off by either task in any order,
\* a restart is ordered for a complete image of a signed package, unless the
\* other task wrote an install of its own after the check (writePreparedChunk(),
\* finishPreparedInstall()).
THEOREM OnlySignedAccepted == Spec => []AcceptedIsSigned
<1>1. IInv => AcceptedIsSigned
  BY DEF IInv, AcceptedIsSigned, Selected, Chosen, NewImages, newer
<1> QED BY <1>1, Invariant, PTL

\* Through every install, reset and failed call, an image on trial is watched
\* and can be given up, unless a failed call has ended its trial (tick(),
\* failUpdate()).
THEOREM TrialAlwaysSafe == Spec => []TrialIsSafeUnlessDerailed
<1>1. IInv => TrialIsSafeUnlessDerailed
  BY DEF IInv, Trial, TrialIsSafeUnlessDerailed
<1> QED BY <1>1, Invariant, PTL

\* No sequence of installs, restarts and power losses brings an older build
\* back, but the end of a trial or an install written after the check of another
\* (compareVersions() in prepare(), Update.end(), the bootloader).
THEOREM NeverBackUnasked == Spec => OnlyRollbackGoesBack
<1>1. IInv /\ [Next]_vars =>
        [running' < running => runState = "PENDING" \/ overtaken]_vars
  <2> SUFFICES ASSUME IInv, Next, running' < running, runState # "PENDING", ~overtaken
               PROVE  FALSE
    OBVIOUS
  <2>1. running \in Nat
    BY Constants DEF IInv, FlashTyped
  <2>2. CASE Boot \/ TickRestart
    <3>1. Boot
      BY <2>2 DEF TickRestart
    <3>2. selected /\ running' = other[1][1]
      BY <2>1, <3>1 DEF Boot, Swap, GoBack
    <3>3. PICK b \in newer : other = Image(b)
      BY <3>2 DEF IInv, Chosen, NewImages
    <3>4. running' = b /\ b > running
      BY <3>2, <3>3, ImageOfBuild, Constants DEF newer
    <3> QED BY <2>1, <3>3, <3>4, Constants DEF newer
  <2>3. CASE TickReject
    BY <2>3 DEF TickReject, IInv, AtRest
  <2>4. running' = running \/ Boot \/ TickRestart \/ TickReject
    BY DEF Next, Tick, Prepare, PrepareStep, Clear, Verify, InstallStep, Open, Hash, Flash,
           Write, Finish, End, Announce, BeginInstall, Chunk, Abandon, TickAccept, Age, noFlash, flash
  <2> QED BY <2>1, <2>2, <2>3, <2>4
<1> QED BY <1>1, Invariant, PTL DEF Spec, OnlyRollbackGoesBack
=============================================================================
