--------------------------- MODULE FirmwareUpdate ---------------------------
(***************************************************************************)
(* The install engine (src/src/update_service.cpp) with the package        *)
(* verifier it consults (firmware_package_verifier.cpp), its two callers   *)
(* and the two application partitions.                                     *)
(*                                                                         *)
(*   "http"  the web server's task: one callback at a time, but the chunks *)
(*           of several uploads may alternate, and any may just stop       *)
(*   "ota"   the worker of remote_update_service.cpp: prepares a package,  *)
(*           or downloads and installs the one that is prepared            *)
(*   loop    tick(): restarts, accepts or rejects the running image        *)
(*                                                                         *)
(* The engine has no lock, so a call is cut between its check of the state,*)
(* its use of the hash and its use of the Update library.  An image is a   *)
(* sequence of chunks <<build, index>>, its SHA-256 is the sequence itself;*)
(* a package is the build whose manifest was verified, 0 when none is.     *)
(***************************************************************************)
EXTENDS Naturals, Sequences

CONSTANTS
  Builds,     \* builds there are complete images of
  Signed,     \* those that also have a manifest the verifier accepts
  Size,       \* chunks of an image: one callback never brings a whole one
  Streams,    \* what may be uploaded or downloaded as firmware.bin
  Uploads,    \* connections that may upload; they all run in the HTTP task
  Downloads   \* connections of the OTA worker: at most one

Transfers == Uploads \cup Downloads
Tasks     == {"http", "ota"}
TaskOf(x) == IF x \in Uploads THEN "http" ELSE "ota"
Chunks    == Builds \X (1..Size)
Image(b)  == [i \in 1..Size |-> <<b, i>>]
Images    == {Image(b) : b \in Builds}

ASSUME UpdateAssumption ==
  /\ Builds \subseteq Nat \ {0} /\ Builds # {} /\ Signed \subseteq Builds
  /\ Size \in Nat \ {0, 1}
  /\ Streams \subseteq Seq(Chunks) \ {<<>>}
  /\ Uploads \cap Downloads = {}

Closed == << <<0, 0>> >>    \* the connection carries no firmware
NoHash == << <<0, 0>> >>    \* uploadHashActive is false

VARIABLES
  updateState, received,
  sessionOpen,       \* updateSessionOpen
  hash,              \* uploadHashContext: what it was fed
  package,           \* FirmwarePackageVerifier: preparedMetadata
  age,               \* 0..3: since setState, nothing, 750 ms, 10 s, 30 s
  pc, who,           \* where each task is, and on behalf of which transfer
  todo,              \* what each transfer has still to deliver
  available,         \* remoteState is AVAILABLE: the worker may be told to install
  writing,           \* the Update library: a session is open
  running, runState, \* the running build, and its OTA image state
  other,             \* content of the other partition
  selected,          \* the boot partition is the other one, and its first block,
                     \* which the Update library writes last, is there
  fallback,          \* the other one holds an image that was valid before
  derailed,          \* history: a failure ended the trial of the running image, or
                     \* of the image it replaced
  overtaken          \* history: an install was written over another one between the
                     \* verification of that and the restart that was to follow

ram    == <<updateState, received, sessionOpen, hash, package, age>>
conns  == <<pc, who, todo, available>>
flash  == <<writing, running, runState, other, selected, fallback>>
past   == <<derailed, overtaken>>
vars   == <<ram, conns, flash, past>>

TypeOK ==
  /\ updateState \in {"IDLE", "RECEIVING", "FINALIZING", "PENDING_REBOOT",
                      "PENDING_VERIFY", "VALID", "FAILED", "ROLLBACK"}
  /\ received \in 0..Size /\ sessionOpen \in BOOLEAN
  /\ (hash = NoHash \/ hash \in Seq(Chunks)) /\ Len(hash) <= Size + 1
  /\ package \in Signed \cup {0} /\ age \in 0..3
  /\ pc \in [Tasks -> {"idle", "clear", "verify", "open", "hash", "flash",
                       "finish", "end", "announce"}]
  /\ \A t \in Tasks : pc[t] \notin {"idle", "clear", "verify"} => TaskOf(who[t]) = t
  /\ \A x \in Transfers : todo[x] = Closed \/ todo[x] \in Seq(Chunks)
  /\ available \in BOOLEAN
  /\ writing \in BOOLEAN /\ running \in Builds /\ runState \in {"VALID", "PENDING"}
  /\ other \in Seq(Chunks) /\ Len(other) <= Size
  /\ selected \in BOOLEAN /\ fallback \in BOOLEAN
  /\ derailed \in BOOLEAN /\ overtaken \in BOOLEAN

Booted == /\ updateState = IF runState = "PENDING" THEN "PENDING_VERIFY" ELSE "IDLE"
          /\ received = 0 /\ sessionOpen = FALSE /\ hash = NoHash
          /\ package = 0 /\ age = 0

\* A device flashed over USB with the oldest build; the other partition empty.
Init ==
  /\ running = CHOOSE b \in Builds : \A c \in Builds : b <= c
  /\ runState = "VALID" /\ other = <<>>
  /\ writing = FALSE /\ selected = FALSE /\ fallback = FALSE
  /\ Booted /\ derailed = FALSE /\ overtaken = FALSE
  /\ pc = [t \in Tasks |-> "idle"]
  /\ who = [t \in Tasks |-> CHOOSE x \in Transfers : TRUE]
  /\ todo = [x \in Transfers |-> Closed] /\ available = FALSE

SetState(s) == updateState' = s /\ age' = 0
Goto(t, l)  == pc' = [pc EXCEPT ![t] = l]

-----------------------------------------------------------------------------
(* preparePackage(), from the HTTP handler or the check worker *)

\* Fault: an image under validation may be replaced.
canPreparePackageAlways == updateState # "RECEIVING"

canPreparePackage == updateState \in {"IDLE", "VALID", "FAILED"}

\* A check by the worker withdraws what an earlier one had made available.
Prepare(t) ==
  /\ pc[t] = "idle" /\ (t = "ota" => \A x \in Downloads : todo[x] = Closed)
  /\ \/ canPreparePackage /\ Goto(t, "clear")
     \/ ~canPreparePackage /\ UNCHANGED pc
  /\ available' = (available /\ t # "ota")
  /\ UNCHANGED <<ram, who, todo, flash, past>>

Clear(t) ==
  /\ pc[t] = "clear" /\ Goto(t, "verify")
  /\ package' = 0
  /\ UNCHANGED <<updateState, received, sessionOpen, hash, age, who, todo, available,
                 flash, past>>

\* Faults: any signed manifest will do; any newer one will.
newerAny      == Signed
newerUnsigned == {b \in Builds : b > running}

\* The manifest has to be signed, and of a newer build than the one running.
newer == {b \in Signed : b > running}

\* The verification may fail, or the image be larger than the partition.
Verify(t) ==
  /\ pc[t] = "verify" /\ Goto(t, "idle")
  /\ package' \in newer \cup {0}
  /\ available' = (IF t = "ota" THEN package' # 0 ELSE available)
  /\ UNCHANGED <<updateState, received, sessionOpen, hash, age, who, todo, flash,
                 past>>

-----------------------------------------------------------------------------
(* The install *)

failUpdate ==
  /\ SetState("FAILED")
  /\ writing' = (writing /\ ~sessionOpen)
  /\ sessionOpen' = FALSE /\ hash' = NoHash

Derail == /\ derailed' = (derailed \/ updateState = "PENDING_VERIFY")
          /\ UNCHANGED overtaken

\* The call the task is in returns an error: an upload goes on sending, the
\* worker gives the download up.
Return(t) ==
  LET x == who[t]
  IN  /\ Goto(t, "idle") /\ UNCHANGED <<who, available>>
      /\ todo' = [todo EXCEPT ![x] =
                    IF t = "http" /\ Len(@) > 1 THEN Tail(@) ELSE Closed]

noFlash == <<running, runState, other, selected, fallback>>

\* beginPreparedInstall() up to Update.begin(): a first upload callback, or
\* the worker with a body as long as the package it found, which may be gone by
\* now.  No look at updateState.  Without a package it fails, with one it may.
BeginInstall(x, s) ==
  LET t == TaskOf(x)
  IN  /\ pc[t] = "idle" /\ todo[x] = Closed
      /\ x \in Downloads => available /\ Len(s) = Size
      /\ available' = (available /\ x \notin Downloads)
      /\ received' = 0 /\ UNCHANGED package
      /\ \/ /\ failUpdate /\ Derail /\ UNCHANGED <<pc, who>>
            /\ todo' = [todo EXCEPT ![x] =
                          IF t = "http" /\ Len(s) > 1 THEN Tail(s) ELSE Closed]
         \/ /\ package # 0
            /\ SetState("RECEIVING") /\ hash' = <<>>
            /\ Goto(t, "open") /\ who' = [who EXCEPT ![t] = x]
            /\ todo' = [todo EXCEPT ![x] = s]
            /\ UNCHANGED <<sessionOpen, writing, past>>
      /\ UNCHANGED noFlash

\* The other partition holds an image that may be booted.
bootable == selected \/ fallback

\* Update.begin() refuses a second session, and may fail.  It erases nothing yet,
\* but what nobody can boot is as good as erased.
Open(t) ==
  /\ pc[t] = "open"
  /\ \/ /\ ~writing /\ writing' = TRUE /\ sessionOpen' = TRUE
        /\ other' = IF bootable THEN other ELSE <<>>
        /\ Goto(t, "hash")
        /\ UNCHANGED <<updateState, received, hash, package, age, who, todo, available,
                       running, runState, selected, fallback>>
     \/ failUpdate /\ Return(t) /\ UNCHANGED <<received, package, noFlash>>
  /\ UNCHANGED past

\* The next callback of an upload.
Chunk(x) ==
  /\ x \in Uploads /\ pc["http"] = "idle" /\ todo[x] # Closed
  /\ Goto("http", "hash") /\ who' = [who EXCEPT !["http"] = x]
  /\ UNCHANGED <<ram, todo, available, flash, past>>

sizeOf == IF package = 0 THEN 0 ELSE Size

\* writePreparedChunk() up to Update.write().
Hash(t) ==
  /\ pc[t] = "hash"
  /\ IF updateState # "RECEIVING"
     THEN /\ Return(t)
          /\ UNCHANGED <<updateState, sessionOpen, hash, age, writing>>
     ELSE IF received + 1 > sizeOf \/ hash = NoHash
     THEN failUpdate /\ Return(t)
     ELSE /\ hash' = Append(hash, Head(todo[who[t]]))
          /\ Goto(t, "flash")
          /\ UNCHANGED <<updateState, sessionOpen, age, who, todo, available, writing>>
  /\ UNCHANGED <<received, package, noFlash, past>>

\* What the open session has written: nothing, as long as there is an image yet.
session == IF bootable THEN <<>> ELSE other

\* The first write of a session erases what was there.
Write(s) ==
  /\ other' = s /\ selected' = FALSE /\ fallback' = FALSE
  /\ overtaken' = (\/ overtaken
                   \/ session = <<>> /\ (\/ updateState = "PENDING_REBOOT"
                                         \/ \E u \in Tasks : pc[u] \in {"end", "announce"}))
  /\ UNCHANGED <<running, runState, derailed>>

\* Update.write() needs its session and room in it, and may fail, before or after
\* it has erased the flash.
Flash(t) ==
  LET x == who[t]
  IN  /\ pc[t] = "flash"
      /\ \/ /\ writing /\ Len(session) < Size
            /\ Write(Append(session, Head(todo[x])))
            /\ received' = received + 1
            /\ todo' = [todo EXCEPT ![x] = Tail(@)]
            /\ Goto(t, IF Len(todo[x]) = 1 THEN "finish"
                       ELSE IF t = "http" THEN "idle" ELSE "hash")
            /\ UNCHANGED <<updateState, sessionOpen, hash, package, age, who, available,
                           writing>>
         \/ /\ failUpdate /\ Return(t) /\ UNCHANGED <<received, package>>
            /\ \/ UNCHANGED <<noFlash, past>>
               \/ writing /\ bootable /\ Write(<<>>)

\* Fault: the SHA-256 is computed and not compared.
verifiedLength == received = sizeOf /\ hash # NoHash

\* The whole package was received, and its SHA-256 is the manifest's.
verified == received = sizeOf /\ hash = Image(package)

\* finishPreparedInstall() up to Update.end().
Finish(t) ==
  /\ pc[t] = "finish"
  /\ IF updateState # "RECEIVING"
     THEN /\ Return(t)
          /\ UNCHANGED <<updateState, sessionOpen, hash, age, writing>>
     ELSE IF ~verified THEN failUpdate /\ Return(t)
     ELSE /\ SetState("FINALIZING") /\ hash' = NoHash
          /\ Goto(t, "end")
          /\ UNCHANGED <<sessionOpen, who, todo, available, writing>>
  /\ UNCHANGED <<received, package, noFlash, past>>

\* Update.end() selects the partition for boot if an image is in it.
End(t) ==
  /\ pc[t] = "end"
  /\ \/ /\ writing /\ session \in Images
        /\ writing' = FALSE /\ selected' = TRUE
        /\ Goto(t, "announce")
        /\ UNCHANGED <<ram, who, todo, available, running, runState, other, fallback>>
     \/ failUpdate /\ Return(t) /\ UNCHANGED <<received, package, noFlash>>
  /\ UNCHANGED past

Announce(t) ==
  /\ pc[t] = "announce"
  /\ sessionOpen' = FALSE /\ SetState("PENDING_REBOOT")
  /\ Return(t)
  /\ UNCHANGED <<received, hash, package, flash, past>>

\* An upload stops arriving; the download stalls or breaks off, and the
\* worker reports that without a call into the engine.
Abandon(x) ==
  LET t == TaskOf(x)
  IN  /\ todo[x] # Closed
      /\ todo' = [todo EXCEPT ![x] = Closed]
      /\ \/ t = "http" /\ (pc[t] = "idle" \/ who[t] # x) /\ UNCHANGED pc
         \/ t = "ota" /\ pc[t] = "hash" /\ Goto(t, "idle")
      /\ UNCHANGED <<ram, who, available, flash, past>>

-----------------------------------------------------------------------------
(* The bootloader, setup() and tick() *)

GoBack == ~selected /\ runState = "PENDING"

Restarted ==
  /\ updateState' = IF runState' = "PENDING" THEN "PENDING_VERIFY" ELSE "IDLE"
  /\ received' = 0 /\ sessionOpen' = FALSE /\ hash' = NoHash /\ package' = 0
  /\ age' = 0 /\ writing' = FALSE /\ selected' = FALSE
  /\ derailed' = (derailed /\ selected /\ runState = "PENDING") /\ overtaken' = FALSE
  /\ pc' = [t \in Tasks |-> "idle"] /\ UNCHANGED who
  /\ todo' = [x \in Transfers |-> Closed] /\ available' = FALSE

\* The two partitions change roles.
Swap(image, state) ==
  /\ running' = image[1][1] /\ other' = Image(running) /\ runState' = state

\* A new image boots pending; one still pending at a reset is given up for the
\* image before it.  A device with nothing left to boot is not followed.
Boot ==
  /\ \/ selected /\ Swap(other, "PENDING") /\ fallback' = (runState = "VALID")
     \/ GoBack /\ fallback /\ Swap(other, "VALID") /\ fallback' = FALSE
     \/ /\ ~selected /\ ~GoBack
        /\ UNCHANGED <<running, other, runState, fallback>>
  /\ Restarted

\* Time passes, as far as tick() compares it with anything.
Age == /\ \/ updateState = "PENDING_REBOOT" /\ age < 1
          \/ updateState = "PENDING_VERIFY" /\ age < 3
       /\ age' = age + 1
       /\ UNCHANGED <<updateState, received, sessionOpen, hash, package, conns, flash,
                      past>>

\* Fault: the delay is tested the wrong way round.
TickRestartReversed == updateState = "PENDING_REBOOT" /\ age < 1 /\ Boot

TickRestart == updateState = "PENDING_REBOOT" /\ age >= 1 /\ Boot

\* Locally healthy for ten seconds: the image is marked valid, or cannot be.
TickAccept ==
  /\ updateState = "PENDING_VERIFY" /\ age >= 2
  /\ \/ /\ SetState("VALID") /\ runState' = "VALID"
        /\ UNCHANGED <<sessionOpen, hash, writing, past>>
     \/ failUpdate /\ Derail /\ UNCHANGED runState
  /\ UNCHANGED <<received, package, conns, running, other, selected, fallback>>

\* Fault: a trial that is never given up.
TickRejectNever == age > 3 /\ UNCHANGED vars

\* Unhealthy for thirty: rolled back, or left in ROLLBACK if it cannot be.
TickReject ==
  /\ updateState = "PENDING_VERIFY" /\ age = 3
  /\ IF fallback
     THEN Swap(other, "VALID") /\ fallback' = FALSE /\ Restarted
     ELSE /\ SetState("ROLLBACK")
          /\ UNCHANGED <<received, sessionOpen, hash, package, conns, flash, past>>

Tick == TickRestart \/ TickAccept \/ TickReject

-----------------------------------------------------------------------------
InstallStep(t) == Open(t) \/ Hash(t) \/ Flash(t) \/ Finish(t) \/ End(t) \/ Announce(t)
PrepareStep(t) == Clear(t) \/ Verify(t)

Next ==
  \/ \E t \in Tasks : Prepare(t) \/ PrepareStep(t) \/ InstallStep(t)
  \/ \E x \in Transfers : (\E s \in Streams : BeginInstall(x, s)) \/ Chunk(x) \/ Abandon(x)
  \/ Tick \/ Age
  \/ Boot      \* power loss, or a reset from anywhere

Spec == /\ Init /\ [][Next]_vars
        /\ \A t \in Tasks : WF_vars(InstallStep(t) \/ PrepareStep(t))
        /\ WF_vars(Age) /\ WF_vars(TickRestart)
        /\ WF_vars(TickReject)    \* but the device may never be healthy

-----------------------------------------------------------------------------
(* Properties *)

\* docs/ota.md:120, "streamed firmware SHA-256 checked against the signed
\* manifest before the image is accepted": what a restart is ordered for is a
\* complete image of a signed package, whatever was prepared, streamed or broken
\* off meanwhile, unless the other task wrote an install of its own after the check.
AcceptedIsSigned ==
  updateState = "PENDING_REBOOT" /\ ~overtaken =>
     selected /\ other \in {Image(b) : b \in Signed}

\* While an image is on trial the firmware watches over it and the image it
\* would go back to is untouched, unless a failed call has overwritten PENDING_VERIFY.
TrialIsSafeUnlessDerailed ==
  runState = "PENDING" /\ ~derailed =>
     updateState \in {"PENDING_VERIFY", "ROLLBACK"} /\ fallback

\* docs/ota.md:139: an image on trial ends "VALID or bootloader rollback".
TrialIsSafe == runState = "PENDING" => fallback

\* Builds only go back when the image on trial is given up for the one before, or
\* when the other task's install put another image where a verified one was.
OnlyRollbackGoesBack ==
  [][running' < running => runState = "PENDING" \/ overtaken]_vars

\* docs/ota.md:58: "Any error during receive/finalize -> FAILED -> IDLE/retry":
\* the engine is never left receiving when nothing is being transferred.
ErrorIsFailed ==
  updateState \in {"RECEIVING", "FINALIZING"} =>
     \E x \in Transfers : todo[x] # Closed

\* An accepted image is booted, if no other install has erased it, and a trial
\* comes to a verdict.
RestartComes ==
  updateState = "PENDING_REBOOT" ~> updateState # "PENDING_REBOOT" \/ overtaken
VerdictComes == updateState = "PENDING_VERIFY" ~> updateState # "PENDING_VERIFY"
=============================================================================
